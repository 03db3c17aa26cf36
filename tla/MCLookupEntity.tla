--------------------------- MODULE MCLookupEntity ---------------------------
(***************************************************************************)
(* Instances of LookupEntity: four entities, two snap tokens, two schema   *)
(* versions, a pool and a channel that are smaller than the answer.        *)
(***************************************************************************)
EXTENDS LookupEntity

CONSTANTS e1, e2, e3, e4, s1, s2, v1, v2

MCId == {e1, e2, e3, e4}
MCListed == [s \in Snap |-> IF s = s1 THEN MCId ELSE {e2, e3, e4}]
MCGranted == [s \in Snap |-> [v \in Version |->
    CASE v = v2 -> {}
      [] s = s1 -> {e1, e2, e3}
      [] OTHER -> {e2, e4}]]

\* Requests that leave snap token and schema version to the command, or name them.
MCAsks ==
    {[mode |-> m, snap |-> Latest, version |-> Latest] : m \in {"execute", "stream"}}
    \cup {[mode |-> m, snap |-> s1, version |-> v1] : m \in {"execute", "stream"}}
=============================================================================
