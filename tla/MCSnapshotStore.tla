-------------------------- MODULE MCSnapshotStore --------------------------
(***************************************************************************)
(* Instances of SnapshotStore: a few overlapping calls.                    *)
(***************************************************************************)
EXTENDS SnapshotStore

CONSTANTS t1, t2, a, b, wab, wba, wa, wb, waa, wc, dall, da

Args(kind, tenant, tuples) == [kind |-> kind, tenant |-> tenant, tuples |-> tuples]

MCOpDef == [o \in Op |->
    CASE o = wab -> Args("write", t1, <<a, b>>)
      [] o = wba -> Args("write", t1, <<b, a>>)
      [] o = wa -> Args("write", t1, <<a>>)
      [] o = wb -> Args("write", t1, <<b>>)
      [] o = waa -> Args("write", t1, <<a, a>>)
      [] o = wc -> Args("write", t1, <<a, b, a>>)
      [] o = dall -> Args("delete", t1, <<a, b>>)
      [] o = da -> Args("delete", t2, <<a>>)]

\* Writes of the same tuples in either order, of a tuple twice, of too many; and
\* writes next to deletes that meet, the delete of a tuple by another tenant too.
WritesAndDeletes == {{wab, wba, waa}, {wab, dall, da}, {wab, wa, da}, {wab, wc}}
TwoWrites == {{wa, wb}}
=============================================================================
