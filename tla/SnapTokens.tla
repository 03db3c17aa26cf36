----------------------------- MODULE SnapTokens -----------------------------
(***************************************************************************)
(* What the relationship store promises its clients about snap tokens: an  *)
(* operation is applied at once and at most once, publishing a token whose *)
(* view holds what was written and lacks what was deleted; the view of a   *)
(* token never changes; an operation that is refused is not applied.       *)
(***************************************************************************)
EXTENDS Naturals, Sequences

CONSTANTS
    Op,      \* the calls of WriteRelationships and DeleteRelationships
    OpDef    \* OpDef[o]: kind, tenant and tuples of the call o

VARIABLES
    views,   \* views[x]: the operation that published token x, and what it shows a tenant
    outcome  \* outcome[o]: code and token the client of o has received

Elements(s) == {s[i] : i \in DOMAIN s}

\* What the view of the token of o has to show the tenant of o.
Kept(o, view) ==
    LET shown == view[OpDef[o].tenant]
        tuples == Elements(OpDef[o].tuples) IN
    IF OpDef[o].kind = "write" THEN tuples \subseteq shown ELSE tuples \cap shown = {}

Pending(o) == outcome[o].code = "none" /\ \A x \in DOMAIN views : views[x].op # o

Init ==
    /\ views = [x \in {} |-> 0]
    /\ outcome = [o \in Op |-> [code |-> "none", token |-> 0]]

\* The operation is applied under a token that is new.  Its client may still
\* be told that it failed.
Publish(o, x) ==
    /\ Pending(o)
    /\ DOMAIN views' = DOMAIN views \cup {x} /\ x \notin DOMAIN views
    /\ \A y \in DOMAIN views : views'[y] = views[y]
    /\ views'[x].op = o /\ Kept(o, views'[x].view)
    /\ \/ outcome' = [outcome EXCEPT ![o] = [code |-> "ok", token |-> x]]
       \/ outcome' = [outcome EXCEPT ![o] = [code |-> "failed", token |-> 0]]

Refuse(o, code) ==
    /\ Pending(o)
    /\ outcome' = [outcome EXCEPT ![o] = [code |-> code, token |-> 0]]
    /\ UNCHANGED views

Next ==
    \E o \in Op :
        \/ \E x \in DOMAIN views' : Publish(o, x)
        \/ \E code \in {"failed", "tooMany", "unique", "maxRetries"} : Refuse(o, code)

Spec == Init /\ [][Next]_<<views, outcome>>
=============================================================================
