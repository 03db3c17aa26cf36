------------------------------ MODULE MCCheck ------------------------------
(***************************************************************************)
(* Instances of Check, after the repository schema of the documentation's  *)
(* testing page:                                                           *)
(*                                                                         *)
(*   entity organization { relation member @user @organization#member }    *)
(*   entity repository {                                                   *)
(*     relation owner  @user @organization#member                          *)
(*     relation parent @organization                                       *)
(*     relation banned @user                                               *)
(*     relation maintainer @user                                           *)
(*     action edit = parent.member and not banned                          *)
(*     action push = owner or maintainer or parent.member                  *)
(*   }                                                                     *)
(***************************************************************************)
EXTENDS Check

CONSTANTS u1, u2, r1, o1, o2, w1, w2, w3,  \* users, a repository, organizations, worlds
          c1, c2, c3                       \* the calls of the Check API

MCEntity == {u1, u2, r1, o1, o2}
MCUser == {u1, u2}
MCName == {"owner", "parent", "member", "banned", "maintainer", "edit", "push"}

MCKind == [e \in MCEntity |-> [n \in MCName |->
    CASE e = r1 /\ n \in {"owner", "parent", "banned", "maintainer"} -> "relation"
      [] e = r1 /\ n \in {"edit", "push"} -> "action"
      [] e \in {o1, o2} /\ n = "member" -> "relation"
      [] OTHER -> "undefined"]]

MCNode == {"edit", "push", "owner", "maintainer", "parent.member", "not banned"}

\* edit = parent.member and not owner, as the testing page has it
NotOwnerNode == {"edit", "push", "owner", "maintainer", "parent.member", "not owner"}

Rewrite(kind, children) ==
    [kind |-> kind, children |-> children, tupleSet |-> "edit", relation |-> "edit",
     sign |-> "pos"]
Leaf(kind, tupleSet, relation, sign) ==
    [kind |-> kind, children |-> {}, tupleSet |-> tupleSet, relation |-> relation,
     sign |-> sign]

MCNodeDef == [n \in Node |->
    CASE n = "edit" ->
            Rewrite("intersection", {"parent.member", "not banned", "not owner"} \cap Node)
      [] n = "push" -> Rewrite("union", {"owner", "maintainer", "parent.member"})
      [] n = "owner" -> Leaf("computedUserSet", "edit", "owner", "pos")
      [] n = "maintainer" -> Leaf("computedUserSet", "edit", "maintainer", "pos")
      [] n = "parent.member" -> Leaf("tupleToUserSet", "parent", "member", "pos")
      [] n = "not banned" -> Leaf("computedUserSet", "edit", "banned", "neg")
      [] n = "not owner" -> Leaf("computedUserSet", "edit", "owner", "neg")]

MCRoot == [e \in MCEntity |-> [n \in MCName |-> IF n = "push" THEN "push" ELSE "edit"]]

Subj(e, r) == [entity |-> e, relation |-> r]
Tup(e, r, s) == [entity |-> e, relation |-> r, subject |-> s]

\* World w1: organizations that are members of each other, u1 belongs to one.
CyclicTuples ==
    {Tup(r1, "owner", Subj(o1, "member")), Tup(r1, "parent", Subj(o2, "...")),
     Tup(o1, "member", Subj(o2, "member")), Tup(o2, "member", Subj(o1, "member")),
     Tup(o2, "member", Subj(u1, "")), Tup(r1, "banned", Subj(u2, ""))}

\* World w2: u2 is a member, u1 is not; the repository has no organization above it.
LaterTuples ==
    {Tup(r1, "owner", Subj(o1, "member")), Tup(o1, "member", Subj(u2, "")),
     Tup(r1, "banned", Subj(u1, ""))}

\* World w3: u1 is a member of the parent o2, only u2 owns the repository, through o1.
GuestTuples ==
    {Tup(r1, "owner", Subj(o1, "member")), Tup(r1, "parent", Subj(o2, "...")),
     Tup(o2, "member", Subj(u1, "")), Tup(o1, "member", Subj(u2, ""))}

MCTuples == [w \in World |-> CASE w = w1 -> CyclicTuples
                               [] w = w2 -> LaterTuples
                               [] w = w3 -> GuestTuples]

MCRequester == {Subj(u, "") : u \in MCUser}

AskFor(w, u, e, n, d) ==
    Execute([world |-> w, subject |-> Subj(u, ""), entity |-> e, permission |-> n],
            "pos", d, "edit")

\* The call that is not made: no client gets a depth of 0 past Validate.
NoAsk == AskFor(CHOOSE w \in World : TRUE, u1, r1, "edit", 0)
Only(r, asks) == {[c \in Request |-> IF c = r THEN a ELSE NoAsk] : a \in asks}

\* A call alone, over actions, users, worlds and depths ...
TreeAsks ==
    {AskFor(w, u, r1, n, 3) : w \in World, u \in MCUser, n \in {"edit", "push"}}
    \cup {AskFor(w, u, r1, "edit", 4) : w \in World, u \in MCUser}
    \cup {AskFor(w1, u1, r1, "push", 4), AskFor(w1, u1, u2, "edit", 3)}
\* ... a call whose client may cancel ...
CancelAsks == {AskFor(w1, u1, r1, "edit", 3), AskFor(w1, u2, r1, "edit", 3),
               AskFor(w2, u1, r1, "push", 3), AskFor(w1, u1, r1, "owner", 3)}
\* ... and two calls at a time that share the cache.
SharedAsks(w) == {AskFor(w, u, r1, "owner", 3) : u \in MCUser}
Both(a, b) == [c \in Request |-> IF c = c1 THEN a ELSE IF c = c3 THEN b ELSE NoAsk]
Pairs == {Both(a, b) : a \in SharedAsks(w1), b \in UNION {SharedAsks(w) : w \in World}}
            \cup {Both(a, AskFor(w2, u2, r1, "edit", 3)) : a \in SharedAsks(w1)}

CheckAsks == Only(c1, TreeAsks) \cup Only(c2, CancelAsks) \cup Pairs
EditAsks == Only(c1, {AskFor(w, u, r1, "edit", 4) : w \in World, u \in MCUser})

(***************************************************************************)
(* The meaning of the schema, computed bottom-up: first the relations, by  *)
(* closing the tuples under user set membership, then the rewrite trees.   *)
(***************************************************************************)
RECURSIVE Closure(_)
Closure(granted) ==
    LET more == {k \in Key : KindOf(k) = "relation" /\
                    (k.subject \in Subjects(k) \/ UserSets(k) \cap granted # {})}
    IN IF more = granted THEN granted ELSE Closure(more)

Relations == Closure({})

RECURSIVE Sat(_, _)
Has(k) == IF KindOf(k) = "action" THEN Sat(Root[k.entity][k.permission], k)
          ELSE k \in Relations
Sat(n, k) ==
    LET def == NodeDef[n] IN
    CASE def.kind = "union" -> \E c \in def.children : Sat(c, k)
      [] def.kind = "intersection" -> \A c \in def.children : Sat(c, k)
      [] def.kind = "tupleToUserSet" ->
            \E u \in Computed(n, k) : Has(u) = (def.sign = "pos")
      [] def.kind = "computedUserSet" ->
            Has(Nested(k, k.entity, def.relation)) = (def.sign = "pos")

MCGranted == {k \in Key : Has(k)}
MCSatisfied == [n \in Node |-> {k \in Key : Sat(n, k)}]
=============================================================================
