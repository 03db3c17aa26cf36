------------------------------ MODULE MCExpand ------------------------------
(***************************************************************************)
(*   entity organization { relation member @user @organization#member }    *)
(*   entity repository {                                                   *)
(*     relation owner  @user @organization#member                          *)
(*     relation parent @organization                                       *)
(*     action view = parent.member or not owner                            *)
(*     action own = owner                                                  *)
(*     action both = (parent or not parent) and parent                     *)
(*   }                                                                     *)
(***************************************************************************)
EXTENDS ExpandTree

MCEntity == {"u1", "u2", "r", "o1", "o2", "t1"}

MCTypeOf == [e \in MCEntity |-> CASE e \in {"u1", "u2"} -> "user"
                                  [] e = "r" -> "repository"
                                  [] e = "t1" -> "team"
                                  [] OTHER -> "organization"]

Relation == [kind |-> "relation", child |-> <<>>]
Computed(relation, exclusion) ==
    [type |-> "computedUserSet", relation |-> relation, exclusion |-> exclusion]
TupleTo(tupleSet, relation) ==
    [type |-> "tupleToUserSet", tupleSet |-> tupleSet, relation |-> relation,
     exclusion |-> FALSE]
Rewrite(op, children) == [type |-> "rewrite", op |-> op, children |-> children]

MCSchema ==
    [user |-> [n \in {} |-> Relation],
     organization |-> [member |-> Relation],
     repository |->
        [owner |-> Relation, parent |-> Relation,
         view |-> [kind |-> "action",
                   child |-> Rewrite("union", <<TupleTo("parent", "member"),
                                                Computed("owner", TRUE)>>)],
         own |-> [kind |-> "action", child |-> Computed("owner", FALSE)],
         both |-> [kind |-> "action",
                   child |-> Rewrite("intersection",
                                <<Rewrite("union", <<Computed("parent", FALSE),
                                                     Computed("parent", TRUE)>>),
                                  Computed("parent", FALSE)>>)]]]

MCChildren ==
    LET within(F) == F \cup UNION {{c.children[i] : i \in DOMAIN c.children} :
                                     c \in {c \in F : c.type = "rewrite"}}
    IN within(within({MCSchema["repository"][a].child : a \in {"view", "own", "both"}}))

Tup(e, r, s, sr) == [entity |-> e, relation |-> r, subject |-> [entity |-> s, relation |-> sr]]

\* A nested user set next to a user, and two parents.
Nested == << Tup("r", "owner", "u1", ""), Tup("r", "owner", "o1", "member"),
             Tup("r", "parent", "o1", "..."), Tup("r", "parent", "o2", "..."),
             Tup("o1", "member", "u2", ""), Tup("o2", "member", "u1", "") >>

\* No user sets at all.
Plain == << Tup("r", "owner", "u2", ""), Tup("r", "owner", "u1", ""),
            Tup("r", "parent", "o2", "..."), Tup("r", "parent", "o1", "..."),
            Tup("o1", "member", "u2", ""), Tup("o2", "member", "u1", "") >>

\* Organizations that are members of each other own the repository.
Cyclic == << Tup("r", "owner", "o1", "member"), Tup("r", "parent", "o2", "..."),
             Tup("o1", "member", "o2", "member"), Tup("o2", "member", "o1", "member") >>

\* Written under an earlier schema, in which there were teams and organizations
\* had guests.
Stale == << Tup("r", "owner", "t1", "member"), Tup("r", "owner", "o1", "guest"),
            Tup("r", "parent", "o1", "..."), Tup("o1", "member", "u2", "") >>

MCWorlds == {Nested, Plain, Cyclic, Stale}
MCRequests == {[entity |-> "r", permission |-> p] : p \in {"view", "own", "both", "gone"}}
\* The trees of the functions that the requests may reach.
MCTree ==
    [w \in MCWorlds |->
        LET asked == {ExpandOf(q.entity, q.permission, FALSE) : q \in MCRequests}
        IN [f \in {f \in Below(w, asked) : HasTree(w, f)} |-> TreeOf(w, f)]]
=============================================================================
