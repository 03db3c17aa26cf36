------------------------------ MODULE MCSchema ------------------------------
(***************************************************************************)
(* Every action over up to four names in a fixed order, bracketed in every *)
(* way, written and looked up; and schemas with different types, written   *)
(* and read at the same time.                                              *)
(***************************************************************************)
EXTENDS SchemaStore, Dsl

CONSTANT MaxLeaves   \* names in an action: a bound

LeafTokens == << <<"a">>, <<"not", "b">>, <<"p", ".", "member">>, <<"d">> >>
LeafTree == << Identifier(<<"a">>, FALSE), Identifier(<<"b">>, TRUE),
               Identifier(<<"p", "member">>, FALSE), Identifier(<<"d">>, FALSE) >>

\* An expression: its tokens, the tree it means when operators associate to
\* the left, and whether an operator follows the group of a right operand.
Exp(tokens, tree, group, exact) ==
    [tokens |-> tokens, tree |-> tree, group |-> group, exact |-> exact]

RECURSIVE Chains(_, _)
\* The names i to j alone, or in parentheses.
Items(i, j) ==
    IF i = j THEN {Exp(LeafTokens[i], LeafTree[i], FALSE, TRUE)}
    ELSE {Exp(<<"(">> \o c.tokens \o <<")">>, c.tree, TRUE, c.exact) : c \in Chains(i, j)}
\* At least two items with operators between them.
Chains(i, j) ==
    UNION {{ Exp(l.tokens \o <<op>> \o r.tokens, InfixExpression(op, l.tree, r.tree), r.group,
                 l.exact /\ r.exact /\ (l.group => l \in Items(i, k))) :
               l \in Items(i, k) \cup Chains(i, k), op \in Operators, r \in Items(k + 1, j)} :
           k \in i..(j - 1)}

Expressions == UNION {Items(1, n) \cup Chains(1, n) : n \in 1..MaxLeaves}

Stray == {<<>>, <<"a", ")">>, <<"a", "or", "gone">>, <<"not", "(", "a", ")">>, <<"a", "and">>,
          <<"p", ".", "member", ".", "a">>, <<"a", ".", "b">>, <<"a", "comment">>,
          <<"(", "a", "or", "b">>}

Entity(name, body) == <<"entity", name, "{", "NL">> \o body \o <<"}", "NL">>
User == Entity("user", <<>>)
Organization == Entity("organization", <<"relation", "member", " ", "@", "user",
                                         "@", "organization", "#", "member", "NL">>)
Doc(expression) ==
    Entity("doc", <<"relation", "p", "@", "organization", "NL", "relation", "a", "@", "user", "NL",
                    "relation", "b", "@", "user", "NL", "relation", "d", "@", "user",
                    "@", "organization", "#", "member", "NL", "action", "view", "=">>
                    \o expression \o <<"NL">>)

MCRank == [t \in {"doc", "organization", "user", "zone"} |->
             CASE t = "doc" -> 1 [] t = "organization" -> 2 [] t = "user" -> 3 [] t = "zone" -> 4]

Write(tenant, text, e) ==
    [kind |-> "write", tenant |-> tenant, text |-> text, meant |-> e.tree, exact |-> e.exact,
     type |-> "", names |-> {}]
ReadCall(tenant) ==
    [kind |-> "read", tenant |-> tenant, text |-> <<>>, meant |-> <<>>, exact |-> FALSE,
     type |-> "", names |-> {}]
LookupCall(tenant, names) ==
    [kind |-> "lookup", tenant |-> tenant, text |-> <<>>, meant |-> <<>>, exact |-> FALSE,
     type |-> "doc", names |-> names]

Idle == [ReadCall("t1") EXCEPT !.kind = "none"]

Unmeant(tokens) == Exp(tokens, <<>>, FALSE, FALSE)

Plan(c1, c2, c3, c4) == [c \in {"c1", "c2", "c3", "c4"} |->
    CASE c = "c1" -> c1 [] c = "c2" -> c2 [] c = "c3" -> c3 [] c = "c4" -> c4]

\* One schema for every expression, looked up and read.
ExpressionPlans ==
    {Plan(Write("t1", User \o Organization \o Doc(e.tokens), e),
          LookupCall("t1", {<<"a">>, <<"b">>}), Idle, Idle) :
        e \in Expressions \cup {Unmeant(s) : s \in Stray}}

A == Exp(<<"a">>, LeafTree[1], FALSE, TRUE)
NotB == Exp(<<"not", "b">>, LeafTree[2], FALSE, TRUE)
Zoned == Write("t1", Entity("zone", <<>>) \o Doc(A.tokens) \o User \o Organization, A)
Newer == Write("t1", User \o Organization \o Doc(NotB.tokens), NotB)
Other == Write("t2", Doc(A.tokens) \o User \o Organization, A)
Invalid == {User \o User, Doc(A.tokens), User \o Doc(A.tokens),
            User \o Organization \o Entity("doc", <<"relation", "a", "@", "user", "@", "organization", "NL">>),
            User \o Entity("doc", <<"relation", "a", "@", "user", "NL", "action", "a", "=", "a", "NL">>),
            User \o Entity("doc", <<"relation", "a", "@", "user", "NL", "relation", "a", "@", "user", "NL">>),
            User \o <<"entity", "doc", "{", "relation", "a">>, <<"NL", "gone">> \o User,
            User \o Entity("doc", <<"relation", "a", "@", "user", "#", "gone", "NL">>)}

\* Two schemas of different types, written while a third call reads.
HeadPlans == {Plan(w, v, r, Idle) : w \in {Zoned, Newer}, v \in {Newer, Other},
                                    r \in {ReadCall("t1"), LookupCall("t1", {<<"a">>})}}

MCPlans ==
    ExpressionPlans
    \cup {Plan(Write("t1", text, Unmeant(<<>>)), ReadCall("t1"), Idle, Idle) : text \in Invalid}
    \cup HeadPlans
    \cup {Plan(Zoned, LookupCall("t1", {}), Newer, LookupCall("t1", {}))}
    \cup {Plan(Other, LookupCall("t2", {<<"b">>}), LookupCall("t1", {}), Idle)}
\* An accepted action is what its author wrote, read from left to right, as
\* long as no operator follows the parentheses of a right operand.
MeansWritten ==
    \A c \in Callers : plan[c].kind = "write" /\ call[c].version # 0 /\ plan[c].exact =>
        Written(c)["doc"].actions["view"] = compileChildren(plan[c].meant)
=============================================================================
