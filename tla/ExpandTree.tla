----------------------------- MODULE ExpandTree -----------------------------
(***************************************************************************)
(* What the expand command computes, by recursion: the functions that end, *)
(* the tree of one that meets no user sets, and the subjects that a reply  *)
(* has to show.  It promises an end to every call that can have one, and   *)
(* leaves no goroutine behind that can end.                                *)
(***************************************************************************)
EXTENDS Expand

\* The functions a function calls.
Called(w, f) ==
    LET of(functions) == {functions[i] : i \in DOMAIN functions} IN
    CASE f.fn = "expand" -> IF Defined(f.entity, f.permission) THEN {RootFunction(f)} ELSE {}
      [] f.fn = "group" -> of(GroupFunctions(f))
      [] f.fn = "ttu" -> of(ComputedFunctions(w, f))
      [] f.fn = "direct" -> of(UserSetFunctions(w, f))

\* No function calls itself below, along the path it is on.
RECURSIVE Ends(_, _, _)
Ends(w, f, above) == f \notin above /\ \A g \in Called(w, f) : Ends(w, g, above \cup {f})

\* Every permission that a function needs for its tree is defined, and no
\* relation that it reads has user sets.
RECURSIVE HasTree(_, _)
HasTree(w, f) == CASE f.fn = "expand" -> Defined(f.entity, f.permission) /\ HasTree(w, RootFunction(f))
                   [] f.fn = "direct" -> UserSetFunctions(w, f) = <<>>
                   [] OTHER -> \A g \in Called(w, f) : HasTree(w, g)

\* The tree of a function that has one, evaluated depth first.
RECURSIVE TreeOf(_, _)
TreeOf(w, f) ==
    LET TreesOf(functions) == [i \in DOMAIN functions |-> TreeOf(w, functions[i])] IN
    CASE f.fn = "expand" -> TreeOf(w, RootFunction(f))
      [] f.fn = "group" -> Node(f.op, TreesOf(GroupFunctions(f))).tree
      [] f.fn = "ttu" -> Node("union", TreesOf(ComputedFunctions(w, f))).tree
      [] f.fn = "direct" -> OwnLeaf(w, f).tree

\* The functions that are called when F is.
RECURSIVE Below(_, _)
Below(w, F) == LET more == F \cup UNION {Called(w, f) : f \in F}
               IN IF more = F THEN F ELSE Below(w, more)

\* The users that a relation holds among the functions of a call: directly, or
\* through user sets and tuples to user sets.
Holders(w, f) ==
    UNION {{w[i].subject.entity : i \in {j \in Found(w, g) : TypeOf[w[j].subject.entity] = "user"}} :
             g \in {g \in Below(w, {f}) : g.fn = "direct"}}

\* The users in the leaves of a tree.
RECURSIVE Shown(_)
Shown(tree) ==
    {tree.subjects[i].entity : i \in {j \in DOMAIN tree.subjects : TypeOf[tree.subjects[j].entity] = "user"}}
    \cup UNION {Shown(tree.children[i]) : i \in DOMAIN tree.children}

\* A reply shows all subjects, as expand-api.md promises: every user that holds
\* a relation the request meets is in a leaf of the tree.
AllSubjects == Replied /\ Reply.err = "" => Holders(world, Asked) \subseteq Shown(Reply.tree)

\* A call over user sets that do not contain each other returns, and so does
\* any call once its client has gone; only a panic stops it.
Returns == (cancelled \/ Ends(world, Asked, {})) ~> (Replied \/ crashed)

\* The goroutines a failed expandOperation did not wait for end too: always if
\* no user sets contain each other, and in PostgreSQL, whose reads see that the
\* context is done, even then, without the client cancelling.
Drains == Replied /\ (engine = "postgres" \/ Ends(world, Asked, {}))
             ~> (crashed \/ \A p \in DOMAIN act : act[p].at = "sent")
=============================================================================
