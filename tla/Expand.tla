------------------------------- MODULE Expand -------------------------------
(***************************************************************************)
(* The expand command (internal/commands/expand.go): the tree of subjects  *)
(* of a permission.  Every function of a rewrite runs on a goroutine of    *)
(* its own with a channel of capacity one; expandOperation takes the       *)
(* results in the order of the functions, returns on the first error and   *)
(* cancels what still runs, without waiting for it.  There is no depth:    *)
(* a goroutine is named by its path from the root, and MaxPath bounds it.  *)
(***************************************************************************)
EXTENDS Naturals, Sequences, FiniteSets

CONSTANTS Entity,     \* entities; a user is an entity of type "user"
          TypeOf,     \* the type of each entity
          Schema,     \* Schema[type][name]: a relation, or an action and its child
          Children,   \* the children of the schema's actions and of its rewrites
          Worlds,     \* relationship sets at the pinned snap token: each a
                      \* sequence of tuples in the order the database returns
          Requests,   \* the [entity, permission] a client may ask for
          Engines,    \* "postgres", "memory"
          Flaky,      \* entities whose reads may fail: a bound
          MaxPath,    \* longest path of goroutines: a bound
          Tree        \* Tree[world][f]: the tree of a function that meets no user
                      \* sets, as one goroutine alone would build it

ASSUME ExpandAssumption == /\ MaxPath \in Nat
                           /\ \A w \in Worlds : Len(w) \in Nat /\ DOMAIN w = 1..Len(w)

\* A schema as the compiler makes it: a rewrite has children.
ASSUME SchemaAssumption ==
    /\ \A type \in DOMAIN Schema : \A name \in DOMAIN Schema[type] :
          Schema[type][name].kind = "action" => Schema[type][name].child \in Children
    /\ \A child \in Children :
          /\ child.type \in {"rewrite", "computedUserSet", "tupleToUserSet"}
          /\ child.type = "rewrite" => /\ child.children \in Seq(Children)
                                       /\ child.children # <<>>

ELLIPSIS == "..."

VARIABLES engine,     \* the configured database
          world,      \* the relationships of this behaviour
          request,    \* what is asked
          cancelled,  \* the client's context is done
          act,        \* the goroutines, by path: <<>> is Execute's own
          chan,       \* the result channels, by the path of their sender
          crashed     \* a goroutine has panicked: the process is gone

vars == <<engine, world, request, cancelled, act, chan, crashed>>

-----------------------------------------------------------------------------
(* Responses *)

Leaf(entity, relation, exclusion, subjects) ==
    [err |-> "", tree |-> [op |-> "leaf", target |-> <<entity, relation>>,
                           exclusion |-> exclusion, subjects |-> subjects, children |-> <<>>]]

Node(op, children) ==
    [err |-> "", tree |-> [op |-> op, target |-> <<>>, exclusion |-> FALSE,
                           subjects |-> <<>>, children |-> children]]

EmptyTree == [op |-> "none", target |-> <<>>, exclusion |-> FALSE,
              subjects |-> <<>>, children |-> <<>>]

expandFailResponse(err) == [err |-> err, tree |-> EmptyTree]

-----------------------------------------------------------------------------
(* Functions: what a goroutine runs *)

\* command.expand for an entity and a permission
ExpandOf(entity, permission, exclusion) ==
    [fn |-> "expand", entity |-> entity, permission |-> permission, exclusion |-> exclusion,
     computed |-> "", op |-> "", children |-> <<>>]

Direct(entity, relation, exclusion) ==
    [ExpandOf(entity, relation, exclusion) EXCEPT !.fn = "direct"]

\* expandRewrite with setChild, and expandLeaf
ChildFunction(entity, child) ==
    CASE child.type = "rewrite" ->
            [ExpandOf(entity, "", FALSE) EXCEPT !.fn = "group", !.op = child.op,
                                                !.children = child.children]
      [] child.type = "computedUserSet" -> ExpandOf(entity, child.relation, child.exclusion)
      [] child.type = "tupleToUserSet" ->
            [ExpandOf(entity, child.tupleSet, child.exclusion) EXCEPT !.fn = "ttu",
                                                                      !.computed = child.relation]

Defined(entity, name) == /\ TypeOf[entity] \in DOMAIN Schema
                         /\ name \in DOMAIN Schema[TypeOf[entity]]

\* What expand hands to expandRoot.
RootFunction(f) ==
    LET def == Schema[TypeOf[f.entity]][f.permission] IN
    IF def.kind = "action" THEN ChildFunction(f.entity, def.child)
    ELSE Direct(f.entity, f.permission, f.exclusion)

IsUserSet(s) == TypeOf[s.entity] # "user" /\ s.relation # ELLIPSIS

\* The tuples a function reads.
Found(w, f) == {i \in DOMAIN w : w[i].entity = f.entity /\ w[i].relation = f.permission}

\* The subjects of the tuples at the indices I, in their order.
Subjects(w, I) ==
    LET rank(i) == Cardinality({j \in I : j <= i})
    IN [k \in 1..Cardinality(I) |-> w[CHOOSE i \in I : rank(i) = k].subject]

\* The functions of expandDirect: one for each user set among the subjects.
UserSetFunctions(w, f) ==
    LET sets == Subjects(w, {i \in Found(w, f) : IsUserSet(w[i].subject)})
    IN [i \in DOMAIN sets |-> ExpandOf(sets[i].entity, sets[i].relation, f.exclusion)]

DirectSubjects(w, f) == Subjects(w, {i \in Found(w, f) : ~IsUserSet(w[i].subject)})

\* The functions of expandTupleToUserSet: only "..." subjects are followed.
ComputedFunctions(w, f) ==
    LET objects == Subjects(w, {i \in Found(w, f) : w[i].subject.relation = ELLIPSIS})
    IN [i \in DOMAIN objects |-> ExpandOf(objects[i].entity, f.computed, f.exclusion)]

GroupFunctions(f) == [i \in DOMAIN f.children |-> ChildFunction(f.entity, f.children[i])]

\* What expandDirect finds itself: the subjects that are no user sets.
OwnLeaf(w, f) == Leaf(f.entity, f.permission, f.exclusion, DirectSubjects(w, f))

\* What expandDirect answers once its user sets are expanded: it replaces the
\* children of their union by its own leaf.
OwnUnion(w, f) == Node("union", <<OwnLeaf(w, f).tree>>)

\* The functions with a tree are closed under what they call, and the tree is
\* put together from the trees of those.
ASSUME TreeAssumption ==
    \A w \in Worlds : \A f \in DOMAIN Tree[w] :
        LET Closed(functions) == \A i \in DOMAIN functions : functions[i] \in DOMAIN Tree[w]
            Trees(functions) == [i \in DOMAIN functions |-> Tree[w][functions[i]]]
        IN /\ f.fn = "expand" => /\ RootFunction(f) \in DOMAIN Tree[w]
                                 /\ Tree[w][f] = Tree[w][RootFunction(f)]
           /\ f.fn = "group" => /\ Closed(GroupFunctions(f))
                                /\ Tree[w][f] = Node(f.op, Trees(GroupFunctions(f))).tree
           /\ f.fn = "ttu" => /\ Closed(ComputedFunctions(w, f))
                              /\ Tree[w][f] = Node("union", Trees(ComputedFunctions(w, f))).tree
           /\ f.fn = "direct" => /\ UserSetFunctions(w, f) = <<>>
                                 /\ Tree[w][f] = OwnLeaf(w, f).tree

-----------------------------------------------------------------------------
(* Goroutines *)

\* at: "new", "root" (in expandRoot), "collect" (in expandOperation), "sent".
\* got: the trees taken so far.  functions: of the operation it is in.
Goroutine(f) == [f |-> f, at |-> "new", functions |-> <<>>, got |-> <<>>]

Prefix(p) == SubSeq(p, 1, Len(p) - 1)

\* Mutant: expandOperation does not cancel what it leaves behind.
NeverCancels(p) == FALSE

\* Mutant: the context is cancelled as soon as a function fails.
CancelsOnError(p) ==
    \/ act[p].at = "sent" /\ act[p].functions # <<>>
    \/ \E i \in DOMAIN act[p].functions :
          Append(p, i) \in DOMAIN chan /\ chan[Append(p, i)].err # ""

\* An expandOperation that has returned has cancelled the context of its
\* functions; contexts below are derived from it.
Cancels(p) == act[p].at = "sent" /\ act[p].functions # <<>>

ContextDone(p) == \/ cancelled
                  \/ \E i \in 0..(Len(p) - 1) : Cancels(SubSeq(p, 1, i))

Extend(fn, p, v) == [q \in DOMAIN fn \cup {p} |-> IF q = p THEN v ELSE fn[q]]

\* Mutant: a function goes on after it has sent.
SendGoesOn(p, response) == chan' = Extend(chan, p, response) /\ UNCHANGED act

Send(p, response) ==
    /\ chan' = Extend(chan, p, response)
    /\ act' = [act EXCEPT ![p].at = "sent"]

\* Starts a goroutine for each of the functions.
Spawn(p, functions, at) ==
    /\ Len(p) < MaxPath
    /\ act' = [q \in DOMAIN act \cup {Append(p, i) : i \in DOMAIN functions} |->
                 IF q = p THEN [act[p] EXCEPT !.at = at, !.functions = functions]
                 ELSE IF q \in DOMAIN act THEN act[q]
                 ELSE Goroutine(functions[q[Len(q)]])]
    /\ UNCHANGED chan

Running(p, fn) == p \in DOMAIN act /\ act[p].at = "new" /\ act[p].f.fn = fn /\ ~crashed

\* A read of PostgreSQL fails when its context is done, or by itself; the
\* memory repository never looks at the context.
ReadOk(p) == engine = "memory" \/ ~ContextDone(p)

ReadFails(p) == engine # "memory" /\ (ContextDone(p) \/ act[p].f.entity \in Flaky)

Env == <<engine, world, request, cancelled>>

Init == /\ engine \in Engines
        /\ world \in Worlds
        /\ request \in Requests
        /\ cancelled = FALSE
        /\ act = [p \in {<<>>} |-> Goroutine(ExpandOf(request.entity, request.permission, FALSE))]
        /\ chan = [p \in {} |-> {}]
        /\ crashed = FALSE

\* The client goes away or its deadline passes.
Cancel == /\ ~cancelled
          /\ cancelled' = TRUE
          /\ UNCHANGED <<engine, world, request, act, chan, crashed>>

\* Execute's reads of the head snapshot and version, or expand's read of the
\* schema definition, fail; or the type or the permission is not defined.
ExpandRefused(p) ==
    /\ Running(p, "expand")
    /\ \/ ReadFails(p) /\ Send(p, expandFailResponse("ERROR_CODE_EXECUTION"))
       \/ /\ ~Defined(act[p].f.entity, act[p].f.permission)
          /\ Send(p, expandFailResponse(IF TypeOf[act[p].f.entity] \in DOMAIN Schema
                                        THEN "ERROR_CODE_RELATION_DEFINITION_NOT_FOUND"
                                        ELSE "ERROR_CODE_SCHEMA_NOT_FOUND"))
    /\ UNCHANGED <<Env, crashed>>

\* expandRoot: the function of the definition, on a goroutine.  A cached
\* definition is returned whatever the context.
ExpandRoot(p) ==
    /\ Running(p, "expand")
    /\ Defined(act[p].f.entity, act[p].f.permission)
    /\ Len(p) < MaxPath
    /\ act' = Extend([act EXCEPT ![p].at = "root"], Append(p, 1), Goroutine(RootFunction(act[p].f)))
    /\ UNCHANGED <<Env, chan, crashed>>

Group(p) ==
    /\ Running(p, "group")
    /\ Spawn(p, GroupFunctions(act[p].f), "collect")
    /\ UNCHANGED <<Env, crashed>>

\* expandDirect whose read fails returns after sending the error.
DirectFails(p) ==
    /\ Running(p, "direct") /\ ReadFails(p)
    /\ Send(p, expandFailResponse("ERROR_CODE_EXECUTION"))
    /\ UNCHANGED <<Env, crashed>>

ExpandDirect(p) ==
    LET functions == UserSetFunctions(world, act[p].f) IN
    /\ Running(p, "direct") /\ ReadOk(p)
    /\ IF functions = <<>> THEN Send(p, OwnLeaf(world, act[p].f))
       ELSE Spawn(p, functions, "collect")
    /\ UNCHANGED <<Env, crashed>>

\* expandTupleToUserSet whose read fails sends the error and goes on.
TupleToUserSetFails(p) ==
    /\ Running(p, "ttu") /\ ReadFails(p)
    /\ Send(p, expandFailResponse("ERROR_CODE_EXECUTION"))
    /\ UNCHANGED <<Env, crashed>>

\* It has: an error sent by an operation comes from one of its functions.
GoesOn(p) == /\ p \in DOMAIN act /\ act[p].at = "sent" /\ act[p].f.fn = "ttu"
             /\ act[p].functions = <<>> /\ chan[p].err # ""

\* It calls HasNext of a nil iterator, on a goroutine that no recovery
\* interceptor is above.
Panic(p) == /\ GoesOn(p) /\ ~crashed
            /\ crashed' = TRUE
            /\ UNCHANGED <<Env, act, chan>>

ExpandTupleToUserSet(p) ==
    LET functions == ComputedFunctions(world, act[p].f) IN
    /\ Running(p, "ttu") /\ ReadOk(p)
    /\ IF functions = <<>> THEN Send(p, Node("union", <<>>))
       ELSE Spawn(p, functions, "collect")
    /\ UNCHANGED <<Env, crashed>>

Op(f) == IF f.fn = "group" THEN f.op ELSE "union"

\* What expandOperation's caller sends once all results are there.
Combined(f, trees) == IF f.fn = "direct" THEN OwnUnion(world, f) ELSE Node(Op(f), trees)

Waiting(p, at) == p \in DOMAIN act /\ act[p].at = at /\ ~crashed

\* Mutant: results are taken from the last function on.
NextResultFromLast(p) == Append(p, Len(act[p].functions) - Len(act[p].got))

\* The result expandOperation looks at: that of its functions in their order.
NextResult(p) == Append(p, Len(act[p].got) + 1)

\* Mutant: the select does not return on an error.
CollectSkipsErrors(p) ==
    /\ Waiting(p, "collect")
    /\ NextResult(p) \in DOMAIN chan
    /\ chan[NextResult(p)].err = ""
    /\ LET got == Append(act[p].got, chan[NextResult(p)].tree)
       IN IF Len(got) = Len(act[p].functions) THEN Send(p, Combined(act[p].f, got))
          ELSE act' = [act EXCEPT ![p].got = got] /\ UNCHANGED chan
    /\ UNCHANGED <<Env, crashed>>

Collect(p) ==
    /\ Waiting(p, "collect")
    /\ NextResult(p) \in DOMAIN chan
    /\ LET response == chan[NextResult(p)]
           got == Append(act[p].got, response.tree)
       IN IF response.err # "" THEN Send(p, expandFailResponse(response.err))
          ELSE IF Len(got) = Len(act[p].functions) THEN Send(p, Combined(act[p].f, got))
          ELSE act' = [act EXCEPT ![p].got = got] /\ UNCHANGED chan
    /\ UNCHANGED <<Env, crashed>>

RootResult(p) ==
    /\ Waiting(p, "root")
    /\ Append(p, 1) \in DOMAIN chan
    /\ Send(p, chan[Append(p, 1)])
    /\ UNCHANGED <<Env, crashed>>

\* The other case of the select in expandRoot and expandOperation.
SeeDone(p) ==
    /\ Waiting(p, "root") \/ Waiting(p, "collect")
    /\ ContextDone(p)
    /\ Send(p, expandFailResponse("ERROR_CODE_CANCELLED"))
    /\ UNCHANGED <<Env, crashed>>

GoroutineStep(p) ==
    \/ ExpandRefused(p)
    \/ ExpandRoot(p)
    \/ Group(p)
    \/ DirectFails(p)
    \/ ExpandDirect(p)
    \/ TupleToUserSetFails(p)
    \/ Panic(p)
    \/ ExpandTupleToUserSet(p)
    \/ Collect(p)
    \/ RootResult(p)
    \/ SeeDone(p)

Next == \/ Cancel
        \/ \E p \in DOMAIN act : GoroutineStep(p)

\* The runtime runs every goroutine that can go on.
Spec == Init /\ [][Next]_vars /\ WF_vars(\E p \in DOMAIN act : GoroutineStep(p))

-----------------------------------------------------------------------------
Replied == <<>> \in DOMAIN chan
Reply == chan[<<>>]

TypeOK == /\ cancelled \in BOOLEAN /\ crashed \in BOOLEAN
          /\ DOMAIN chan \subseteq DOMAIN act
          /\ \A p \in DOMAIN act :
                /\ p = <<>> \/ Prefix(p) \in DOMAIN act
                /\ act[p].at \in {"new", "root", "collect", "sent"}
                /\ act[p].at = "sent" <=> p \in DOMAIN chan

\* A sibling's failure cancels goroutines, but no reply says CANCELLED unless
\* the client's own context ended.
CancelHonest == Replied /\ Reply.err = "ERROR_CODE_CANCELLED" => cancelled

Asked == ExpandOf(request.entity, request.permission, FALSE)

\* A reply without an error, to a request that meets no user sets, is the tree
\* of the request, its children in the order of the schema and of the tuples,
\* however the goroutines, their failures and their cancellations interleave.
\* (What becomes of user sets is AllSubjects, in ExpandTree.)
InOrder == /\ Replied /\ Reply.err = "" /\ Asked \in DOMAIN Tree[world]
           => Reply.tree = Tree[world][Asked]
=============================================================================
