------------------------------- MODULE Check -------------------------------
(***************************************************************************)
(* CheckCommand (internal/commands/check.go): the concurrent evaluation of *)
(* a permission check.  A check opens a tree of goroutines.  Every         *)
(* goroutine runs one CheckFunction; it either answers at once or opens a  *)
(* group, that is a call of checkUnion or checkIntersection, whose member  *)
(* functions are started by a spawner goroutine under a semaphore, report  *)
(* on a buffered channel and are cancelled as soon as the group has its    *)
(* answer.  Answers about relations go through a cache that all the        *)
(* requests share.                                                         *)
(*                                                                         *)
(* A goroutine is named by its path: the request, then the functions on    *)
(* the way down to it.  frames maps the paths of the live goroutines to    *)
(* their local state.                                                      *)
(***************************************************************************)
EXTENDS Naturals, FiniteSets, Sequences

CONSTANTS
    Request,    \* identities of the calls of the Check API
    World,      \* what nested requests copy: tenant, schema version, snap token
    Entity,     \* type and id
    User,       \* the entities of type "user"
    Name,       \* names of relations and actions
    Tuples,     \* Tuples[w]: the relationship tuples visible in world w
    Kind,       \* Kind[e][n]: what the schema defines n to be for e's type
    Node,       \* the nodes of the rewrite trees of the schema's actions
    NodeDef,    \* what a node is
    Root,       \* Root[e][n]: root node of the action n of e's type
    Requester,  \* the subjects clients ask about
    Asks,       \* what the clients may ask in one behaviour, for each call of the API
    Limit,      \* concurrencyLimit
    Flaky,      \* entities whose schema or tuples may fail to be read
    Volatile,   \* entities whose cache entries may be dropped
    Impatient,  \* requests whose client may cancel
    Granted,    \* the keys whose subject has the permission ...
    Satisfied   \* ... and for each node the keys whose request satisfies it

ELLIPSIS == "..."

\* The least depth a PermissionCheckRequest may have.
MinDepth == 3

\* Clients may ask about any subject, but Write refuses users with a relation
\* and WriteRelationships replaces the empty relation of others by "...".
AnySubject == [entity : Entity, relation : Name \cup {"", ELLIPSIS}]
Subject == {s \in AnySubject : s.relation = "" <=> s.entity \in User}
Key == [world : World, subject : Requester, entity : Entity, permission : Name]
Tuple == [entity : Entity, relation : Name, subject : Subject]

\* request.Metadata.Exclusion is the sign "neg".
Sign == {"pos", "neg"}
NodeKind == {"union", "intersection", "tupleToUserSet", "computedUserSet"}

(***************************************************************************)
(* A CheckFunction: "execute" is a closure over Execute and a request,     *)
(* "direct" one made by checkDirect, "node" one made by checkRewrite or    *)
(* checkTupleToUserSet for the node and the request they close over.       *)
(***************************************************************************)
Function == [fn : {"execute", "direct", "node"}, key : Key, sign : Sign,
             depth : Nat, node : Node]

Can == {"allowed", "denied"}
Err == {"none", "depth", "schema", "repository", "cancelled"}
Response == [can : Can, err : Err]

Decision == [from : Function, resp : Response]
Frame == [pc : {"eval", "collect", "clean"}, op : {"union", "intersection"},
          kids : SUBSET Function, todo : SUBSET Function,
          got : SUBSET Function, chan : Seq(Decision), resp : Response]

Path == {p \in Seq(Request \cup Function) : Len(p) > 1}

ASSUME ConstantsAssumption ==
    /\ User \subseteq Entity
    /\ Requester \subseteq AnySubject
    /\ Tuples \in [World -> SUBSET Tuple]
    /\ Kind \in [Entity -> [Name -> {"relation", "action", "undefined"}]]
    /\ NodeDef \in [Node -> [kind : NodeKind, children : SUBSET Node,
                             tupleSet : Name, relation : Name, sign : Sign]]
    /\ Root \in [Entity -> [Name -> Node]]
    /\ Asks \subseteq [Request -> {t \in Function : t.fn = "execute"}]
    /\ Limit \in Nat \ {0}

-----------------------------------------------------------------------------
(***************************************************************************)
(* The requests a function makes.                                          *)
(***************************************************************************)

\* QueryRelationships with a filter on one entity and one relation.
QueryRelationships(w, e, r) ==
    {t.subject : t \in {u \in Tuples[w] : u.entity = e /\ u.relation = r}}

\* A nested request keeps tenant, versions and subject of the one it is made for.
Nested(k, e, n) == [k EXCEPT !.entity = e, !.permission = n]

KindOf(k) == Kind[k.entity][k.permission]

Subjects(k) == QueryRelationships(k.world, k.entity, k.permission)

\* The user sets checkDirect follows: neither users nor "..." subjects.
UserSets(k) ==
    {Nested(k, s.entity, s.relation) :
        s \in {u \in Subjects(k) : u.entity \notin User /\ u.relation # ELLIPSIS}}

\* The keys checkTupleToUserSet computes for node n.
Computed(n, k) ==
    {Nested(k, s.entity, NodeDef[n].relation) :
        s \in QueryRelationships(k.world, k.entity, NodeDef[n].tupleSet)}

Execute(k, sign, d, n) ==
    [fn |-> "execute", key |-> k, sign |-> sign, depth |-> d, node |-> n]

\* checkRewrite or checkLeaf: a computed user set is a nested Execute itself.
NodeFunction(n, k, d) ==
    IF NodeDef[n].kind = "computedUserSet"
    THEN Execute(Nested(k, k.entity, NodeDef[n].relation), NodeDef[n].sign, d - 1, n)
    ELSE [fn |-> "node", key |-> k, sign |-> "pos", depth |-> d, node |-> n]

\* What check wraps in a union of one function.
CheckFunctionOf(t) ==
    IF KindOf(t.key) = "action"
    THEN NodeFunction(Root[t.key.entity][t.key.permission], t.key, t.depth)
    ELSE [t EXCEPT !.fn = "direct"]

\* The nested user sets of a relation inherit the exclusion of the request.
UserSetFunctions(t) ==
    {Execute(k, t.sign, t.depth - 1, t.node) : k \in UserSets(t.key)}

\* The members of the group a rewrite or a tuple to user set opens.
NodeOp(t) ==
    IF NodeDef[t.node].kind = "intersection" THEN "intersection" ELSE "union"

NodeFunctions(t) ==
    IF NodeDef[t.node].kind = "tupleToUserSet"
    THEN {Execute(k, NodeDef[t.node].sign, t.depth - 1, t.node) : k \in Computed(t.node, t.key)}
    ELSE {NodeFunction(c, t.key, t.depth) : c \in NodeDef[t.node].children}

-----------------------------------------------------------------------------
(***************************************************************************)
(* The meaning of a schema: Granted and Satisfied solve the equations that *)
(* the rewrite rules and the tuples state.  Cyclic user sets may leave     *)
(* several solutions; nothing below depends on which one is taken.         *)
(***************************************************************************)
Signed(k, sign) == (k \in Granted) <=> (sign = "pos")

RelationEquation ==
    \A k \in Key : KindOf(k) = "relation" =>
        (k \in Granted <=> \/ k.subject \in Subjects(k)
                           \/ \E u \in UserSets(k) : u \in Granted)

ActionEquation ==
    \A k \in Key : KindOf(k) = "action" =>
        (k \in Granted <=> k \in Satisfied[Root[k.entity][k.permission]])

NodeHolds(n, k) ==
    LET def == NodeDef[n] IN
    CASE def.kind = "union" -> \E c \in def.children : k \in Satisfied[c]
      [] def.kind = "intersection" ->
            def.children # {} /\ \A c \in def.children : k \in Satisfied[c]
      [] def.kind = "tupleToUserSet" -> \E u \in Computed(n, k) : Signed(u, def.sign)
      [] def.kind = "computedUserSet" -> Signed(Nested(k, k.entity, def.relation), def.sign)

NodeEquation == \A n \in Node, k \in Key : k \in Satisfied[n] <=> NodeHolds(n, k)

ASSUME MeaningAssumption ==
    /\ Granted \subseteq Key
    /\ Satisfied \in [Node -> SUBSET Key]
    /\ RelationEquation
    /\ ActionEquation
    /\ NodeEquation

-----------------------------------------------------------------------------
VARIABLES
    asked,      \* the request each client sends
    status,     \* "idle", "running" or "answered"
    answer,     \* the response of an answered request
    cancelled,  \* requests whose client has cancelled the context
    frames,     \* the live goroutines
    cache       \* commandKeyManager: answers about relations, by key

vars == <<asked, status, answer, cancelled, frames, cache>>

Term(p) == p[Len(p)]
Parent(p) == SubSeq(p, 1, Len(p) - 1)

Live == DOMAIN frames

Idle(op, kids, pc) ==
    [pc |-> pc, op |-> op, kids |-> kids, todo |-> kids, got |-> {}, chan |-> <<>>,
     resp |-> [can |-> "denied", err |-> "none"]]

NewFrame == Idle("union", {}, "eval")

Flip(can) == IF can = "allowed" THEN "denied" ELSE "allowed"
Verdict(can) == [can |-> can, err |-> "none"]
Failure(err) == [can |-> "denied", err |-> err]

\* Mutant: all the groups of a request share one cancel().
DoneTogether(p) ==
    \/ p[1] \in cancelled
    \/ \E q \in Live : q[1] = p[1] /\ q # p /\ frames[q].pc = "clean"

\* The context a goroutine runs under is done: its client cancelled, or a
\* group on the path above it has its answer and has called cancel().
Done(p) ==
    \/ p[1] \in cancelled
    \/ \E n \in 2 .. Len(p) - 1 :
          SubSeq(p, 1, n) \in Live /\ frames[SubSeq(p, 1, n)].pc = "clean"

Children(p) == {q \in Live : Len(q) = Len(p) + 1 /\ Parent(q) = p}

Init ==
    /\ asked \in Asks
    /\ status = [r \in Request |-> "idle"]
    /\ answer = [r \in Request |-> Failure("none")]
    /\ cancelled = {}
    /\ frames = [p \in {} |-> NewFrame]
    /\ cache = [k \in {} |-> "denied"]

-----------------------------------------------------------------------------
(***************************************************************************)
(* The end of a goroutine: it hands its answer to the client, or sends it  *)
(* on the buffered channel of its group and releases its semaphore slot.   *)
(* A group that has its answer closes the channel without reading it.      *)
(***************************************************************************)
Reply(p, resp) ==
    IF Len(p) = 2
    THEN /\ answer' = [answer EXCEPT ![p[1]] = resp]
         /\ status' = [status EXCEPT ![p[1]] = "answered"]
         /\ frames' = [q \in Live \ {p} |-> frames[q]]
    ELSE /\ frames' = [q \in Live \ {p} |->
                        IF q = Parent(p) /\ frames[q].pc = "collect"
                        THEN [frames[q] EXCEPT
                                !.chan = Append(@, [from |-> Term(p), resp |-> resp])]
                        ELSE frames[q]]
         /\ UNCHANGED <<answer, status>>

\* Mutant: the key leaves out tenant, schema version and snap token.
CacheKeyEverywhere(k) == [k EXCEPT !.world = CHOOSE w \in World : TRUE]

\* The string an answer is cached under: SubjectToString omits a user's relation.
CacheKey(k) ==
    IF k.subject.entity \in User
    THEN [k EXCEPT !.subject = [entity |-> k.subject.entity, relation |-> ""]] ELSE k

CacheKeys == {CacheKey(k) : k \in Key}

SetCheckKey(k, can) ==
    [q \in DOMAIN cache \cup {CacheKey(k)} |-> IF q = CacheKey(k) THEN can ELSE cache[q]]

Open(p, op, kids) == frames' = [frames EXCEPT ![p] = Idle(op, kids, "collect")]

Evaluating(p, fn) == frames[p].pc = "eval" /\ Term(p).fn = fn

Frozen == UNCHANGED <<asked, cancelled>>

\* A client calls the Check API; Validate lets no depth below MinDepth pass.
Start(r) ==
    /\ status[r] = "idle" /\ asked[r].depth >= MinDepth
    /\ status' = [status EXCEPT ![r] = "running"]
    /\ frames' = [q \in Live \cup {<<r, asked[r]>>} |->
                    IF q = <<r, asked[r]>> THEN NewFrame ELSE frames[q]]
    /\ UNCHANGED <<asked, answer, cancelled, cache>>

\* A client gives up: the context of the whole call is done.
Cancel(r) ==
    /\ r \in Impatient \ cancelled /\ status[r] = "running"
    /\ cancelled' = cancelled \cup {r}
    /\ UNCHANGED <<asked, status, answer, frames, cache>>

\* The cache (ristretto) drops an entry, or dropped the Set in the first place.
Evict(k) ==
    /\ k.entity \in Volatile
    /\ cache' = [q \in DOMAIN cache \ {k} |-> cache[q]]
    /\ UNCHANGED <<asked, status, answer, cancelled, frames>>

\* Mutant: off by one.
DepthExceededEarly(p) ==
    /\ Evaluating(p, "execute") /\ Term(p).depth <= 1
    /\ Reply(p, Failure("depth"))
    /\ Frozen /\ UNCHANGED cache

\* Execute: checkDepth, which comes before any read.
DepthExceeded(p) ==
    /\ Evaluating(p, "execute") /\ Term(p).depth = 0
    /\ Reply(p, Failure("depth"))
    /\ Frozen /\ UNCHANGED cache

\* Execute: the entity type or the permission is not in the schema.
UndefinedPermission(p) ==
    /\ Evaluating(p, "execute") /\ Term(p).depth # 0
    /\ KindOf(Term(p).key) = "undefined"
    /\ Reply(p, Failure("schema"))
    /\ Frozen /\ UNCHANGED cache

\* HeadSnapshot, HeadVersion, ReadSchemaDefinition or QueryRelationships fails.
Reads(t) ==
    \/ t.fn = "execute" /\ t.depth # 0
    \/ t.fn = "direct"
    \/ t.fn = "node" /\ NodeDef[t.node].kind = "tupleToUserSet"

RepositoryFails(p) ==
    /\ frames[p].pc = "eval" /\ Reads(Term(p)) /\ Term(p).key.entity \in Flaky
    /\ Reply(p, Failure("repository"))
    /\ Frozen /\ UNCHANGED cache

\* Execute: GetCheckKey finds the answer of a relation.
CacheHit(p) ==
    /\ Evaluating(p, "execute") /\ Term(p).depth # 0
    /\ KindOf(Term(p).key) = "relation" /\ CacheKey(Term(p).key) \in DOMAIN cache
    /\ LET can == cache[CacheKey(Term(p).key)] IN
       Reply(p, Verdict(IF Term(p).sign = "neg" THEN Flip(can) ELSE can))
    /\ Frozen /\ UNCHANGED cache

\* Mutant: checkDepth is not consulted.
CacheMissAnyDepth(p) ==
    /\ Evaluating(p, "execute")
    /\ \/ KindOf(Term(p).key) = "action"
       \/ KindOf(Term(p).key) = "relation" /\ CacheKey(Term(p).key) \notin DOMAIN cache
    /\ Open(p, "union", {CheckFunctionOf(Term(p))})
    /\ Frozen /\ UNCHANGED <<status, answer, cache>>

\* Execute: check, a union of one function.
CacheMiss(p) ==
    /\ Evaluating(p, "execute") /\ Term(p).depth # 0
    /\ \/ KindOf(Term(p).key) = "action"
       \/ KindOf(Term(p).key) = "relation" /\ CacheKey(Term(p).key) \notin DOMAIN cache
    /\ Open(p, "union", {CheckFunctionOf(Term(p))})
    /\ Frozen /\ UNCHANGED <<status, answer, cache>>

\* checkDirect: no user set to follow, or the subject itself is among the tuples.
DirectAnswer(p) ==
    LET k == Term(p).key
        can == IF k.subject \in Subjects(k) THEN "allowed" ELSE "denied" IN
    /\ Evaluating(p, "direct")
    /\ can = "allowed" \/ UserSets(k) = {}
    /\ cache' = SetCheckKey(k, can)
    /\ Reply(p, Verdict(can))
    /\ Frozen

\* checkDirect: a union over the user sets.
DirectUserSets(p) ==
    /\ Evaluating(p, "direct")
    /\ Term(p).key.subject \notin Subjects(Term(p).key)
    /\ UserSets(Term(p).key) # {}
    /\ Open(p, "union", UserSetFunctions(Term(p)))
    /\ Frozen /\ UNCHANGED <<status, answer, cache>>

\* setChild or checkTupleToUserSet: a group, which is denied when it is empty.
NodeGroup(p) ==
    /\ Evaluating(p, "node")
    /\ IF NodeFunctions(Term(p)) = {}
       THEN Reply(p, Verdict("denied"))
       ELSE /\ Open(p, NodeOp(Term(p)), NodeFunctions(Term(p)))
            /\ UNCHANGED <<status, answer>>
    /\ Frozen /\ UNCHANGED cache

-----------------------------------------------------------------------------
(***************************************************************************)
(* run: the spawner of a group.  Its select may still take a free slot     *)
(* after the group was cancelled.                                          *)
(***************************************************************************)
Spawn(p, t) ==
    /\ t \in frames[p].todo
    /\ Cardinality(Children(p)) < Limit
    /\ frames' = [q \in Live \cup {Append(p, t)} |->
                    IF q = Append(p, t) THEN NewFrame
                    ELSE IF q = p THEN [frames[p] EXCEPT !.todo = @ \ {t}]
                    ELSE frames[q]]
    /\ Frozen /\ UNCHANGED <<status, answer, cache>>

SpawnerStops(p) ==
    /\ frames[p].todo # {}
    /\ frames[p].pc = "clean" \/ Done(p)
    /\ frames' = [frames EXCEPT ![p].todo = {}]
    /\ Frozen /\ UNCHANGED <<status, answer, cache>>

\* Mutant: one allowed member settles an intersection.
DecisiveAllowed(op) == "allowed"

\* The answer that ends a group before every member has answered.
Decisive(op) == IF op = "union" THEN "allowed" ELSE "denied"

Clean(p, resp) == [frames[p] EXCEPT !.pc = "clean", !.resp = resp, !.chan = <<>>]

\* checkUnion, checkIntersection: a decision arrives on decisionChan.
Receive(p) ==
    LET f == frames[p]
        d == Head(f.chan)
        got == f.got \cup {d.from} IN
    /\ f.pc = "collect" /\ f.chan # <<>>
    /\ frames' = [frames EXCEPT ![p] =
          IF d.resp.err # "none" THEN Clean(p, Failure(d.resp.err))
          ELSE IF d.resp.can = Decisive(f.op) \/ got = f.kids
               THEN Clean(p, Verdict(d.resp.can))
               ELSE [f EXCEPT !.got = got, !.chan = Tail(@)]]
    /\ Frozen /\ UNCHANGED <<status, answer, cache>>

\* Mutant: cancellation is not noticed.
SeeDoneNever(p) == FALSE /\ UNCHANGED vars

\* checkUnion, checkIntersection: ctx.Done() wins the select.
SeeDone(p) ==
    /\ frames[p].pc = "collect" /\ Done(p)
    /\ frames' = [frames EXCEPT ![p] = Clean(p, Failure("cancelled"))]
    /\ Frozen /\ UNCHANGED <<status, answer, cache>>

\* Mutant: clean() does not wait for the workers.
WaitedForSpawner(p) == frames[p].todo = {}

\* The deferred clean() has waited for the spawner and the workers; the
\* function returns, and Execute caches and inverts what check answered.
Waited(p) == frames[p].todo = {} /\ Children(p) = {}

Return(p) ==
    LET t == Term(p)
        resp == frames[p].resp
        relation == t.fn = "execute" /\ KindOf(t.key) = "relation" /\ resp.err = "none" IN
    /\ frames[p].pc = "clean" /\ Waited(p)
    /\ cache' = IF relation THEN SetCheckKey(t.key, resp.can) ELSE cache
    /\ Reply(p, IF relation /\ t.sign = "neg" THEN Verdict(Flip(resp.can)) ELSE resp)
    /\ Frozen

Step(p) ==
    \/ DepthExceeded(p) \/ UndefinedPermission(p) \/ RepositoryFails(p)
    \/ CacheHit(p) \/ CacheMiss(p)
    \/ DirectAnswer(p) \/ DirectUserSets(p) \/ NodeGroup(p)
    \/ \E t \in frames[p].todo : Spawn(p, t)
    \/ SpawnerStops(p) \/ Receive(p) \/ SeeDone(p) \/ Return(p)

Run == \E p \in Live : Step(p)

Next ==
    \/ \E r \in Request : Start(r) \/ Cancel(r)
    \/ \E k \in DOMAIN cache : Evict(k)
    \/ Run

Spec == Init /\ [][Next]_vars

\* The Go scheduler runs some runnable goroutine; clients and the cache are free.
FairSpec == Spec /\ WF_vars(Run)
-----------------------------------------------------------------------------
(***************************************************************************)
(* Correctness.                                                            *)
(***************************************************************************)

\* The variables keep their types (Execute, run and the key manager).
TypeOK ==
    /\ asked \in Asks
    /\ status \in [Request -> {"idle", "running", "answered"}]
    /\ answer \in [Request -> Response]
    /\ cancelled \subseteq Request
    /\ Live \subseteq Path
    /\ \A p \in Live : frames[p] \in Frame /\ p[1] \in Request /\ Term(p) \in Function
    /\ DOMAIN cache \subseteq CacheKeys
    /\ \A k \in DOMAIN cache : cache[k] \in Can

\* Whatever SetCheckKey has stored for a relation is the meaning of that
\* relation: no early return, cancellation, failure or exclusion of any
\* request leaves an entry behind that misleads a later one.
CacheSound ==
    \A k \in Key : CacheKey(k) \in DOMAIN cache =>
        (cache[CacheKey(k)] = "allowed" <=> k \in Granted)

\* A check that returns without an error returns what schema and tuples say,
\* however the goroutines, the cancellations and the cache interleave.
AnswersSound ==
    \A r \in Request :
        status[r] = "answered" /\ answer[r].err = "none" =>
            (answer[r].can = "allowed" <=> Signed(asked[r].key, asked[r].sign))

\* No goroutine outlives the group that started it (nothing is ever sent on a
\* closed decisionChan) or the request it works for: clean() waits for all.
NoOrphans ==
    \A p \in Live :
        /\ status[p[1]] = "running"
        /\ Len(p) > 2 => Parent(p) \in Live /\ frames[Parent(p)].pc # "eval"

\* The cancellation of a finished group stays below it: a client that did not
\* cancel never receives ERROR_CODE_CANCELLED.
CancelHonest ==
    \A r \in Request :
        status[r] = "answered" /\ answer[r].err = "cancelled" => r \in cancelled

(***************************************************************************)
(* How deep a check may have to go.  Below[n] are the nodes of the rewrite *)
(* tree under n, the least set with n that holds the children of its       *)
(* members; Level(k)[d] are the keys that a check of k may request d       *)
(* nested requests below k.                                                *)
(***************************************************************************)
Closed(S) == \A n \in S : NodeDef[n].children \subseteq S

Below == [n \in Node |-> {m \in Node : \A S \in SUBSET Node : n \in S /\ Closed(S) => m \in S}]

LeafKeys(n, k) ==
    CASE NodeDef[n].kind = "computedUserSet" -> {Nested(k, k.entity, NodeDef[n].relation)}
      [] NodeDef[n].kind = "tupleToUserSet" -> Computed(n, k)
      [] OTHER -> {}

NestedKeys(k) ==
    CASE KindOf(k) = "relation" -> UserSets(k)
      [] KindOf(k) = "action" ->
            UNION {LeafKeys(n, k) : n \in Below[Root[k.entity][k.permission]]}
      [] OTHER -> {}

Level(k) ==
    LET level[d \in Nat] ==
            IF d = 0 THEN {k} ELSE UNION {NestedKeys(q) : q \in level[d - 1]}
    IN level

NeedsMore(r) == Level(asked[r].key)[asked[r].depth] # {}

\* ERROR_CODE_DEPTH_NOT_ENOUGH is only for checks that may need more nested
\* requests than their depth: one whose recursion ends in time is never refused.
DepthHonest ==
    \A r \in Request :
        status[r] = "answered" /\ answer[r].err = "depth" =>
            NeedsMore(r)

(***************************************************************************)
(* The inductive invariant behind NoOrphans, CancelHonest and DepthHonest, *)
(* for whatever schema.                                                    *)
(***************************************************************************)

\* The live goroutines form trees whose inner nodes are groups.
Linked ==
    \A p \in Live :
        /\ \A n \in 2 .. Len(p) : SubSeq(p, 1, n) \in Live
        /\ Len(p) > 2 => /\ frames[Parent(p)].pc # "eval"
                         /\ Term(p) \in frames[Parent(p)].kids \ frames[Parent(p)].todo

Rooted ==
    \A p \in Live :
        /\ status[p[1]] = "running"
        /\ Len(p) = 2 => Term(p) = asked[p[1]]

\* The functions that come about for a request: the depth that is used up is
\* the number of nested requests above, and only an Execute that passed
\* checkDepth makes functions of the other kinds.
Made(r, t) ==
    /\ t \in Function
    /\ t.fn # "execute" => t.depth # 0
    /\ t.fn = "direct" => KindOf(t.key) = "relation"
    /\ t.fn = "node" => /\ KindOf(t.key) = "action"
                        /\ t.node \in Below[Root[t.key.entity][t.key.permission]]
    /\ t.depth <= asked[r].depth
    /\ t.key \in Level(asked[r].key)[asked[r].depth - t.depth]

\* The members of a group.
Shaped(r, f) ==
    /\ \A c \in f.kids : Made(r, c)
    /\ f.todo \subseteq f.kids
    /\ f.pc = "eval" => f.todo = {}

Grown == \A p \in Live : Made(p[1], Term(p)) /\ Shaped(p[1], frames[p])

\* An error on its way up has a cause that outlasts the goroutine it came from.
Caused(p, resp) ==
    /\ resp.err = "cancelled" => Done(p)
    /\ resp.err = "depth" => NeedsMore(p[1])

Explained(p, f) ==
    /\ f.pc = "clean" => Caused(p, f.resp)
    /\ \A i \in 1 .. Len(f.chan) : Caused(p, f.chan[i].resp)

ErrorsExplained == \A p \in Live : Explained(p, frames[p])

Tree ==
    /\ TypeOK /\ Linked /\ Rooted /\ Grown /\ ErrorsExplained
    /\ CancelHonest /\ DepthHonest

(***************************************************************************)
(* An excluded leaf is evaluated as written only when what it names is a   *)
(* relation without user sets: checkDirect hands the exclusion on to the   *)
(* user sets, and Execute does not apply it to actions.  The theorems have *)
(* this condition and PlainUsers as hypotheses.                            *)
(***************************************************************************)
Shallow(k) == KindOf(k) # "action" /\ UserSets(k) = {}

ExclusionIsDirect ==
    /\ \A n \in Node, k \in Key :
            NodeDef[n].sign = "neg" => \A u \in LeafKeys(n, k) : Shallow(u)
    /\ \A asks \in Asks, r \in Request :
            asks[r].sign = "neg" => Shallow(asks[r].key)

\* Nobody asks about a user with a relation.  Check does not refuse such a
\* request, whose answers share a cache key with those about the user.
PlainUsers == \A s \in Requester : s.entity \in User => s.relation = ""

(***************************************************************************)
(* The inductive invariant behind CacheSound and AnswersSound.             *)
(* Truth(t) is what a function should answer, RawTruth(t) what it should   *)
(* answer before Execute inverts it.                                       *)
(***************************************************************************)
RawTruth(t) ==
    IF t.fn = "node" THEN t.key \in Satisfied[t.node] ELSE t.key \in Granted

Truth(t) == IF t.fn = "execute" THEN Signed(t.key, t.sign) ELSE RawTruth(t)

\* The functions that come about: excluded only when shallow, the computed
\* user sets turned into Execute, and made by an Execute that passed checkDepth.
GoodFunction(t) ==
    /\ t \in Function
    /\ t.sign = "neg" => Shallow(t.key)
    /\ t.fn = "direct" => KindOf(t.key) = "relation"
    /\ t.fn = "node" => NodeDef[t.node].kind # "computedUserSet"
    /\ t.fn # "execute" => t.depth # 0

Honest(resp, truth) == resp.err = "none" => (resp.can = "allowed" <=> truth)

\* What the members of a group answer settles what its function answers.
GroupTruth(op, kids) ==
    IF op = "union" THEN \E c \in kids : Truth(c) ELSE \A c \in kids : Truth(c)

GroupOK(t, f) ==
    /\ t.fn = "execute" => KindOf(t.key) \in {"relation", "action"}
    /\ \A c \in f.kids : GoodFunction(c)
    /\ f.pc = "collect" =>
        /\ GroupTruth(f.op, f.kids) <=> RawTruth(t)
        /\ \A c \in f.got : Truth(c) <=> f.op = "intersection"
        /\ \A i \in 1 .. Len(f.chan) :
                f.chan[i].from \in f.kids /\ Honest(f.chan[i].resp, Truth(f.chan[i].from))
    /\ f.pc = "clean" => Honest(f.resp, RawTruth(t))

FrameOK(t, f) == GoodFunction(t) /\ (f.pc # "eval" => GroupOK(t, f))

FramesOK == \A p \in Live : FrameOK(Term(p), frames[p])

IndInv == Tree /\ FramesOK /\ CacheSound /\ AnswersSound

\* Every check returns, cyclic user sets included.
Responds == \A r \in Request : status[r] = "running" ~> status[r] = "answered"
=============================================================================
