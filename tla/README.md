# Permify: a verification project

Permify is an authorization service. Clients store a schema (entity types with
relations and actions) and relationship tuples (`repository:1#owner@user:3`), and
ask whether a subject has a permission on an entity. This directory holds TLA+
models of its core, the TLC configurations that check them on small instances,
and TLAPS proofs of the results that matter most. `PROJECT.json` is the index:
components, runs, mutants, the map from definitions to source lines, findings,
hazards and theorems.

## 1. Inventory

| part | state | operations | what makes it correct | here |
|---|---|---|---|---|
| `CheckCommand` (`internal/commands/check.go`, `utils.go`) | goroutine trees, semaphores, decision channels, contexts | `Execute`, rewrites, leaves, `checkUnion`, `checkIntersection`, `run`, `clean` | answers are what schema and tuples mean; it ends; nothing leaks | `Check` |
| command key cache (`internal/keys/command.go`, ristretto) | answers of relations by key | `SetCheckKey`, `GetCheckKey`, eviction | an entry never misleads a later check | `Check` |
| postgres `RelationshipWriter` | tables `relation_tuples` and `transactions` | `WriteRelationships`, `DeleteRelationships` with retry loops | at most once, unique live tuples, a token shows what was done | `SnapshotStore` |
| postgres `RelationshipReader` | none | `QueryRelationships`, `ReadRelationships`, `HeadSnapshot`, `GetUniqueEntityIDsByEntityType` | a token always shows the same; pages are whole; head is the latest | `SnapshotStore`, `Relationships` |
| `LookupEntityCommand` | pool of workers, result and error channel | `Execute`, `Stream`, `parallelChecker` | exactly the permitted entities, at one token; it returns | `LookupEntity` |
| `ExpandCommand` | goroutine tree, a channel per goroutine | `Execute`, `expandOperation`, `expandRoot` | one tree whatever the order; it ends; nothing leaks | `Expand`, `ExpandTree` |
| `LookupSchemaCommand` | none | `Execute` | the actions that hold for a set of relations, at one version | `Dsl`, `SchemaStore` |
| `RelationshipService` | none | write: pin, validate, store; read in pages; delete | what is stored fits a schema; pages are whole | `Relationships` |
| schema repositories and service, schema cache | definitions by version, cached definitions | write, read, `HeadVersion` | a version is read whole or not at all, and as it was written | `SchemaStore` |
| circuit breaker decorators | hystrix commands, one goroutine per call | every repository call | a caller hears what its delegate answered | `CircuitBreaker` |
| memory repositories | go-memdb tables | as postgres | which promises of postgres they keep | `Relationships`, `Tenancy`, `SchemaStore` |
| tenancy | tenants table | create, delete, list in pages | callers are told what their statement did | `Tenancy` |
| schema DSL | none | lexer, parser, `String()`, validation, compiler | the compiled tree means what was written | `Dsl` |
| servers, gRPC handlers, gateway, authentication | listeners, requests in flight | `Run`, interceptors, 14 routes | only admitted requests are served; a stop cuts nobody off | `Server`, `Requests`, `Messages` |
| configuration, factories, migrations, telemetry, playground | - | start-up and I/O | - | left out |

How the parts interact. A gRPC handler calls a service, a service calls a
command, a command calls repositories, which may be wrapped by the schema cache
and by circuit breakers. `LookupEntity` calls `Check` once per entity, from
concurrent workers. Concurrent checks share the key cache and nothing else.
Readers and writers meet in the database only; the *snap token*, the id of a
writer's transaction, is how a client carries an order from a write to a check.

What is hard here: groups of goroutines that return early, cancel each other and
still have to be waited for; a cache filled from half-finished evaluations;
transactions that commit in another order than their ids; retries and commits
whose answer is lost; channels of limited capacity between pools and readers;
timeouts whose work goes on; a stop while requests are in flight; schemas that
change under writers; texts that are parsed again on every read. `PROJECT.json`
lists 40 such hazards, each at its line.

## 2. Modules

### Check

A goroutine is named by its *path*: the request, then the `CheckFunction`s on
the way down to it. `frames` maps the paths of live goroutines to their local
state: where it is (`eval`, `collect`, `clean`), for a group its members, those
not started, those that have answered, the buffered `decisionChan` and the
result. The semaphore is the number of live children; the context of a goroutine
is done when the client has cancelled or a group above is in `clean`.

| code | action |
|---|---|
| `Execute`: `checkDepth`, schema lookup, `GetCheckKey` | `DepthExceeded`, `UndefinedPermission`, `RepositoryFails`, `CacheHit`, `CacheMiss` |
| `checkDirect` | `DirectAnswer`, `DirectUserSets` |
| `checkRewrite`, `setChild`, `checkLeaf`, `checkTupleToUserSet` | `NodeFunction`, `NodeGroup` |
| `run` (spawner) | `Spawn`, `SpawnerStops` |
| select loops of `checkUnion` and `checkIntersection` | `Receive`, `SeeDone` |
| deferred `clean()`, the tail of `Execute` (cache, then invert) | `Return` |
| client, ristretto | `Start`, `Cancel`, `Evict` |

`Asks` has what the clients ask in one behaviour, call by call; a call of depth 0
is one that is not made, as `Validate` lets no depth below 3 pass (`MinDepth`).

`World` stands for what nested requests copy (tenant, schema version, snap
token); `Tuples[w]` is what a read in that world returns, which does not change:
that is what `SnapshotStore` shows. The schema is a set of nodes with kinds and
children. `Granted` and `Satisfied` are its meaning, *any* solution of the
equations the rewrite rules state (`MeaningAssumption`): user sets that contain
each other may have several, and a check that follows such a cycle runs into its
depth instead of answering. Members of a group are a set: two textually equal
members of one rewrite are one function in the model; they give the same answer.
The exclusion of a tuple to user set means that some parent does not contain the
subject, as the code has it. The 64-bit hash of the cache key is taken to be free
of collisions.

### SnapshotStore and SnapTokens

A call is a loop of transactions: `Begin` (snapshot), `Insert` and `Expire` row
by row, `Log` (the row of `transactions`), `Commit`. Errors are actions of their
own: `Duplicate`, `ConcurrentUpdate` and `DependencyConflict` ("could not
serialize", tried again), `Deadlock`, `Fail` and `CommitLost` (answered, not
tried again). `Plans` names the sets of calls that are made in one behaviour.
Readers appear as `SnapshotQuery`, `View` and `HeadSnapshot`.
PostgreSQL is external and modelled as far as the writer depends on it: snapshots
as sets of finished transaction ids, the unique index on live rows, row locks,
waiting, serialization failures, a deadlock detector.

`SnapTokens` is the contract: a call is applied at once and at most once, under a
new token; the view of that token contains what was written and lacks what was
deleted; the view of a token never changes; a refused call is not applied.
`TokensKept` says that `SnapshotStore` implements it, with the tokens being the
logged ids and the views what `SnapshotQuery` selects.

### LookupEntity

`HeadSnapshot` and `HeadVersion` pin the request; `List`, `Go` and `Wait` are
`parallelChecker`; `Checked`, `CheckFails` and `Send` a worker; `Receive`,
`TakeError`, `Finish` and `SendFails` the two readers, `Execute` and `Stream`. A
check is its answer at the pinned token and version, or an error: that is what
`Check` proves. `Advance` changes head token and head version at any time. Only
entities that have a tuple at the token are listed, as the query has it.

### Expand and ExpandTree

A goroutine is its path from the root, as in `Check`, but nobody waits for
goroutines and there is no depth. `act` holds the goroutines, `chan` their
result channels of capacity one. `ExpandRefused` is the lookup of entity and
permission, `ExpandDirect` and `ExpandTupleToUserSet` are the two functions that
read, with `DirectFails` and `TupleToUserSetFails`, which goes on after it has
sent the error and panics in a step of its own (`Panic`: `crashed`); `Collect`,
`RootResult` and `SeeDone` are the select loops. A read of PostgreSQL fails when
its context is done or by itself; the memory repository never looks at the
context and never fails (`ReadOk`, `ReadFails`), and both engines are in the runs.
`Cancels` says when an `expandOperation` has returned and so cancelled the
context of its children. What is promised is a constant, `Tree[w][f]`: the tree
that one goroutine alone would build for a function, for a set of functions that
is closed under the functions they call (`TreeAssumption` states its equations).
`Tree` is defined for requests that meet no user sets, and `InOrder` says that a
reply to one of them without an error is that tree. What a reply should show of
user sets is `AllSubjects`, which does not hold (section 4). `ExpandTree` has the
recursion: which functions end, which have a tree, and `TreeOf`, which gives the
run its `Tree`; the liveness properties are stated there.

### Dsl and SchemaStore

`Dsl` has the parser as functions of a text (a sequence of tokens) and a
position: the code's current token is `Tok(p, i)` and its peek token the next
one. Expressions, relations, actions, entities and schemas have each their
parse function; `ExpressionString` ... `EntityString` are `String()`; `Validate`,
`compile` and `compileChildren` are the checks and the compiler; `Lookup` is
the evaluation of `LookupSchemaCommand`. In `SchemaStore` a write parses,
compiles, takes a version from the process's xid clock and inserts one row per
entity; reads pin a version and parse the rows again, in the order of the
engine; a lookup goes through the cache decorator. `SchemaStore` takes the
language as constants (`ParseText`, `CompilesText`, `DefinitionOf`, `SchemaOf`,
`FromDefinitions`, `ActionsFor`), so that it can be reasoned about without the
parser; `MCSchema` gives them the operators of `Dsl`. `LanguageAssumption` is
what the parser guarantees of an accepted text (entities of different names, one
definition each). `RoundTrip`, that a serialized text parses back to the same
definitions, is not assumed: it is what `Readable` checks, and a hypothesis of two
theorems.

### Tenancy and Relationships

`Tenancy` has the tenant repositories and `Page`, the paging that all lists
share; the table starts with the tenant that PostgreSQL's migration inserts
(`Migrated`). `Relationships` extends it: `PinVersion` and `Validate` are the service's
part of a write, with the normalisation of subjects and the first error found;
`Insert`, `Commit` and `Rollback` the PostgreSQL writer (ids are taken at the
insert, so a later id may show first), `MemoryWrite` the memory one;
`ReadRelationships` is one page. `LowerBoundRows` is what go-memdb's index
scan returns, other tenants included. Retries, deadlocks and lost commits are
`SnapshotStore`'s.

### Messages, Requests, CircuitBreaker and Server

`Messages` has the request messages as sets of records; a pointer is an empty or
a singleton set, which is how nil is told from an empty message. `Requests`
has their `Validate` rules over sample strings (names of their length and
pattern), the decoding of the gateway with the tenant from the URL, and what
handlers dereference without looking (`Panics`). `CircuitBreaker` is one call
of a decorated repository: `Go` takes a ticket or is refused, `Answer` and
`Timeout` race, the caller selects on what has arrived. `Server` composes them:
`Run` from start to return, one action per generated handler and per server
method, the repository calls each service makes, one after the other (`todo`),
and `GetStatus`. Calls that `Check` and the lookups make concurrently are made
one after the other here: what matters to a breaker is how many callers there
are, and there are two. A failed call is answered with its status, but for two
routes (`Result`): the unary lookup never reads `errChan`, so its handler hangs
(`Unheard`, place `hung`) and with it `GracefulStop`; and an expansion's read may be
that of a tuple to user set, whose goroutine then panics, before or after the
caller has its answer, also when the caller has left it behind (`MayPanic`,
`ExpandPanics`, `LeftBehind`, `Panic`). `Returned` is the end of the process.

## 3. Runs

| run | instance | shows |
|---|---|---|
| `check` | a check alone at depths 3 and 4, one whose client may cancel, two over one cache that loses entries; failing reads, cyclic user sets | answers are right and `DEPTH_NOT_ENOUGH` only when the recursion may go deeper; what is cached is sound and misleads nobody; `CANCELLED` only for clients that cancelled; no goroutine outlives its group; every check returns |
| `check_not_owner` | exclusion of a relation with user sets | violation, see below |
| `store` | plans of up to three overlapping writes and deletes, two tenants, retries, deadlocks, lost commits | live tuples are unique, calls are applied at most once, tokens are fresh and final while tuples are deleted and written again, every call returns |
| `store_head` | two overlapping calls | violation, see below |
| `lookup` | both readers, four entities, failures, changing head | ids sound and complete; calls return and goroutines end where they can |
| `expand` | four requests over nested, cyclic and stale user sets, both engines | a tree that does not depend on the schedule; failed and cancelled calls return; the goroutines they leave behind end, on PostgreSQL even where user sets are cyclic |
| `expand_users` | the same without failing reads | violation, see below |
| `schema` | every expression over four names, malformed and invalid texts, concurrent schemas of two tenants, both engines | what is stored reads back as compiled; expressions mean what they say from left to right; the cache never answers for another version; PostgreSQL's head is the latest |
| `schema_head` | two writes and a read | violation, see below |
| `relationships` | four calls: 120 validated writes, 51 paging plans, 24 tenant plans, both engines | stored tuples fit a schema no older than the head the writer saw; pages repeat and lose no row; tenant calls are told what happened |
| `tenants_apart` | the same plans | violation, see below |
| `server` | every route over gRPC and HTTP next to a second caller, one ticket per command, timeouts, refusals, failures, a signal at any time | only valid, authenticated requests for the tenant in the URL reach a repository; handlers do not panic; a clean exit cuts nobody off; callers hear their delegate; a stop and a request end unless hystrix refused a call or a read of a unary lookup failed |

Every property of a passing run has a mutant in `PROJECT.json`: a definition
changed as a plausible bug would change it, and the property is violated.

### Bounds

* Checks have depth 3 or 4 (the API refuses less than 3), which is enough for an
  action, a relation, a user set and one turn of a cycle. `Limit` is 2, so that
  the spawner of the three members of `push` has to wait for a slot. One or two
  requests: requests meet only in the cache, entry by entry.
* The store has plans of at most three calls over two tuples and two tenants. The
  pair of opposite writes gives deadlocks, two deletes concurrent updates, a third
  writer the duplicate that waits, two writes around a delete the tuple that is
  live twice in turn. `MaxRetries` is 1: first, repeated and last attempt.
* The lookup has 2 workers and a buffer of 1 for up to 3 results of 4 entities:
  smaller than the answer, so that both block. Two tokens, two versions.
* `MaxPath` lets an expansion go once round the cycle of two organizations and
  one goroutine further: what is cut off is the repetition. Reads about
  `r` and `o1` may fail (`Flaky`), those about `o2` only once their context is done:
  failures of direct relations and of tuple to user sets meet siblings that succeed.
* `MaxLeaves` is 4: the parser's special cases concern a group inside a group
  with an operator on either side. Version clocks and row ids are bounded by the
  number of calls.
* `MaxConcurrent` is 1 (hystrix has 10), so that the second caller is refused;
  `Tripping` restricts the circuits that open to the command both callers use.

No configuration checks for deadlock: requests are finite, all the systems may
come to rest. That they only rest when everybody is answered is stated as
liveness.

### Fairness

`Check`, `LookupEntity` and `Expand` assume weak fairness of *some* step of *some*
goroutine: the Go scheduler does not leave a program with runnable goroutines
idle. No single goroutine is assumed to be scheduled fairly, and within the
bounds the systems only do finitely much, so this is enough. `SnapshotStore`
assumes it for each call, as each has its connection and backend. `Server` assumes
it for the steps of each request (grpc-go has a goroutine for each, delegates
answer or fail since the database driver does) and for `Run`, whose timers fire.
Clients, cancellation, signals, failures, trips and eviction are never assumed to
happen. `Tenancy`, `Relationships` and `SchemaStore` state safety only and have no
fairness.

## 4. Findings

* `check_not_owner`: `checkDirect` hands the exclusion on to user sets, where
  `Execute` inverts again: `parent.member and not owner` is wrong as soon as
  `owner` is held through a user set (`@organization#member`).
* `store_head`: `HeadSnapshot` takes the greatest transaction id. Ids are not in
  commit order, and the view belongs to that transaction's snapshot, so a read
  without a token may miss an acknowledged write.

* `expand_users`: `expandDirect` replaces the children of its union, which hold what
  the user sets expanded to, by its own leaf: members of user sets are missing from
  a reply that `expand-api.md` calls the complete set of users.
* `schema_head`: in memory the head is the version of the last type in alphabetical
  order, stale when an older schema has a type after all types of the newer one.
  PostgreSQL keeps the promise (`PostgresHeadFresh`).
* `tenants_apart`: in memory the index scan of `ReadRelationships` goes on into
  later tenants, and a filter without an entity type is not restricted to a tenant;
  in PostgreSQL the `UPDATE` of `DeleteRelationships` has no tenant condition and
  expires the equal relationships of every tenant.

Other observations have no run of their own, as no document says otherwise. The
models contain the behaviour, and the properties say where they stop:

* `check.go:141`: the exclusion of an action is ignored, `and not push` with an
  action `push` means `and push` (`ExclusionIsDirect` leaves such schemas out).
* `lookupEntity.go:58`: the unary lookup never reads `errChan`; if a check fails,
  caller and `parallelChecker` wait for each other for ever (`ReturnsUnlessFailed`),
  and a graceful stop with them (`Answered`, `Stops`). When a stream breaks (`:101`)
  workers may stay blocked on the channel (`Released` leaves out broken streams).
* `keys/command.go`: `SubjectToString` leaves out the relation of a user, so
  checks about `user:1` and `user:1#x` share a key (`PlainUsers`).
* `expand.go:253`: `expandTupleToUserSet` goes on after a failed read and panics on
  the nil iterator, on a goroutine without recovery: the process is gone
  (`Returns`, `Drains` and `CleanStop` hold up to it). Cyclic user sets expand until
  the client goes (`Returns`), and in memory the goroutines it leaves behind go on
  even then (`Drains`).
* `relationshipReaderWithCircuitBreaker.go:38` and its siblings: a refused call is
  reported to a fallback that returns nil, its caller waits for ever, and so does
  a graceful stop. With the failed unary lookup these are the only endless waits
  (`Answered`, `Stops`). A timeout changes nothing for the caller,
  which still waits for the delegate (`DelegateHeard`).
* `servers/error.go`: not-found errors are numbered 4000 and up but tested for
  between 2999 and 3999, so they are answered as `Internal`.
* `memory/relationshipWriter.go`: a relationship that is written again replaces the
  row by one with a new id, so that a later page may show it again; `PagesWhole` is
  about rows, and about relationships only at a snap token.
* The DSL gives `and` and `or` the same precedence, from left to right. A
  parenthesised right operand swallows an operator that follows it, so
  `a and (b or c) or d` is `a and ((b or c) or d)`, and some nestings are refused,
  `(a and (b or c)) or d` among them (`MeansWritten` leaves these out, `Readable`
  does not).

## 5. Proofs

The theorems hold for every value of the constants under the assumptions named
in the modules, which TLC evaluates on its instances. Every safety property of a
passing run is stated by a theorem, but for `MeansWritten`. In each module the property
itself is not inductive; what follows says what had to be added and why.

* `CheckTreeProofs`, from `ConstantsAssumption` and `MeaningAssumption`, for every
  schema: `TypeCorrect`, `GoroutinesEnd`, `CancelHonestHolds`, `DepthHonestHolds`.
  The invariant `Tree` of `Check` says that live goroutines form trees whose
  inner nodes are groups (`Linked`, `Rooted`), that every function came about by
  nested requests from the one asked, as many as the depth it has used up
  (`Grown`, through `Made`), and that every error in a channel or about to be
  returned has a cause that outlasts the goroutine it came from
  (`ErrorsExplained`). The last part is the hard one: a group in `clean` cancels
  its members, they answer `CANCELLED`, and what justified that answer goes away
  with the group; the proof shows that such answers never pass the group. `Level`
  is a recursive function; `LevelEquation` proves its equation from an explicit
  witness, the ends of chains of nested requests.
* `CheckProofs` builds on it, for schemas and requests with `ExclusionIsDirect`
  and `PlainUsers` (the findings show that both are needed): `CacheCorrect`,
  `AnswersCorrect`. An answer is right because every decision in every channel
  is, because the members that a group has already consumed were indecisive
  (`got`), because a group's truth follows from its members' (`GroupOK`), and
  because nothing in the cache is wrong. The central lemmas say that opening a
  group keeps the truth of its function, by the equations, and that a consumed
  decision either settles the group or leaves its truth to the members that
  remain.
* `SnapshotStoreProofs`, from `StoreAssumption`: `StoreTypeCorrect`,
  `UniqueTuples`, `TokensFresh` and `StoreImplementsTokens`, the refinement of
  `SnapTokens`. The invariant says that ids in progress are unfinished and private
  (`IdsOK`), snapshots hold only finished transactions (`SnapshotsOK`), rows are
  made and expired by logged transactions (`RowsOK`), uncommitted updates are of
  live rows and exclusive (`TouchedOK`), a logged transaction has nothing left to
  do (`ProgressOK`), and uncommitted inserts are not live (`InsertsOK`). That old
  views never change rests on `SnapshotsOK`: a committing id is in no snapshot.
* `LookupEntityProofs`, from `LookupAssumption`: `LookupTypeCorrect`,
  `LookupSound`, `LookupComplete`. The invariant accounts for every listed id: it
  is in exactly one of todo, checking, sending, channel and result (`Apart`,
  `Placed`), and lost only by an error or a broken stream (`NothingLost`).
* `ExpandProofs`, from `ExpandAssumption`, `SchemaAssumption` and `TreeAssumption`:
  `TypeCorrect`, `CancelHonestHolds`, `InOrderHolds`. The
  invariant says that goroutines are started from the root on (`Paths`), that one
  has sent exactly when it has ended (`Sent`), that an operation's children run
  its functions in order (`Families`), that who says `CANCELLED` has a context
  that is done (`Honest`), and that every result and everything collected is the
  tree of its function (`Trees`). Contexts, once done, stay done.
* `SchemaStoreProofs`, from `SchemaStoreAssumption`: `PostgresHeadFreshHolds`; and, if
  `RoundTrip`, `ReadableHolds` and `LookupSoundHolds`. The invariant says that
  versions are of accepted texts and of one write each (`Writers`), that the rows
  of a write are all there or all missing, and there once it is acknowledged
  (`Stored`), that readers are pinned to visible versions and remember
  acknowledged ones (`Readers`), and that an entry of the cache is a definition of
  the write whose version its key has (`Kept`). That a set of rows can be put in
  order at all is an induction over its size (`OrderExists`).
* `RelationshipsProofs`, from `PlanAssumption` and `RelationAssumption`, about
  `Relationships` and `Tenancy`: `StoredValidHolds`, `PagesWholeHolds`,
  `TenantsBalancedHolds`, and `SnapTokensStable`, an action property: no step
  changes what a committed snap token shows (`Frozen`). The invariant says which
  version a write was validated against (`Writers`), whose every row is (`Rows`),
  that a transaction in progress is in no snapshot (`Log`), and that a listing
  between two pages has, in order, all keys before its token that were there for
  every page (`Turns`, `Reads`), at a snap token exactly those it shows
  (`Tokens`). Pages are cut by rank; `Ranks` numbers a finite set in its order.
* `ServerProofs`, from `BreakerAssumption`, `ServerAssumption` and `AskAssumption`:
  `AdmittedHolds`, `HandlerSafeHolds`, `CleanStopHolds` and `DelegateHeardHolds`.
  The invariant says what each place of a request implies: who is past the
  interceptors is authenticated and valid (`Intercepted`), the gateway has put the
  tenant of the URL into the message (`PathHeeded`), only a handler at work calls
  repositories (`CallOfHandler`), the gateway is used only while the gRPC server
  serves (`AtGateway`, `RunOrder`), and what a caller can select is what its
  delegate answered (`CallHonest`).

All inductive invariants were checked with TLC on the runs' instances before
they were proved.

### Progress

Liveness under fairness is out of the prover's reach. What it rests on is safety
and is proved for the five components that wait: no state in which somebody is
still owed an answer is one where nobody can move, and every move uses up
something. Both are stated without `ENABLED`: `CanStep` is the disjunction of the
guards of the steps, in their order (TLC confirmed that it agrees with `ENABLED` on
the instances of the runs), and what is used up is a measure, lexicographic where
one number does not do.

| component | nobody is stuck | every step uses something up |
|---|---|---|
| `Check` | `CheckNeverStuck` | `CheckDescends`, `RecursionBounded`, `ChannelFitsHolds` |
| `SnapshotStore` | `StoreNeverStuck` | `StoreDescends`, `StoreFinite` |
| `LookupEntity` | `LookupNeverStuck` | `LookupDescends` |
| `Expand` | `ExpandNeverStuck` | `ExpandDescends`, `ExpandBounded` |
| `Server` | `ServerNeverStuck` | `ServerDescends` |

* Check. A group that collects lacks a decision, and each member it lacks waits
  for the spawner, runs, or is in the channel, unless the context is done
  (`Accounted`). Hence a goroutine without children can go on; a running check
  has one, as its paths are bounded (`LeafExists`). A member is in one of these
  places only and in the channel once (`Once`): so `decisionChan`, made for
  `len(functions)` decisions, always has room for those that still run
  (`ChannelFits`). The model leaves its channel unbounded, and this is why that is
  faithful. It is also why a received decision is always a new one, which gives the
  measure: stages, members to start, decisions to count. How deep goroutines nest
  is bounded by the depth asked for and by the height `H` of the rewrite rules
  (`Stratified`: a node is higher than its children), through the weight a function
  has left (`Weight`); cycles of user sets only use up depth. Since a group has
  finitely many members, no path is started twice and paths are bounded, a check
  takes finitely many steps.
* SnapshotStore. A call that cannot go on waits for a transaction in progress.
  Following these waits through finitely many calls ends in one that can go on or
  in a ring (`RingExists`, by a least closed set of waiters), which is what
  `Deadlock` breaks. Attempts are bounded by `MaxRetries` (`Finite`), and within an
  attempt the rows still to be touched only become fewer: nobody commits a row into
  the snapshot of another (`TargetsShrink`).
* LookupEntity. The theorem names the exceptions: the lookup is over, its stream is
  broken, or `Execute` waits for an error it does not listen to (the finding at
  `lookupEntity.go:58`). The entities listed at a token are finitely many
  (`LookupAssumption`).
* Expand. A goroutine that has not sent can go on, or one below it can, also below
  an operation that has failed and left them behind. `AtBound`, the model's `MaxPath`,
  is the only exception: cyclic user sets expand without end. Each goroutine sends
  once (`Sends`), so channels of capacity one never block.
* Server. A request under way names a method of the API, a handler has its message,
  an ended call has left its answer, and an HTTP request in flight is waited for
  before the gRPC server is stopped (`Kept`). What remains is the call that hystrix
  refused (`Stranded`) and the unary lookup that did not hear of its failed read
  (`hung`): `Waits`, and `Blocking` where no HTTP timeout ends the wait for `Run`. A
  panic of an expansion ends the process, and with it every request. Circuits may
  open and close for ever without taking a request back.

### Only model-checked

The step from these results to liveness under fairness (`Responds`, `CallsReturn`,
`StreamReturns`, `ReturnsUnlessFailed`, `Released`, `Returns`, `Drains`, `Stops`,
`Answered`): each of them needs weak fairness and an induction over the measure,
neither of which the prover handles. And what `Dsl` computes, `MeansWritten` and
`RoundTrip` (through `Readable`), as its parser, compiler and `String()` are
mutually recursive operators over texts and trees. That `TreeOf` of `ExpandTree`
satisfies `TreeAssumption` is evaluated by TLC on its instance.

## 6. Not modelled

* The wire formats (protobuf, JSON, base64 tokens) and the generated accessors,
  response messages and `ValidateAll`, which no code path of the server calls. Text
  patterns are represented by sample strings on either side of each rule.
* JWT parsing and key sets of OIDC: a token is missing, good or bad.
* Configuration, factories, migrations, telemetry, logging: start-up and I/O. The
  settings that change behaviour are constants.
* The development container and `validate`: the same commands over the memory
  repositories, driven by files.
* Characters and positions in the DSL, and the wording of errors.
* A crash of the process between two steps, beyond the end of `Run`: what persists is
  in the database, and a lost process looks to it like `CommitLost` or a rollback.

## 7. Plan

The models, the runs, the safety theorems and the two safety halves of liveness are
in place. What would come next, in this order:

* a measure on whole checks and expansions, a sum over their trees, so that the
  finiteness which `CheckDescends` and `ExpandDescends` give goroutine by goroutine
  becomes one theorem; it needs sums over finite sets, whose laws are inductions;
* the schema language as recursive functions over the length of a text, so that
  `RoundTrip`, a hypothesis of `ReadableHolds` and `LookupSoundHolds`, could be
  reasoned about.
