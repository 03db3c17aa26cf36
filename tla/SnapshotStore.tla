--------------------------- MODULE SnapshotStore ---------------------------
(***************************************************************************)
(* RelationshipWriter and the snapshot reads of RelationshipReader         *)
(* (internal/repositories/postgres).  A call of WriteRelationships or      *)
(* DeleteRelationships is a loop of at most maxRetries + 1 serializable    *)
(* transactions; each inserts or expires rows of relation_tuples, logs     *)
(* itself and its snapshot in the transactions table and commits.  The     *)
(* transaction id is the snap token.  Reads at a token select the rows by  *)
(* SnapshotQuery.                                                          *)
(*                                                                         *)
(* PostgreSQL itself is external; it appears as far as the writer depends  *)
(* on it: a snapshot is the set of transaction ids that had finished when  *)
(* the first statement ran, the unique index on live rows makes a writer   *)
(* wait for an uncommitted rival, an update of a row that was changed      *)
(* since the snapshot "could not serialize", a deadlock has a victim.      *)
(***************************************************************************)
EXTENDS Naturals, FiniteSets, Sequences

CONSTANTS
    Tenant,
    Tuple,
    Op,                 \* the calls of the writer
    OpDef,              \* the arguments of a call; a delete's tuples match its filter
    Plans,              \* the sets of calls that clients make in one behaviour
    MaxTuplesPerWrite,
    MaxRetries

OpType == [kind : {"write", "delete"}, tenant : Tenant, tuples : Seq(Tuple)]

ASSUME StoreAssumption ==
    /\ OpDef \in [Op -> OpType]
    /\ Plans \subseteq SUBSET Op
    /\ MaxTuplesPerWrite \in Nat
    /\ MaxRetries \in Nat

\* A row of relation_tuples; expired is 0 while the row is live.
Row == [tenant : Tenant, tuple : Tuple, created : Nat, expired : Nat]

\* A row of the transactions table; op is the call the transaction was made for.
Transaction == [tenant : Tenant, snapshot : SUBSET Nat, op : Op]

Code == {"none", "ok", "failed", "tooMany", "unique", "maxRetries"}

(***************************************************************************)
(* The state of a call: where it is, how many transactions have failed to  *)
(* serialize, id (0 before one is assigned) and snapshot of the current    *)
(* transaction, how many tuples it has inserted and the rows it has        *)
(* expired, the answer to the client, and as a history the transactions    *)
(* that were acknowledged before the call.                                 *)
(***************************************************************************)
Call == [pc : {"idle", "begin", "statement", "logged", "done"}, tries : Nat, xid : Nat,
         snapshot : SUBSET Nat, inserted : Nat, touched : SUBSET Row,
         code : Code, token : Nat, before : SUBSET Nat]

VARIABLES
    next,          \* the next transaction id
    rows,          \* relation_tuples, as committed
    transactions,  \* the transactions table, as committed: by id
    finished,      \* the ids of the committed and the aborted transactions
    call           \* call[o]: the state of the call o

vars == <<next, rows, transactions, finished, call>>

-----------------------------------------------------------------------------
(***************************************************************************)
(* Reading.                                                                *)
(***************************************************************************)

\* pg_visible_in_snapshot(id, (select snapshot from transactions where id = x)),
\* which is neither true nor false when there is no such transaction.
Visible(id, x) == x \in DOMAIN transactions /\ id \in transactions[x].snapshot
Invisible(id, x) == x \in DOMAIN transactions /\ id \notin transactions[x].snapshot

\* Mutant: ids compared as if transactions finished in the order of their ids.
SnapshotQueryById(r, x) == r.created <= x /\ (r.expired = 0 \/ r.expired > x)

SnapshotQuery(r, x) ==
    /\ Visible(r.created, x) \/ r.created = x
    /\ Invisible(r.expired, x) \/ r.expired = 0
    /\ r.expired # x

\* What QueryRelationships and ReadRelationships select from.
View(t, x) ==
    {r.tuple : r \in {q \in rows : q.tenant = t /\ SnapshotQuery(q, x)}}

\* The greatest logged id of the tenant, 0 when there is none.
HeadSnapshot(t) ==
    LET ids == {x \in DOMAIN transactions : transactions[x].tenant = t} IN
    IF ids = {} THEN 0 ELSE CHOOSE x \in ids : \A y \in ids : y <= x

-----------------------------------------------------------------------------
(***************************************************************************)
(* The transaction a call is in.                                           *)
(***************************************************************************)
Kind(o) == OpDef[o].kind
Tuples(o) == OpDef[o].tuples
Matches(o, r) == \E i \in DOMAIN Tuples(o) : Tuples(o)[i] = r.tuple
InTransaction(o) == call[o].pc \in {"statement", "logged"}

\* The id of the transaction, assigned when it is first needed.
Xid(o) == IF call[o].xid = 0 THEN next ELSE call[o].xid
AssignXid(o) == next' = IF call[o].xid = 0 THEN next + 1 ELSE next

\* o has inserted the tuple and has not committed.
Inserted(o, t, tuple) ==
    /\ InTransaction(o) /\ OpDef[o].tenant = t
    /\ \E i \in 1 .. call[o].inserted : Tuples(o)[i] = tuple

\* o has expired the row and has not committed.
Touched(o, r) == InTransaction(o) /\ r \in call[o].touched

\* The next tuple of the insert, the live rows that it would duplicate.
NextTuple(o) == Tuples(o)[call[o].inserted + 1]

\* Mutant: no unique constraint on live rows.
NoDuplicates(o) == {}

Duplicates(o) ==
    {r \in rows : r.tenant = OpDef[o].tenant /\ r.tuple = NextTuple(o) /\ r.expired = 0}

\* The rows the update still has to expire: live in the snapshot.
Targets(o) ==
    {r \in rows : /\ Matches(o, r)
                  /\ r.created \in call[o].snapshot
                  /\ r.expired = 0 \/ r.expired \notin call[o].snapshot} \ call[o].touched

Executing(o, kind) == call[o].pc = "statement" /\ Kind(o) = kind
Inserting(o) == Executing(o, "write") /\ call[o].inserted < Len(Tuples(o))

Executed(o) ==
    IF Kind(o) = "write" THEN call[o].inserted = Len(Tuples(o)) ELSE Targets(o) = {}

\* The transactions a statement has to wait for.
WaitsFor(o) ==
    IF Inserting(o)
    THEN {p \in Op \ {o} : \/ Inserted(p, OpDef[o].tenant, NextTuple(o))
                           \/ \E r \in Duplicates(o) : Touched(p, r)}
    ELSE IF Executing(o, "delete")
         THEN {p \in Op \ {o} : \E r \in Targets(o) : Touched(p, r)}
         ELSE {}

Set(o, c) == call' = [call EXCEPT ![o] = c]

\* The call without a transaction, and the call when it has returned.
NoTransaction(o, pc) ==
    [call[o] EXCEPT !.pc = pc, !.xid = 0, !.snapshot = {}, !.inserted = 0, !.touched = {}]
Answer(o, code) == [NoTransaction(o, "done") EXCEPT !.tries = 0, !.code = code]

\* Mutant: the id of a transaction that was never assigned one is finished too.
RollbackUnassigned(o) ==
    /\ finished' = finished \cup {call[o].xid}
    /\ UNCHANGED <<next, rows, transactions>>

\* Rollback: the id counts as finished, nothing else remains.
Rollback(o) ==
    /\ finished' = IF call[o].xid = 0 THEN finished ELSE finished \cup {call[o].xid}
    /\ UNCHANGED <<next, rows, transactions>>

\* Mutant: attempts are not counted.
RetryForever(o) == Rollback(o) /\ Set(o, NoTransaction(o, "begin"))

\* Rollback after "could not serialize": the next attempt, if one is left.
Retry(o) ==
    /\ Rollback(o)
    /\ Set(o, IF call[o].tries = MaxRetries
              THEN Answer(o, "maxRetries")
              ELSE [NoTransaction(o, "begin") EXCEPT !.tries = @ + 1])

-----------------------------------------------------------------------------
Init ==
    /\ next = 1
    /\ rows = {}
    /\ transactions = [x \in {} |-> 0]
    /\ finished = {}
    /\ call = [o \in Op |->
                [pc |-> "idle", tries |-> 0, xid |-> 0, snapshot |-> {}, inserted |-> 0,
                 touched |-> {}, code |-> "none", token |-> 0, before |-> {}]]

\* Clients call o only together with calls of one of the plans.
Planned(o) == \E plan \in Plans : {o} \cup {p \in Op : call[p].pc # "idle"} \subseteq plan

\* Too many tuples: refused before a transaction is begun.
TooMany(o) ==
    /\ call[o].pc = "idle" /\ Planned(o)
    /\ Kind(o) = "write" /\ Len(Tuples(o)) > MaxTuplesPerWrite
    /\ Set(o, Answer(o, "tooMany"))
    /\ UNCHANGED <<next, rows, transactions, finished>>

\* A client calls WriteRelationships or DeleteRelationships.
Start(o) ==
    /\ call[o].pc = "idle" /\ Planned(o)
    /\ Kind(o) = "write" => Len(Tuples(o)) <= MaxTuplesPerWrite
    /\ Set(o, [call[o] EXCEPT !.pc = "begin", !.before = {call[p].token : p \in Op} \ {0}])
    /\ UNCHANGED <<next, rows, transactions, finished>>

\* Mutant: the snapshot keeps only what is older than every running transaction.
BeginAtHorizon(o) ==
    /\ call[o].pc = "begin"
    /\ Set(o, [call[o] EXCEPT !.pc = "statement",
                  !.snapshot = {x \in finished :
                                \A p \in Op : call[p].xid # 0 => x < call[p].xid}])
    /\ UNCHANGED <<next, rows, transactions, finished>>

\* BeginTx; the snapshot is taken when the first statement starts.
Begin(o) ==
    /\ call[o].pc = "begin"
    /\ Set(o, [call[o] EXCEPT !.pc = "statement", !.snapshot = finished])
    /\ UNCHANGED <<next, rows, transactions, finished>>

\* INSERT INTO relation_tuples, one of its rows.
Insert(o) ==
    /\ Inserting(o) /\ WaitsFor(o) = {} /\ Duplicates(o) = {}
    /\ ~Inserted(o, OpDef[o].tenant, NextTuple(o))
    /\ AssignXid(o)
    /\ Set(o, [call[o] EXCEPT !.xid = Xid(o), !.inserted = @ + 1])
    /\ UNCHANGED <<rows, transactions, finished>>

\* "duplicate key value": the tuple is live already, or twice in the collection.
Duplicate(o) ==
    /\ Inserting(o) /\ WaitsFor(o) = {}
    /\ Duplicates(o) # {} \/ Inserted(o, OpDef[o].tenant, NextTuple(o))
    /\ Rollback(o)
    /\ Set(o, Answer(o, "unique"))

\* UPDATE relation_tuples SET expired_tx_id, one of its rows.  The filter has
\* no tenant.
Expire(o, r) ==
    /\ Executing(o, "delete") /\ r \in Targets(o) /\ r.expired = 0
    /\ \A p \in Op \ {o} : ~Touched(p, r)
    /\ AssignXid(o)
    /\ Set(o, [call[o] EXCEPT !.xid = Xid(o), !.touched = @ \cup {r}])
    /\ UNCHANGED <<rows, transactions, finished>>

\* "could not serialize access due to concurrent update".
ConcurrentUpdate(o) ==
    /\ Executing(o, "delete") /\ \E r \in Targets(o) : r.expired # 0
    /\ Retry(o)

\* "could not serialize access due to read/write dependencies": the statement
\* of a transaction that is not alone may fail this way at any time.
DependencyConflict(o) ==
    /\ call[o].pc = "statement"
    /\ \/ \E p \in Op \ {o} : InTransaction(p)
       \/ DOMAIN transactions \ call[o].snapshot # {}
    /\ Retry(o)

\* The deadlock detector picks o out of a ring of waiting transactions.  The
\* error is not "could not serialize": there is no retry.
Deadlock(o) ==
    /\ \E ring \in SUBSET {p \in Op : WaitsFor(p) # {}} :
          /\ o \in ring
          /\ \A p \in ring : WaitsFor(p) \cap ring # {}
          /\ \A p \in ring : \E q \in ring : p \in WaitsFor(q)
    /\ Rollback(o)
    /\ Set(o, Answer(o, "failed"))

\* INSERT INTO transactions ... RETURNING id.
Log(o) ==
    /\ call[o].pc = "statement" /\ Executed(o)
    /\ AssignXid(o)
    /\ Set(o, [call[o] EXCEPT !.pc = "logged", !.xid = Xid(o)])
    /\ UNCHANGED <<rows, transactions, finished>>

\* What becomes of the tables when the transaction of o commits.
Apply(o) ==
    LET c == call[o] IN
    /\ rows' = (rows \ c.touched)
                 \cup {[r EXCEPT !.expired = c.xid] : r \in c.touched}
                 \cup {[tenant |-> OpDef[o].tenant, tuple |-> Tuples(o)[i],
                        created |-> c.xid, expired |-> 0] : i \in 1 .. c.inserted}
    /\ transactions' = [x \in DOMAIN transactions \cup {c.xid} |->
            IF x = c.xid
            THEN [tenant |-> OpDef[o].tenant, snapshot |-> c.snapshot, op |-> o]
            ELSE transactions[x]]
    /\ finished' = finished \cup {c.xid}
    /\ UNCHANGED next

\* tx.Commit() succeeds; the id is the token.
Commit(o) ==
    /\ call[o].pc = "logged"
    /\ Apply(o)
    /\ Set(o, [Answer(o, "ok") EXCEPT !.token = call[o].xid])

\* The transaction commits and the connection is lost before Commit() returns.
CommitLost(o) ==
    /\ call[o].pc = "logged"
    /\ Apply(o)
    /\ Set(o, Answer(o, "failed"))

\* BeginTx, a statement or Commit() fails for good: the connection is lost, the
\* client cancels, or the transaction cannot serialize after its statement.
Fail(o) ==
    /\ call[o].pc \in {"begin", "statement", "logged"}
    /\ IF InTransaction(o) THEN Rollback(o) ELSE UNCHANGED <<next, rows, transactions, finished>>
    /\ Set(o, Answer(o, "failed"))

\* What the writer and PostgreSQL do by themselves ...
Step(o) ==
    \/ Begin(o) \/ Insert(o) \/ Duplicate(o)
    \/ \E r \in rows : Expire(o, r)
    \/ ConcurrentUpdate(o) \/ Deadlock(o) \/ Log(o) \/ Commit(o)

\* ... and what may happen to them.
Next ==
    \E o \in Op :
        \/ TooMany(o) \/ Start(o) \/ Step(o)
        \/ DependencyConflict(o) \/ CommitLost(o) \/ Fail(o)

Spec == Init /\ [][Next]_vars

\* Every connection and every backend makes progress.
FairSpec == Spec /\ \A o \in Op : WF_vars(Step(o))
-----------------------------------------------------------------------------
(***************************************************************************)
(* Correctness.                                                            *)
(***************************************************************************)

\* The variables keep their types (WriteRelationships, DeleteRelationships).
TypeOK ==
    /\ next \in Nat \ {0}
    /\ rows \subseteq Row
    /\ DOMAIN transactions \subseteq Nat \ {0}
    /\ \A x \in DOMAIN transactions : transactions[x] \in Transaction
    /\ finished \subseteq Nat \ {0}
    /\ call \in [Op -> Call]

(***************************************************************************)
(* The refinement mapping to SnapTokens: the tokens are the ids of the     *)
(* logged transactions, each with what SnapshotQuery selects at it.        *)
(***************************************************************************)
Published ==
    [x \in DOMAIN transactions |->
        [op |-> transactions[x].op, view |-> [t \in Tenant |-> View(t, x)]]]
Outcome == [o \in Op |-> [code |-> call[o].code, token |-> call[o].token]]

Tokens == INSTANCE SnapTokens WITH views <- Published, outcome <- Outcome

\* The store keeps its promise about snap tokens: the retry loop, its error
\* paths and lost commits apply a call at most once, its token shows what it
\* wrote and hides what it deleted, and what SnapshotQuery selects at a token
\* never changes, whatever commits later.
TokensKept == Tokens!Spec

\* The unique constraint holds across concurrent writers and deleters: a tenant
\* has a tuple live at most once, committed or about to be.
LiveOnce ==
    /\ \A r, s \in rows :
        r.expired = 0 /\ s.expired = 0 /\ r.tenant = s.tenant /\ r.tuple = s.tuple => r = s
    /\ \A o, p \in Op : \A t \in Tenant, tuple \in Tuple :
        Inserted(o, t, tuple) /\ Inserted(p, t, tuple) => o = p

\* A token is at least as fresh as every token acknowledged before its call:
\* its view is computed from a snapshot that contains their transactions.
TokenFresh ==
    \A o \in Op : call[o].code = "ok" =>
        call[o].before \subseteq transactions[call[o].token].snapshot

\* Every call returns, whatever it has to wait for and however often it is tried
\* again: the writer always comes back to a state in which no call is under way
\* (and a call that was under way does not become idle again).
CallsReturn == []<>(\A o \in Op : call[o].pc \in {"idle", "done"})

\* HeadSnapshot gives the latest token: what a call has been acknowledged to have
\* written and nobody has deleted is in the view a read without a token gets.
HeadFresh ==
    \A o \in Op : call[o].code = "ok" /\ Kind(o) = "write" =>
        \A r \in rows : r.created = call[o].token /\ r.expired = 0 =>
            r.tuple \in View(r.tenant, HeadSnapshot(r.tenant))

-----------------------------------------------------------------------------
(***************************************************************************)
(* The inductive invariant behind TokensKept, TokenFresh and LiveOnce.     *)
(***************************************************************************)

\* The id of a transaction in progress is its own and nobody has seen it finish.
IdsOK ==
    \A o \in Op :
        /\ call[o].xid < next
        /\ ~InTransaction(o) => call[o].xid = 0
        /\ call[o].pc = "logged" => call[o].xid # 0
        /\ call[o].xid # 0 =>
            /\ call[o].xid \notin finished
            /\ \A p \in Op : call[p].xid = call[o].xid => p = o

\* Snapshots hold finished transactions only, and never their own.
SnapshotsOK ==
    /\ \A x \in finished : x # 0 /\ x < next
    /\ DOMAIN transactions \subseteq finished
    /\ \A x \in DOMAIN transactions : transactions[x].snapshot \subseteq finished
    /\ \A o \in Op : call[o].snapshot \subseteq finished

RowsOK ==
    \A r \in rows : /\ r.created \in DOMAIN transactions
                    /\ r.expired # 0 => r.expired \in DOMAIN transactions

\* Uncommitted updates are of live rows, and no two are of the same row.
TouchedOK ==
    \A o \in Op : \A r \in call[o].touched :
        /\ r \in rows /\ r.expired = 0
        /\ Kind(o) = "delete" /\ InTransaction(o)
        /\ \A p \in Op : r \in call[p].touched => p = o

\* A logged transaction has executed its statement, and this remains so.
ProgressOK ==
    \A o \in Op :
        /\ call[o].inserted \in 0 .. Len(Tuples(o))
        /\ Kind(o) = "delete" \/ ~InTransaction(o) => call[o].inserted = 0
        /\ call[o].pc = "logged" => Executed(o)

OutcomesOK ==
    /\ \A o \in Op :
        /\ call[o].code = "none" <=> call[o].pc # "done"
        /\ IF call[o].code = "ok" THEN call[o].token \in DOMAIN transactions
           ELSE call[o].token = 0
    /\ \A x \in DOMAIN transactions : call[transactions[x].op].pc = "done"

FreshOK ==
    \A o \in Op : /\ call[o].before \subseteq finished
                  /\ InTransaction(o) => call[o].before \subseteq call[o].snapshot

\* What is inserted and not committed is not live in the table.
InsertsOK ==
    \A o \in Op : \A i \in 1 .. call[o].inserted :
        /\ \A r \in rows : r.tenant = OpDef[o].tenant /\ r.tuple = Tuples(o)[i] => r.expired # 0
        /\ \A j \in 1 .. call[o].inserted : Tuples(o)[i] = Tuples(o)[j] => i = j

IndInv ==
    /\ TypeOK /\ IdsOK /\ SnapshotsOK /\ RowsOK /\ TouchedOK /\ ProgressOK
    /\ OutcomesOK /\ FreshOK /\ InsertsOK /\ LiveOnce /\ TokenFresh
=============================================================================
