------------------------ MODULE SnapshotStoreProofs ------------------------
(***************************************************************************)
(* Proofs about SnapshotStore, for any tenants, tuples and calls.          *)
(***************************************************************************)
EXTENDS SnapshotStore, FiniteSetTheorems, NaturalsInduction, TLAPS

\* Nothing has been called: the inductive invariant holds.
LEMMA InitIndInv == Init => IndInv
<1> SUFFICES ASSUME Init PROVE IndInv
  OBVIOUS
<1>1. TypeOK
  BY DEF Init, TypeOK, Call, Row, Code
<1>2. \A o \in Op : ~InTransaction(o) /\ call[o].inserted = 0 /\ call[o].touched = {}
  BY DEF Init, InTransaction
<1>3. IdsOK /\ SnapshotsOK /\ RowsOK /\ TouchedOK
  BY <1>1, <1>2 DEF Init, IdsOK, SnapshotsOK, RowsOK, TouchedOK
<1>4. ProgressOK /\ OutcomesOK /\ FreshOK /\ TokenFresh
  BY <1>1, <1>2, StoreAssumption
  DEF Init, ProgressOK, OutcomesOK, FreshOK, TokenFresh, Tuples, OpType
<1>5. InsertsOK /\ LiveOnce
  BY <1>1, <1>2 DEF Init, InsertsOK, LiveOnce, Inserted
<1> QED
  BY <1>1, <1>3, <1>4, <1>5 DEF IndInv

\* The state of a call after an update of its record.
LEMMA SetCall ==
    ASSUME call \in [Op -> Call], NEW o \in Op, NEW c \in Call, Set(o, c)
    PROVE  /\ call' \in [Op -> Call]
           /\ call'[o] = c
           /\ \A p \in Op : p # o => call'[p] = call[p]
BY DEF Set

(***************************************************************************)
(* A call gives its transaction up, by Rollback, to try again or to answer *)
(* with an error.                                                          *)
(***************************************************************************)
\* The ways out of a transaction without committing preserve the invariant.
LEMMA GivenUp ==
    ASSUME IndInv, NEW o \in Op, NEW c \in Call,
           call[o].pc # "done", Rollback(o), Set(o, c),
           c.pc \in {"begin", "done"}, c.code = "none" <=> c.pc # "done", c.code # "ok",
           c.xid = 0, c.snapshot = {}, c.inserted = 0, c.touched = {}, c.token = call[o].token,
           c.before = call[o].before
    PROVE  IndInv'
<1> USE DEF IndInv
<1>1. /\ call' \in [Op -> Call]
      /\ call'[o] = c
      /\ \A p \in Op : p # o => call'[p] = call[p]
  BY SetCall DEF TypeOK
<1>2. /\ next' = next /\ rows' = rows /\ transactions' = transactions
      /\ finished' = IF call[o].xid = 0 THEN finished ELSE finished \cup {call[o].xid}
  BY DEF Rollback
<1>3. TypeOK'
  BY <1>1, <1>2 DEF TypeOK, Call
<1>4. ~InTransaction(o)' /\ \A p \in Op : p # o => (InTransaction(p)' <=> InTransaction(p))
  BY <1>1 DEF InTransaction
<1>5. IdsOK'
  BY <1>1, <1>2, <1>4 DEF IdsOK, TypeOK, Call
<1>6. SnapshotsOK'
  BY <1>1, <1>2 DEF SnapshotsOK, IdsOK, TypeOK, Call
<1>7. RowsOK' /\ TouchedOK'
  BY <1>1, <1>2, <1>4 DEF RowsOK, TouchedOK
<1>8. \A p \in Op : p # o => (Executed(p)' <=> Executed(p))
  BY <1>1, <1>2 DEF Executed, Targets
<1>9. ProgressOK'
  BY <1>1, <1>4, <1>8, StoreAssumption DEF ProgressOK, Tuples, OpType
<1>10. OutcomesOK'
  BY <1>1, <1>2 DEF OutcomesOK, TypeOK, Transaction
<1>11. FreshOK' /\ TokenFresh'
  BY <1>1, <1>2, <1>4 DEF FreshOK, TokenFresh, OutcomesOK
<1>12. InsertsOK'
  BY <1>1, <1>2 DEF InsertsOK
<1>13. \A p \in Op : \A t, u : Inserted(p, t, u)' => p # o /\ Inserted(p, t, u)
  BY <1>1, <1>4 DEF Inserted
<1>14. LiveOnce'
  BY <1>2, <1>13 DEF LiveOnce
<1> QED
  BY <1>3, <1>5, <1>6, <1>7, <1>9, <1>10, <1>11, <1>12, <1>14

(***************************************************************************)
(* The steps of a call that leave the tables alone.                        *)
(***************************************************************************)
\* Duplicate keys, conflicts, deadlocks and failures end in a Rollback.
LEMMA RollbackIndInv ==
    ASSUME IndInv, NEW o \in Op,
           TooMany(o) \/ Duplicate(o) \/ ConcurrentUpdate(o) \/ DependencyConflict(o)
             \/ Deadlock(o) \/ Fail(o)
    PROVE  IndInv'
<1> DEFINE Error == {"failed", "tooMany", "unique", "maxRetries"}
<1>1. call[o] \in Call
  BY DEF IndInv, TypeOK
<1>2. call[o].pc # "done"
  <2>1. CASE Deadlock(o)
    <3>1. WaitsFor(o) # {}
      BY <2>1 DEF Deadlock
    <3> QED
      BY <3>1 DEF WaitsFor, Inserting, Executing
  <2> QED
    BY <2>1 DEF TooMany, Duplicate, ConcurrentUpdate, DependencyConflict, Fail, Inserting,
                Executing
<1>3. call[o].code = "none"
  BY <1>2 DEF IndInv, OutcomesOK
<1>4. \A code \in Error :
        /\ Answer(o, code) \in Call
        /\ Answer(o, code).pc = "done" /\ Answer(o, code).code = code
        /\ Answer(o, code).xid = 0 /\ Answer(o, code).snapshot = {}
        /\ Answer(o, code).inserted = 0 /\ Answer(o, code).touched = {}
        /\ Answer(o, code).token = call[o].token /\ Answer(o, code).before = call[o].before
  BY <1>1 DEF Answer, NoTransaction, Call, Code
<1>5. ASSUME NEW code \in Error, Rollback(o), Set(o, Answer(o, code))
      PROVE  IndInv'
  <2> DEFINE c == Answer(o, code)
  <2>1. c \in Call /\ c.pc \in {"begin", "done"} /\ (c.code = "none" <=> c.pc # "done")
        /\ c.code # "ok" /\ c.xid = 0 /\ c.snapshot = {} /\ c.inserted = 0
        /\ c.touched = {} /\ c.token = call[o].token /\ c.before = call[o].before
    BY <1>4
  <2> HIDE DEF c
  <2>2. Set(o, c)
    BY <1>5 DEF c
  <2> QED
    BY <1>2, <1>5, <2>1, <2>2, GivenUp
<1>6. ASSUME Retry(o) PROVE IndInv'
  <2> DEFINE c == [NoTransaction(o, "begin") EXCEPT !.tries = @ + 1]
  <2>1. CASE call[o].tries = MaxRetries
    BY <1>5, <1>6, <2>1 DEF Retry
  <2>2. CASE call[o].tries # MaxRetries
    <3>1. c \in Call /\ c.pc \in {"begin", "done"} /\ (c.code = "none" <=> c.pc # "done")
          /\ c.code # "ok" /\ c.xid = 0 /\ c.snapshot = {} /\ c.inserted = 0
          /\ c.touched = {} /\ c.token = call[o].token /\ c.before = call[o].before
      <4> DEFINE d == NoTransaction(o, "begin")
      <4>1. d \in Call /\ d.pc = "begin" /\ d.code = "none" /\ d.xid = 0 /\ d.snapshot = {}
            /\ d.inserted = 0 /\ d.touched = {} /\ d.token = call[o].token
            /\ d.before = call[o].before
        BY <1>1, <1>3 DEF NoTransaction, Call
      <4>2. c = [d EXCEPT !.tries = d.tries + 1]
        OBVIOUS
      <4> HIDE DEF c, d
      <4> QED
        BY <4>1, <4>2 DEF Call
    <3>2. Rollback(o) /\ Set(o, c)
      BY <1>6, <2>2 DEF Retry
    <3> HIDE DEF c
    <3> QED
      BY <1>2, <3>1, <3>2, GivenUp
  <2> QED
    BY <2>1, <2>2
<1>7. CASE TooMany(o)
  <2>1. Rollback(o)
    BY <1>7 DEF TooMany, Rollback, IndInv, IdsOK, InTransaction
  <2> QED
    BY <1>5, <1>7, <2>1 DEF TooMany
<1>8. CASE Fail(o)
  <2>1. Rollback(o)
    BY <1>8 DEF Fail, Rollback, IndInv, IdsOK
  <2> QED
    BY <1>5, <1>8, <2>1 DEF Fail
<1>9. CASE Duplicate(o) \/ Deadlock(o)
  BY <1>5, <1>9 DEF Duplicate, Deadlock
<1>10. CASE ConcurrentUpdate(o) \/ DependencyConflict(o)
  BY <1>6, <1>10 DEF ConcurrentUpdate, DependencyConflict
<1> QED
  BY <1>7, <1>8, <1>9, <1>10

\* A call starts, and begins its transaction.
LEMMA BeginIndInv ==
    ASSUME IndInv, NEW o \in Op, Start(o) \/ Begin(o)
    PROVE  IndInv'
<1> USE DEF IndInv
<1>1. call[o] \in Call /\ call \in [Op -> Call]
  BY DEF TypeOK
<1>2. PICK c \in Call :
        /\ Set(o, c)
        /\ c.xid = call[o].xid /\ c.inserted = call[o].inserted /\ c.touched = call[o].touched
        /\ c.code = call[o].code /\ c.token = call[o].token
        /\ \/ /\ c.pc = "begin" /\ call[o].pc = "idle" /\ c.snapshot = call[o].snapshot
              /\ c.before = {call[p].token : p \in Op} \ {0}
           \/ /\ c.pc = "statement" /\ call[o].pc = "begin" /\ c.snapshot = finished
              /\ c.before = call[o].before
  <2>1. CASE Start(o)
    <3> DEFINE d == [call[o] EXCEPT !.pc = "begin", !.before = {call[p].token : p \in Op} \ {0}]
    <3>1. {call[p].token : p \in Op} \ {0} \subseteq Nat
      BY <1>1 DEF Call
    <3>2. d \in Call
      BY <1>1, <3>1 DEF Call
    <3> QED
      BY <1>1, <2>1, <3>2 DEF Start, Call
  <2>2. CASE Begin(o)
    <3>1. [call[o] EXCEPT !.pc = "statement", !.snapshot = finished] \in Call
      BY <1>1 DEF Call, TypeOK
    <3> QED
      BY <1>1, <2>2, <3>1 DEF Begin, Call
  <2> QED
    BY <2>1, <2>2
<1>3. /\ call' \in [Op -> Call]
      /\ call'[o] = c
      /\ \A p \in Op : p # o => call'[p] = call[p]
  BY <1>1, <1>2, SetCall
<1>4. UNCHANGED <<next, rows, transactions, finished>>
  BY DEF Start, Begin
<1>5. call[o].xid = 0 /\ call[o].inserted = 0 /\ call[o].touched = {}
  BY <1>2 DEF IdsOK, ProgressOK, TouchedOK, InTransaction
<1>6. \A p \in Op : p # o => (InTransaction(p)' <=> InTransaction(p))
  BY <1>3 DEF InTransaction
<1>7. TypeOK' /\ IdsOK' /\ SnapshotsOK' /\ RowsOK' /\ TouchedOK'
  BY <1>2, <1>3, <1>4, <1>5, <1>6
  DEF TypeOK, IdsOK, SnapshotsOK, RowsOK, TouchedOK, InTransaction
<1>8. \A p \in Op : p # o => (Executed(p)' <=> Executed(p))
  BY <1>3, <1>4 DEF Executed, Targets
<1>9. ProgressOK'
  BY <1>2, <1>3, <1>5, <1>6, <1>8 DEF ProgressOK, InTransaction
<1>10. \A x \in DOMAIN transactions : transactions[x].op \in Op /\ transactions[x].op # o
  BY <1>2 DEF OutcomesOK, TypeOK, Transaction
<1>11. OutcomesOK' /\ TokenFresh'
  BY <1>2, <1>3, <1>4, <1>10 DEF OutcomesOK, TokenFresh
<1>12. \A p \in Op : call[p].token # 0 => call[p].token \in finished
  BY DEF OutcomesOK, SnapshotsOK
<1>13. FreshOK'
  BY <1>2, <1>3, <1>4, <1>6, <1>12 DEF FreshOK, InTransaction
<1>14. InsertsOK'
  BY <1>2, <1>3, <1>4, <1>5 DEF InsertsOK
<1>15. \A p \in Op : \A t, u : Inserted(p, t, u)' => Inserted(p, t, u)
  BY <1>2, <1>3, <1>5, <1>6 DEF Inserted
<1>16. LiveOnce'
  BY <1>4, <1>15 DEF LiveOnce
<1> QED
  BY <1>7, <1>9, <1>11, <1>13, <1>14, <1>16

\* What the statements of a transaction have in common: they change only the
\* state of the call and assign the transaction its id.
LEMMA StatementStep ==
    ASSUME IndInv, NEW o \in Op, NEW c \in Call, Set(o, c), AssignXid(o),
           UNCHANGED <<rows, transactions, finished>>,
           call[o].pc = "statement", c.pc \in {"statement", "logged"}, c.xid = Xid(o),
           c.snapshot = call[o].snapshot, c.code = call[o].code, c.token = call[o].token,
           c.before = call[o].before
    PROVE  /\ TypeOK' /\ IdsOK' /\ SnapshotsOK' /\ RowsOK' /\ OutcomesOK' /\ FreshOK'
           /\ TokenFresh'
           /\ call'[o] = c
           /\ \A p \in Op : p # o => call'[p] = call[p] /\ (Executed(p)' <=> Executed(p))
           /\ \A p \in Op : InTransaction(p)' <=> InTransaction(p)
<1> USE DEF IndInv
<1>1. /\ call' \in [Op -> Call]
      /\ call'[o] = c
      /\ \A p \in Op : p # o => call'[p] = call[p]
  BY SetCall DEF TypeOK
<1>2. \A p \in Op : InTransaction(p)' <=> InTransaction(p)
  BY <1>1 DEF InTransaction
<1>3. \A p \in Op : p # o => (Executed(p)' <=> Executed(p))
  BY <1>1 DEF Executed, Targets
<1>4. \A p \in Op : call[p].xid \in Nat /\ call[p].xid < next /\ next \in Nat /\ next # 0
  BY DEF IdsOK, TypeOK, Call
<1>5. next' \in Nat \ {0} /\ next <= next' /\ c.xid < next' /\ c.xid # 0
  BY <1>4 DEF AssignXid, Xid
<1>6. c.xid \notin finished /\ \A p \in Op : p # o => call[p].xid # c.xid
  <2>1. next \notin finished
    BY <1>4 DEF SnapshotsOK
  <2> QED
    BY <1>4, <2>1 DEF Xid, IdsOK
<1>7. TypeOK'
  BY <1>1, <1>5 DEF TypeOK
<1>8. \A p \in Op : call[p].xid < next'
  BY <1>4, <1>5
<1>9. IdsOK'
  BY <1>1, <1>2, <1>5, <1>6, <1>8 DEF IdsOK, InTransaction
<1>10. \A x \in finished : x < next'
  <2>1. next \in Nat /\ next' \in Nat /\ \A x \in finished : x \in Nat /\ x < next
    BY <1>5 DEF SnapshotsOK, TypeOK
  <2> QED
    BY <1>5, <2>1
<1>11. SnapshotsOK' /\ RowsOK' /\ FreshOK'
  BY <1>1, <1>2, <1>10 DEF SnapshotsOK, RowsOK, FreshOK
<1>12. \A x \in DOMAIN transactions : transactions[x].op \in Op /\ transactions[x].op # o
  BY DEF OutcomesOK, TypeOK, Transaction
<1>13. OutcomesOK' /\ TokenFresh'
  BY <1>1, <1>12 DEF OutcomesOK, TokenFresh
<1> QED
  BY <1>1, <1>2, <1>3, <1>7, <1>9, <1>11, <1>13

\* A row is inserted: the tuple was live nowhere and no rival is inserting it.
LEMMA InsertIndInv ==
    ASSUME IndInv, NEW o \in Op, Insert(o)
    PROVE  IndInv'
<1> DEFINE c == [call[o] EXCEPT !.xid = Xid(o), !.inserted = @ + 1]
           n == call[o].inserted
<1>1. call[o] \in Call /\ n \in Nat /\ n + 1 \in Nat /\ Xid(o) \in Nat
  BY DEF IndInv, TypeOK, Call, Xid
<1>2. /\ c \in Call /\ c.pc = call[o].pc /\ c.xid = Xid(o) /\ c.inserted = n + 1
      /\ c.snapshot = call[o].snapshot /\ c.code = call[o].code /\ c.token = call[o].token
      /\ c.before = call[o].before /\ c.touched = call[o].touched
  <2>1. c = [call[o] EXCEPT !.xid = Xid(o), !.inserted = n + 1]
    OBVIOUS
  <2> HIDE DEF c, n
  <2> QED
    BY <1>1, <2>1 DEF Call
<1>3. Set(o, c) /\ AssignXid(o) /\ UNCHANGED <<rows, transactions, finished>>
  BY DEF Insert
<1>4. /\ call[o].pc = "statement" /\ Kind(o) = "write" /\ n < Len(Tuples(o))
      /\ WaitsFor(o) = {} /\ Duplicates(o) = {}
      /\ ~Inserted(o, OpDef[o].tenant, NextTuple(o))
  BY DEF Insert, Inserting, Executing
<1> HIDE DEF c
<1>5. /\ TypeOK' /\ IdsOK' /\ SnapshotsOK' /\ RowsOK' /\ OutcomesOK' /\ FreshOK' /\ TokenFresh'
      /\ call'[o] = c
      /\ \A p \in Op : p # o => call'[p] = call[p] /\ (Executed(p)' <=> Executed(p))
      /\ \A p \in Op : InTransaction(p)' <=> InTransaction(p)
  BY <1>2, <1>3, <1>4, StatementStep
<1>6. TouchedOK'
  BY <1>2, <1>3, <1>5 DEF IndInv, TouchedOK
<1>7. Len(Tuples(o)) \in Nat
  BY StoreAssumption DEF Tuples, OpType
<1>8. n + 1 \in 0 .. Len(Tuples(o))
  BY <1>1, <1>4, <1>7
<1>9. ProgressOK'
  BY <1>2, <1>4, <1>5, <1>8 DEF IndInv, ProgressOK, InTransaction
<1>10. InTransaction(o)
  BY <1>4 DEF InTransaction
<1>11. NextTuple(o) = Tuples(o)[n + 1]
  BY DEF NextTuple
<1>12. \A i \in 1 .. n + 1 : i = n + 1 \/ i \in 1 .. n
  BY <1>1
<1>13. \A i \in 1 .. n : Tuples(o)[i] # Tuples(o)[n + 1]
  BY <1>4, <1>10, <1>11 DEF Inserted
<1>14. \A r \in rows : r.tenant = OpDef[o].tenant /\ r.tuple = Tuples(o)[n + 1] => r.expired # 0
  BY <1>4, <1>11 DEF Duplicates
<1>15. InsertsOK'
  BY <1>2, <1>3, <1>5, <1>12, <1>13, <1>14 DEF IndInv, InsertsOK
<1>16. \A p \in Op : p # o => ~Inserted(p, OpDef[o].tenant, Tuples(o)[n + 1])
  BY <1>4, <1>8, <1>11 DEF WaitsFor, Inserting, Executing
<1>17. \A p \in Op : \A t \in Tenant, u \in Tuple : Inserted(p, t, u)' =>
        \/ Inserted(p, t, u)
        \/ p = o /\ t = OpDef[o].tenant /\ u = Tuples(o)[n + 1]
  BY <1>2, <1>5, <1>12 DEF Inserted
<1>18. LiveOnce'
  BY <1>3, <1>16, <1>17 DEF IndInv, LiveOnce
<1> QED
  BY <1>5, <1>6, <1>9, <1>15, <1>18 DEF IndInv

\* A row is expired: nobody else has touched it.
LEMMA ExpireIndInv ==
    ASSUME IndInv, NEW o \in Op, NEW r \in rows, Expire(o, r)
    PROVE  IndInv'
<1> DEFINE c == [call[o] EXCEPT !.xid = Xid(o), !.touched = @ \cup {r}]
<1>1. call[o] \in Call /\ Xid(o) \in Nat /\ r \in Row
  BY DEF IndInv, TypeOK, Call, Xid
<1>2. /\ c \in Call /\ c.pc = call[o].pc /\ c.xid = Xid(o) /\ c.inserted = call[o].inserted
      /\ c.snapshot = call[o].snapshot /\ c.code = call[o].code /\ c.token = call[o].token
      /\ c.before = call[o].before /\ c.touched = call[o].touched \cup {r}
  BY <1>1 DEF Call
<1>3. Set(o, c) /\ AssignXid(o) /\ UNCHANGED <<rows, transactions, finished>>
  BY DEF Expire
<1>4. /\ call[o].pc = "statement" /\ Kind(o) = "delete" /\ r.expired = 0
      /\ \A p \in Op \ {o} : ~Touched(p, r)
  BY DEF Expire, Executing
<1> HIDE DEF c
<1>5. /\ TypeOK' /\ IdsOK' /\ SnapshotsOK' /\ RowsOK' /\ OutcomesOK' /\ FreshOK' /\ TokenFresh'
      /\ call'[o] = c
      /\ \A p \in Op : p # o => call'[p] = call[p] /\ (Executed(p)' <=> Executed(p))
      /\ \A p \in Op : InTransaction(p)' <=> InTransaction(p)
  BY <1>2, <1>3, <1>4, StatementStep
<1>6. \A p \in Op : p # o => r \notin call[p].touched
  BY <1>4 DEF IndInv, TouchedOK, Touched
<1>7. InTransaction(o)
  BY <1>4 DEF InTransaction
<1>8. TouchedOK'
  BY <1>2, <1>3, <1>4, <1>5, <1>6, <1>7 DEF IndInv, TouchedOK
<1>9. ProgressOK' /\ InsertsOK'
  BY <1>2, <1>3, <1>4, <1>5 DEF IndInv, ProgressOK, InsertsOK
<1>10. \A p \in Op : \A t, u : Inserted(p, t, u)' <=> Inserted(p, t, u)
  BY <1>2, <1>5 DEF Inserted
<1>11. LiveOnce'
  BY <1>3, <1>10 DEF IndInv, LiveOnce
<1> QED
  BY <1>5, <1>8, <1>9, <1>11 DEF IndInv

\* The transaction is logged when its statement is done.
LEMMA LogIndInv ==
    ASSUME IndInv, NEW o \in Op, Log(o)
    PROVE  IndInv'
<1> DEFINE c == [call[o] EXCEPT !.pc = "logged", !.xid = Xid(o)]
<1>1. call[o] \in Call /\ Xid(o) \in Nat
  BY DEF IndInv, TypeOK, Call, Xid
<1>2. /\ c \in Call /\ c.pc = "logged" /\ c.xid = Xid(o) /\ c.inserted = call[o].inserted
      /\ c.snapshot = call[o].snapshot /\ c.code = call[o].code /\ c.token = call[o].token
      /\ c.before = call[o].before /\ c.touched = call[o].touched
  BY <1>1 DEF Call
<1>3. /\ Set(o, c) /\ AssignXid(o) /\ UNCHANGED <<rows, transactions, finished>>
      /\ call[o].pc = "statement" /\ Executed(o)
  BY DEF Log
<1> HIDE DEF c
<1>4. /\ TypeOK' /\ IdsOK' /\ SnapshotsOK' /\ RowsOK' /\ OutcomesOK' /\ FreshOK' /\ TokenFresh'
      /\ call'[o] = c
      /\ \A p \in Op : p # o => call'[p] = call[p] /\ (Executed(p)' <=> Executed(p))
      /\ \A p \in Op : InTransaction(p)' <=> InTransaction(p)
  BY <1>2, <1>3, StatementStep
<1>5. TouchedOK' /\ InsertsOK'
  BY <1>2, <1>3, <1>4 DEF IndInv, TouchedOK, InsertsOK
<1>6. Executed(o)'
  BY <1>2, <1>3, <1>4 DEF Executed, Targets
<1>7. ProgressOK'
  BY <1>2, <1>4, <1>6 DEF IndInv, ProgressOK
<1>8. \A p \in Op : \A t, u : Inserted(p, t, u)' <=> Inserted(p, t, u)
  BY <1>2, <1>4 DEF Inserted
<1>9. LiveOnce'
  BY <1>3, <1>8 DEF IndInv, LiveOnce
<1> QED
  BY <1>4, <1>5, <1>7, <1>9 DEF IndInv

(***************************************************************************)
(* Commits.                                                                *)
(***************************************************************************)
\* Where the rows of the table come from after a commit, and where they go.
LEMMA AppliedRows ==
    ASSUME IndInv, NEW o \in Op, call[o].pc = "logged", Apply(o)
    PROVE  /\ rows' \subseteq Row
           /\ \A r \in rows' :
                \/ r \in rows /\ r \notin call[o].touched
                \/ \E q \in call[o].touched :
                     /\ q \in rows /\ q.expired = 0 /\ r.expired = call[o].xid
                     /\ r.tenant = q.tenant /\ r.tuple = q.tuple /\ r.created = q.created
                \/ \E k \in 1 .. call[o].inserted :
                     /\ r.tenant = OpDef[o].tenant /\ r.tuple = Tuples(o)[k]
                     /\ r.created = call[o].xid /\ r.expired = 0
           /\ \A r \in rows : r \notin call[o].touched => r \in rows'
           /\ \A q \in call[o].touched : \E r \in rows' :
                 /\ r.expired = call[o].xid
                 /\ r.tenant = q.tenant /\ r.tuple = q.tuple /\ r.created = q.created
           /\ \A k \in 1 .. call[o].inserted : \E r \in rows' :
                 /\ r.tenant = OpDef[o].tenant /\ r.tuple = Tuples(o)[k]
                 /\ r.created = call[o].xid /\ r.expired = 0
<1> DEFINE x == call[o].xid
           Old == rows \ call[o].touched
           Expired == {[r EXCEPT !.expired = x] : r \in call[o].touched}
           NewRow(k) == [tenant |-> OpDef[o].tenant, tuple |-> Tuples(o)[k],
                         created |-> x, expired |-> 0]
           New == {NewRow(k) : k \in 1 .. call[o].inserted}
<1>1. call[o] \in Call /\ x \in Nat /\ call[o].inserted \in 0 .. Len(Tuples(o))
  BY DEF IndInv, TypeOK, Call, ProgressOK
<1>2. rows' = Old \cup Expired \cup New
  BY DEF Apply
<1>3. \A q \in call[o].touched : q \in rows /\ q \in Row /\ q.expired = 0
  BY DEF IndInv, TypeOK, TouchedOK
<1>4. \A q \in call[o].touched : LET r == [q EXCEPT !.expired = x] IN
        /\ r \in Row /\ r.expired = x
        /\ r.tenant = q.tenant /\ r.tuple = q.tuple /\ r.created = q.created
  BY <1>1, <1>3 DEF Row
<1>5. \A k \in 1 .. call[o].inserted : OpDef[o].tenant \in Tenant /\ Tuples(o)[k] \in Tuple
  BY <1>1, StoreAssumption DEF Tuples, OpType
<1>6. \A k \in 1 .. call[o].inserted :
        /\ NewRow(k) \in Row /\ NewRow(k).expired = 0 /\ NewRow(k).created = x
        /\ NewRow(k).tenant = OpDef[o].tenant /\ NewRow(k).tuple = Tuples(o)[k]
  BY <1>1, <1>5 DEF Row
<1>7. rows \subseteq Row
  BY DEF IndInv, TypeOK
<1> HIDE DEF NewRow
<1>8. rows' \subseteq Row
  BY <1>2, <1>4, <1>6, <1>7
<1>9. ASSUME NEW r \in rows'
      PROVE  \/ r \in rows /\ r \notin call[o].touched
             \/ \E q \in call[o].touched :
                  /\ q \in rows /\ q.expired = 0 /\ r.expired = call[o].xid
                  /\ r.tenant = q.tenant /\ r.tuple = q.tuple /\ r.created = q.created
             \/ \E k \in 1 .. call[o].inserted :
                  /\ r.tenant = OpDef[o].tenant /\ r.tuple = Tuples(o)[k]
                  /\ r.created = call[o].xid /\ r.expired = 0
  <2>1. CASE r \in Old
    BY <2>1
  <2>2. CASE r \in Expired
    BY <2>2, <1>3, <1>4
  <2>3. CASE r \in New
    BY <2>3, <1>6
  <2> QED
    BY <1>2, <2>1, <2>2, <2>3
<1>10. \A r \in rows : r \notin call[o].touched => r \in rows'
  BY <1>2
<1>11. ASSUME NEW q \in call[o].touched
       PROVE  \E r \in rows' : /\ r.expired = call[o].xid
                               /\ r.tenant = q.tenant /\ r.tuple = q.tuple
                               /\ r.created = q.created
  <2>1. [q EXCEPT !.expired = x] \in rows'
    BY <1>2
  <2> QED
    BY <2>1, <1>4
<1>12. ASSUME NEW k \in 1 .. call[o].inserted
       PROVE  \E r \in rows' : /\ r.tenant = OpDef[o].tenant /\ r.tuple = Tuples(o)[k]
                               /\ r.created = call[o].xid /\ r.expired = 0
  <2>1. NewRow(k) \in rows'
    BY <1>2
  <2> QED
    BY <2>1, <1>6
<1> QED
  BY <1>8, <1>9, <1>10, <1>11, <1>12

\* The transactions table after a commit.
LEMMA AppliedTransactions ==
    ASSUME IndInv, NEW o \in Op, call[o].pc = "logged", Apply(o)
    PROVE  /\ DOMAIN transactions' = DOMAIN transactions \cup {call[o].xid}
           /\ call[o].xid \notin DOMAIN transactions
           /\ call[o].xid # 0 /\ call[o].xid \notin finished
           /\ \A y \in DOMAIN transactions : transactions'[y] = transactions[y]
           /\ transactions'[call[o].xid] =
                [tenant |-> OpDef[o].tenant, snapshot |-> call[o].snapshot, op |-> o]
           /\ transactions'[call[o].xid].snapshot = call[o].snapshot
           /\ transactions'[call[o].xid].op = o
<1>1. call[o].xid # 0 /\ call[o].xid \notin finished
  BY DEF IndInv, IdsOK
<1>2. call[o].xid \notin DOMAIN transactions
  BY <1>1 DEF IndInv, SnapshotsOK
<1> QED
  BY <1>1, <1>2 DEF Apply

\* A committed transaction preserves the invariant, whether or not the client
\* learns of it.
LEMMA ApplyIndInv ==
    ASSUME IndInv, NEW o \in Op, NEW c \in Call, call[o].pc = "logged", Apply(o), Set(o, c),
           c.pc = "done", c.xid = 0, c.snapshot = {}, c.inserted = 0, c.touched = {},
           c.before = call[o].before,
           \/ c.code = "ok" /\ c.token = call[o].xid
           \/ c.code = "failed" /\ c.token = 0
    PROVE  IndInv'
<1> DEFINE x == call[o].xid
<1>1. /\ call' \in [Op -> Call]
      /\ call'[o] = c
      /\ \A p \in Op : p # o => call'[p] = call[p]
  BY SetCall DEF IndInv, TypeOK
<1>2. /\ DOMAIN transactions' = DOMAIN transactions \cup {x}
      /\ x \notin DOMAIN transactions /\ x # 0 /\ x \notin finished
      /\ \A y \in DOMAIN transactions : transactions'[y] = transactions[y]
      /\ transactions'[x] = [tenant |-> OpDef[o].tenant, snapshot |-> call[o].snapshot, op |-> o]
  BY AppliedTransactions
<1>3. finished' = finished \cup {x} /\ next' = next
  BY DEF Apply
<1>4. call[o] \in Call /\ x \in Nat /\ x < next
  BY DEF IndInv, TypeOK, IdsOK, Call
<1>5. TypeOK'
  <2>1. rows' \subseteq Row
    BY AppliedRows
  <2>2. transactions'[x] \in Transaction
    BY <1>2, <1>4, StoreAssumption DEF Transaction, Call, OpType
  <2>3. \A y \in DOMAIN transactions' : transactions'[y] \in Transaction
    BY <1>2, <2>2 DEF IndInv, TypeOK
  <2> QED
    BY <1>1, <1>2, <1>3, <1>4, <2>1, <2>3 DEF IndInv, TypeOK
<1>6. ~InTransaction(o)' /\ \A p \in Op : p # o => (InTransaction(p)' <=> InTransaction(p))
  BY <1>1 DEF InTransaction
<1>7. IdsOK'
  <2>1. \A p \in Op : p # o /\ call[p].xid # 0 => call[p].xid # x
    BY <1>2 DEF IndInv, IdsOK
  <2> QED
    BY <1>1, <1>3, <1>4, <1>6, <2>1 DEF IndInv, IdsOK, TypeOK
<1>8. SnapshotsOK'
  <2>1. \A y \in DOMAIN transactions' : transactions'[y].snapshot \subseteq finished
    BY <1>2 DEF IndInv, SnapshotsOK
  <2> QED
    BY <1>1, <1>2, <1>3, <1>4, <2>1 DEF IndInv, SnapshotsOK
<1>9. RowsOK'
  BY <1>2, AppliedRows DEF IndInv, RowsOK
<1>10. \A p \in Op : \A r \in call'[p].touched : p # o /\ r \in call[p].touched
  BY <1>1
<1>11. TouchedOK'
  BY <1>1, <1>6, <1>10, AppliedRows DEF IndInv, TouchedOK
<1>12. ASSUME NEW p \in Op, p # o, call[p].pc = "logged", Kind(p) = "delete"
       PROVE  Targets(p)' = {}
  <2>1. Targets(p) = {}
    BY <1>12 DEF IndInv, ProgressOK, Executed
  <2>2. call'[p] = call[p] /\ x \notin call[p].snapshot
    BY <1>1, <1>2, <1>12 DEF IndInv, SnapshotsOK
  <2>3. \A q \in call[o].touched : q \in rows /\ q.expired = 0 /\ q \notin call[p].touched
    BY <1>12 DEF IndInv, TouchedOK
  <2>4. ASSUME NEW r \in rows', Matches(p, r), r.created \in call[p].snapshot,
               r.expired = 0 \/ r.expired \notin call[p].snapshot
        PROVE  r \in call[p].touched
    <3>1. CASE r \in rows
      BY <2>1, <2>4, <3>1 DEF Targets
    <3>2. ASSUME NEW q \in call[o].touched, q \in rows, q.expired = 0,
                 r.tuple = q.tuple, r.created = q.created
          PROVE  FALSE
      <4>1. Matches(p, q)
        BY <2>4, <3>2 DEF Matches
      <4> QED
        BY <2>1, <2>3, <2>4, <3>2, <4>1 DEF Targets
    <3>3. r.created # x
      BY <2>2, <2>4
    <3> QED
      BY <3>1, <3>2, <3>3, AppliedRows
  <2>5. \A r : Matches(p, r)' <=> Matches(p, r)
    BY DEF Matches, Tuples
  <2> QED
    BY <2>2, <2>4, <2>5 DEF Targets
<1>13. \A p \in Op : p # o /\ call[p].pc = "logged" => Executed(p)'
  <2>1. \A p \in Op : Kind(p) \in {"write", "delete"}
    BY StoreAssumption DEF Kind, OpType
  <2> QED
    BY <1>1, <1>12, <2>1 DEF IndInv, ProgressOK, Executed
<1>14. 0 \in 0 .. Len(Tuples(o))
  BY StoreAssumption DEF Tuples, OpType
<1>15. ProgressOK'
  BY <1>1, <1>6, <1>13, <1>14 DEF IndInv, ProgressOK
<1>16. \A y \in DOMAIN transactions : transactions[y].op \in Op /\ transactions[y].op # o
  BY DEF IndInv, OutcomesOK, TypeOK, Transaction
<1>17. transactions'[x].op = o /\ transactions'[x].snapshot = call[o].snapshot
  BY <1>2
<1>18. OutcomesOK'
  BY <1>1, <1>2, <1>16, <1>17 DEF IndInv, OutcomesOK
<1>19. FreshOK'
  BY <1>1, <1>3, <1>6 DEF IndInv, FreshOK
<1>20. TokenFresh'
  <2>1. call[o].before \subseteq call[o].snapshot
    BY DEF IndInv, FreshOK, InTransaction
  <2> QED
    BY <1>1, <1>2, <1>17, <2>1 DEF IndInv, TokenFresh, OutcomesOK
<1>21. InTransaction(o) /\ OpDef[o].tenant \in Tenant
       /\ \A k \in 1 .. call[o].inserted : Tuples(o)[k] \in Tuple
  BY StoreAssumption DEF InTransaction, IndInv, ProgressOK, Tuples, OpType
<1>22. \A k \in 1 .. call[o].inserted : Inserted(o, OpDef[o].tenant, Tuples(o)[k])
  BY <1>21 DEF Inserted
<1>23. InsertsOK'
  <2> SUFFICES ASSUME NEW p \in Op, NEW k \in 1 .. call'[p].inserted
               PROVE  /\ \A r \in rows' : r.tenant = OpDef[p].tenant /\ r.tuple = Tuples(p)[k]
                                            => r.expired # 0
                      /\ \A j \in 1 .. call'[p].inserted : Tuples(p)[k] = Tuples(p)[j] => k = j
    BY DEF InsertsOK, Tuples
  <2>1. p # o /\ call'[p] = call[p] /\ k \in 1 .. call[p].inserted
    BY <1>1
  <2>2. InTransaction(p) /\ OpDef[p].tenant \in Tenant /\ Tuples(p)[k] \in Tuple
    BY <2>1, StoreAssumption DEF IndInv, ProgressOK, Tuples, OpType
  <2>3. Inserted(p, OpDef[p].tenant, Tuples(p)[k])
    BY <2>1, <2>2 DEF Inserted
  <2>4. ~Inserted(o, OpDef[p].tenant, Tuples(p)[k])
    BY <2>1, <2>2, <2>3 DEF IndInv, LiveOnce
  <2>5. \A j \in 1 .. call[o].inserted :
            ~(OpDef[o].tenant = OpDef[p].tenant /\ Tuples(o)[j] = Tuples(p)[k])
    BY <1>22, <2>4
  <2>6. ASSUME NEW r \in rows', r.tenant = OpDef[p].tenant, r.tuple = Tuples(p)[k]
        PROVE  r.expired # 0
    BY <1>2, <2>1, <2>5, <2>6, AppliedRows DEF IndInv, InsertsOK
  <2> QED
    BY <2>1, <2>6 DEF IndInv, InsertsOK
<1>24. LiveOnce'
  <2>1. ASSUME NEW r \in rows', NEW q \in rows', r.expired = 0, q.expired = 0,
               r.tenant = q.tenant, r.tuple = q.tuple
        PROVE  r = q
    <3> DEFINE IsNew(s) == \E k \in 1 .. call[o].inserted :
                              /\ s.tenant = OpDef[o].tenant /\ s.tuple = Tuples(o)[k]
                              /\ s.created = x /\ s.expired = 0
    <3>1. \A s \in rows' : s.expired = 0 => (s \in rows \/ IsNew(s))
      BY <1>2, AppliedRows
    <3>2. \A s \in rows' : IsNew(s) => \A u \in rows :
                u.tenant = s.tenant /\ u.tuple = s.tuple => u.expired # 0
      BY DEF IndInv, InsertsOK
    <3>3. r \in Row /\ q \in Row
      BY AppliedRows
    <3>4. CASE r \in rows /\ q \in rows
      BY <2>1, <3>4 DEF IndInv, LiveOnce
    <3>5. CASE IsNew(r) /\ IsNew(q)
      <4>1. r.created = q.created
        BY <3>5
      <4> QED
        BY <2>1, <3>3, <4>1 DEF Row
    <3> HIDE DEF IsNew
    <3> QED
      BY <2>1, <3>1, <3>2, <3>4, <3>5
  <2>2. \A p \in Op : \A t, u : Inserted(p, t, u)' => p # o /\ Inserted(p, t, u)
    BY <1>1, <1>6 DEF Inserted
  <2> QED
    BY <2>1, <2>2 DEF IndInv, LiveOnce
<1> QED
  BY <1>5, <1>7, <1>8, <1>9, <1>11, <1>15, <1>18, <1>19, <1>20, <1>23, <1>24 DEF IndInv

\* The call records the two ways a commit leaves behind.
LEMMA CommitAnswers ==
    ASSUME IndInv, NEW o \in Op, Commit(o) \/ CommitLost(o)
    PROVE  \E c \in Call :
             /\ call[o].pc = "logged" /\ Apply(o) /\ Set(o, c)
             /\ c.pc = "done" /\ c.xid = 0 /\ c.snapshot = {} /\ c.inserted = 0
             /\ c.touched = {} /\ c.before = call[o].before
             /\ \/ c.code = "ok" /\ c.token = call[o].xid
                \/ c.code = "failed" /\ c.token = 0
<1>1. call[o] \in Call
  BY DEF IndInv, TypeOK
<1>2. CASE Commit(o)
  <2> DEFINE d == Answer(o, "ok")
             c == [d EXCEPT !.token = call[o].xid]
  <2>1. /\ d \in Call /\ d.pc = "done" /\ d.xid = 0 /\ d.snapshot = {} /\ d.inserted = 0
        /\ d.touched = {} /\ d.before = call[o].before /\ d.code = "ok"
    BY <1>1 DEF Answer, NoTransaction, Call, Code
  <2>2. call[o].xid \in Nat
    BY <1>1 DEF Call
  <2>3. call[o].pc = "logged" /\ Apply(o) /\ Set(o, c)
    BY <1>2 DEF Commit
  <2> HIDE DEF d
  <2>4. /\ c \in Call /\ c.pc = "done" /\ c.xid = 0 /\ c.snapshot = {} /\ c.inserted = 0
        /\ c.touched = {} /\ c.before = call[o].before /\ c.code = "ok"
        /\ c.token = call[o].xid
    BY <2>1, <2>2 DEF Call
  <2> QED
    BY <2>3, <2>4
<1>3. CASE CommitLost(o)
  <2> DEFINE c == Answer(o, "failed")
  <2>1. call[o].pc = "logged" /\ Apply(o) /\ Set(o, c)
    BY <1>3 DEF CommitLost
  <2>2. call[o].token = 0
    BY <2>1 DEF IndInv, OutcomesOK
  <2>3. /\ c \in Call /\ c.pc = "done" /\ c.xid = 0 /\ c.snapshot = {} /\ c.inserted = 0
        /\ c.touched = {} /\ c.before = call[o].before /\ c.code = "failed" /\ c.token = 0
    BY <1>1, <2>2 DEF Answer, NoTransaction, Call, Code
  <2> QED
    BY <2>1, <2>3
<1> QED
  BY <1>2, <1>3

\* Every step preserves the inductive invariant.
LEMMA NextIndInv == IndInv /\ [Next]_vars => IndInv'
<1> SUFFICES ASSUME IndInv, [Next]_vars PROVE IndInv'
  OBVIOUS
<1>1. CASE UNCHANGED vars
  BY <1>1 DEF vars, IndInv, TypeOK, IdsOK, SnapshotsOK, RowsOK, TouchedOK, ProgressOK,
              OutcomesOK, FreshOK, InsertsOK, LiveOnce, TokenFresh, Inserted, InTransaction,
              Executed, Targets
<1>2. CASE Next
  <2>1. PICK o \in Op : \/ TooMany(o) \/ Start(o) \/ Step(o)
                        \/ DependencyConflict(o) \/ CommitLost(o) \/ Fail(o)
    BY <1>2 DEF Next
  <2>2. CASE Start(o) \/ Begin(o)
    BY <2>2, BeginIndInv
  <2>3. CASE Insert(o)
    BY <2>3, InsertIndInv
  <2>4. ASSUME NEW r \in rows, Expire(o, r) PROVE IndInv'
    BY <2>4, ExpireIndInv
  <2>5. CASE Log(o)
    BY <2>5, LogIndInv
  <2>6. CASE TooMany(o) \/ Duplicate(o) \/ ConcurrentUpdate(o) \/ DependencyConflict(o)
               \/ Deadlock(o) \/ Fail(o)
    BY <2>6, RollbackIndInv
  <2>7. CASE Commit(o) \/ CommitLost(o)
    BY <2>7, CommitAnswers, ApplyIndInv
  <2> QED
    BY <2>1, <2>2, <2>3, <2>4, <2>5, <2>6, <2>7 DEF Step
<1> QED
  BY <1>1, <1>2

\* The inductive invariant holds in every reachable state.
THEOREM StoreInvariance == Spec => []IndInv
BY InitIndInv, NextIndInv, PTL DEF Spec

\* The writer keeps the types of its variables and of the tables.
THEOREM StoreTypeCorrect == Spec => []TypeOK
<1>1. IndInv => TypeOK
  BY DEF IndInv
<1> QED
  BY <1>1, StoreInvariance, PTL

\* Concurrent writers and deleters never leave a tenant with the same tuple
\* live twice.
THEOREM UniqueTuples == Spec => []LiveOnce
<1>1. IndInv => LiveOnce
  BY DEF IndInv
<1> QED
  BY <1>1, StoreInvariance, PTL

\* The token of an acknowledged call reads from a snapshot that contains every
\* transaction acknowledged before the call.
THEOREM TokensFresh == Spec => []TokenFresh
<1>1. IndInv => TokenFresh
  BY DEF IndInv
<1> QED
  BY <1>1, StoreInvariance, PTL

(***************************************************************************)
(* The store implements SnapTokens.                                        *)
(***************************************************************************)
\* What a token shows does not change when a transaction commits.
LEMMA ViewStable ==
    ASSUME IndInv, NEW o \in Op, call[o].pc = "logged", Apply(o),
           NEW t, NEW y \in DOMAIN transactions
    PROVE  View(t, y)' = View(t, y)
<1> DEFINE x == call[o].xid
<1>1. /\ DOMAIN transactions' = DOMAIN transactions \cup {x}
      /\ x \notin DOMAIN transactions /\ x # 0 /\ x \notin finished
      /\ \A z \in DOMAIN transactions : transactions'[z] = transactions[z]
  BY AppliedTransactions
<1>2. x \notin transactions[y].snapshot /\ x # y /\ y # 0
  BY <1>1 DEF IndInv, SnapshotsOK
<1>3. \A r : SnapshotQuery(r, y)' <=> SnapshotQuery(r, y)
  BY <1>1 DEF SnapshotQuery, Visible, Invisible
<1>4. \A r : r.created = x => ~SnapshotQuery(r, y)
  BY <1>2 DEF SnapshotQuery, Visible
<1>5. ASSUME NEW r, NEW q, q.expired = 0, r.expired = x, r.created = q.created
      PROVE  SnapshotQuery(r, y) <=> SnapshotQuery(q, y)
  BY <1>2, <1>5 DEF SnapshotQuery, Invisible
<1>6. ASSUME NEW r \in rows', r.tenant = t, SnapshotQuery(r, y)
      PROVE  \E q \in rows : q.tenant = t /\ SnapshotQuery(q, y) /\ q.tuple = r.tuple
  BY <1>4, <1>5, <1>6, AppliedRows
<1>7. ASSUME NEW q \in rows, q.tenant = t, SnapshotQuery(q, y)
      PROVE  \E r \in rows' : r.tenant = t /\ SnapshotQuery(r, y) /\ r.tuple = q.tuple
  <2>1. CASE q \in call[o].touched
    <3>1. q.expired = 0
      BY <2>1 DEF IndInv, TouchedOK
    <3> QED
      BY <1>5, <1>7, <2>1, <3>1, AppliedRows
  <2>2. CASE q \notin call[o].touched
    BY <1>7, <2>2, AppliedRows
  <2> QED
    BY <2>1, <2>2
<1> QED
  BY <1>3, <1>6, <1>7 DEF View

\* The token of a write shows its tuples, the token of a delete hides them.
LEMMA TokenKept ==
    ASSUME IndInv, NEW o \in Op, call[o].pc = "logged", Apply(o), NEW x, x = call[o].xid
    PROVE  LET shown == View(OpDef[o].tenant, x)' IN
           IF OpDef[o].kind = "write"
           THEN \A k \in DOMAIN Tuples(o) : Tuples(o)[k] \in shown
           ELSE \A k \in DOMAIN Tuples(o) : Tuples(o)[k] \notin shown
<1> DEFINE t == OpDef[o].tenant
<1>1. /\ x \in DOMAIN transactions' /\ x \notin DOMAIN transactions /\ x # 0
      /\ x \notin finished /\ transactions'[x].snapshot = call[o].snapshot
  BY AppliedTransactions
<1>2. Executed(o)
  BY DEF IndInv, ProgressOK
<1>3. DOMAIN Tuples(o) = 1 .. Len(Tuples(o))
  BY StoreAssumption DEF Tuples, OpType
<1>4. CASE Kind(o) = "write"
  <2>1. call[o].inserted = Len(Tuples(o))
    BY <1>2, <1>4 DEF Executed
  <2>2. ASSUME NEW k \in DOMAIN Tuples(o) PROVE Tuples(o)[k] \in View(t, x)'
    <3>1. PICK r \in rows' : /\ r.tenant = t /\ r.tuple = Tuples(o)[k]
                             /\ r.created = x /\ r.expired = 0
      BY <1>3, <2>1, AppliedRows
    <3>2. SnapshotQuery(r, x)'
      BY <1>1, <3>1 DEF SnapshotQuery
    <3> QED
      BY <3>1, <3>2 DEF View
  <2> QED
    BY <1>4, <2>2 DEF Kind
<1>5. CASE Kind(o) # "write"
  <2>1. Kind(o) = "delete"
    BY <1>5, StoreAssumption DEF Kind, OpType
  <2>2. Targets(o) = {} /\ call[o].inserted = 0
    BY <1>2, <2>1 DEF Executed, IndInv, ProgressOK
  <2>3. ASSUME NEW k \in DOMAIN Tuples(o), Tuples(o)[k] \in View(t, x)' PROVE FALSE
    <3>1. PICK r \in rows' : r.tuple = Tuples(o)[k] /\ SnapshotQuery(r, x)'
      BY <2>3 DEF View
    <3>2. /\ r.created \in call[o].snapshot \/ r.created = x
          /\ r.expired \notin call[o].snapshot \/ r.expired = 0
          /\ r.expired # x
      BY <1>1, <3>1 DEF SnapshotQuery, Visible, Invisible
    <3>3. r \in rows /\ r \notin call[o].touched
      BY <2>2, <3>2, AppliedRows
    <3>4. r.created \in call[o].snapshot
      BY <1>1, <3>2, <3>3 DEF IndInv, RowsOK
    <3>5. Matches(o, r)
      BY <3>1 DEF Matches
    <3>6. r \in Targets(o)
      BY <3>2, <3>3, <3>4, <3>5 DEF Targets
    <3> QED
      BY <2>2, <3>6
  <2> QED
    BY <1>5, <2>3 DEF Kind
<1> QED
  BY <1>4, <1>5

\* A commit publishes a token.
LEMMA CommitPublishes ==
    ASSUME IndInv, NEW o \in Op, Commit(o) \/ CommitLost(o)
    PROVE  \E x \in DOMAIN Published' : Tokens!Publish(o, x)
<1>0. PICK x : x = call[o].xid
  OBVIOUS
<1>1. PICK c \in Call :
        /\ call[o].pc = "logged" /\ Apply(o) /\ Set(o, c)
        /\ \/ c.code = "ok" /\ c.token = x
           \/ c.code = "failed" /\ c.token = 0
  BY <1>0, CommitAnswers
<1>2. /\ DOMAIN transactions' = DOMAIN transactions \cup {x}
      /\ x \notin DOMAIN transactions
      /\ \A y \in DOMAIN transactions : transactions'[y] = transactions[y]
      /\ transactions'[x].op = o
  BY <1>0, <1>1, AppliedTransactions
<1>3. /\ call'[o] = c
      /\ \A p \in Op : p # o => call'[p] = call[p]
  BY <1>1, SetCall DEF IndInv, TypeOK
<1>4. Tokens!Pending(o)
  <2>1. call[o].code = "none"
    BY <1>1 DEF IndInv, OutcomesOK
  <2>2. \A y \in DOMAIN transactions : transactions[y].op # o
    BY <1>1 DEF IndInv, OutcomesOK
  <2> QED
    BY <2>1, <2>2 DEF Tokens!Pending, Published, Outcome
<1>5. \A y \in DOMAIN Published : Published'[y] = Published[y]
  <2>1. \A y \in DOMAIN transactions, t \in Tenant : View(t, y)' = View(t, y)
    BY <1>1, ViewStable
  <2> QED
    BY <1>2, <2>1 DEF Published
<1>6. DOMAIN Published' = DOMAIN Published \cup {x} /\ x \notin DOMAIN Published
  BY <1>2 DEF Published
<1>7. Published'[x].op = o /\ \A t \in Tenant : Published'[x].view[t] = View(t, x)'
  BY <1>2 DEF Published
<1>8. Tokens!Kept(o, Published'[x].view)
  <2>1. OpDef[o].tenant \in Tenant
    BY StoreAssumption DEF OpType
  <2>2. Published'[x].view[OpDef[o].tenant] = View(OpDef[o].tenant, x)'
    BY <1>7, <2>1
  <2> QED
    BY <1>0, <1>1, <2>2, TokenKept DEF Tokens!Kept, Tokens!Elements, Tuples
<1>9. \/ Outcome' = [Outcome EXCEPT ![o] = [code |-> "ok", token |-> x]]
      \/ Outcome' = [Outcome EXCEPT ![o] = [code |-> "failed", token |-> 0]]
  BY <1>1, <1>3 DEF Outcome
<1> QED
  BY <1>4, <1>5, <1>6, <1>7, <1>8, <1>9 DEF Tokens!Publish

\* The other steps answer the client with an error, or nothing happens that a
\* client could see.
LEMMA OthersRefuse ==
    ASSUME IndInv, NEW o \in Op, Step(o) \/ TooMany(o) \/ Start(o) \/ DependencyConflict(o) \/ Fail(o),
           ~Commit(o)
    PROVE  \/ \E code \in {"failed", "tooMany", "unique", "maxRetries"} : Tokens!Refuse(o, code)
           \/ UNCHANGED <<Published, Outcome>>
<1>1. UNCHANGED Published
  <2>1. UNCHANGED <<rows, transactions>>
    BY DEF Step, TooMany, Start, DependencyConflict, Fail, Begin, Insert, Duplicate, Expire,
           ConcurrentUpdate, Deadlock, Log, Retry, Rollback
  <2>2. \A t, x : View(t, x)' = View(t, x)
    BY <2>1 DEF View, SnapshotQuery, Visible, Invisible
  <2> QED
    BY <2>1, <2>2 DEF Published
<1>2. call[o] \in Call /\ call \in [Op -> Call]
  BY DEF IndInv, TypeOK
<1>3. ASSUME NEW code \in {"failed", "tooMany", "unique", "maxRetries"},
             Set(o, Answer(o, code)), call[o].pc # "done"
      PROVE  Tokens!Refuse(o, code)
  <2>1. call[o].code = "none" /\ call[o].token = 0
    BY <1>3 DEF IndInv, OutcomesOK
  <2>2. \A x \in DOMAIN transactions : transactions[x].op # o
    BY <1>3 DEF IndInv, OutcomesOK
  <2>3. Tokens!Pending(o)
    BY <2>1, <2>2 DEF Tokens!Pending, Published, Outcome
  <2>4. Answer(o, code).code = code /\ Answer(o, code).token = 0
    BY <1>2, <2>1 DEF Answer, NoTransaction, Call
  <2>5. Outcome' = [Outcome EXCEPT ![o] = [code |-> code, token |-> 0]]
    BY <1>2, <1>3, <2>4 DEF Outcome, Set
  <2> QED
    BY <1>1, <2>3, <2>5 DEF Tokens!Refuse
<1>4. ASSUME NEW c, Set(o, c), c.code = call[o].code, c.token = call[o].token
      PROVE  UNCHANGED Outcome
  BY <1>2, <1>4 DEF Outcome, Set
<1>5. ASSUME Retry(o), call[o].pc # "done"
      PROVE  Tokens!Refuse(o, "maxRetries") \/ UNCHANGED Outcome
  <2> DEFINE d == NoTransaction(o, "begin")
             c == [d EXCEPT !.tries = @ + 1]
  <2>1. d \in Call /\ d.code = call[o].code /\ d.token = call[o].token
    BY <1>2 DEF NoTransaction, Call
  <2>2. Set(o, Answer(o, "maxRetries")) \/ Set(o, c)
    BY <1>5 DEF Retry
  <2> HIDE DEF d
  <2>3. c.code = call[o].code /\ c.token = call[o].token
    BY <2>1 DEF Call
  <2> QED
    BY <1>3, <1>4, <1>5, <2>2, <2>3
<1>6. CASE TooMany(o) \/ Fail(o) \/ Duplicate(o)
  BY <1>3, <1>6 DEF TooMany, Fail, Duplicate, Inserting, Executing
<1>7. CASE Deadlock(o)
  <2>1. WaitsFor(o) # {}
    BY <1>7 DEF Deadlock
  <2>2. call[o].pc # "done"
    BY <2>1 DEF WaitsFor, Inserting, Executing
  <2> QED
    BY <1>3, <1>7, <2>2 DEF Deadlock
<1>8. CASE ConcurrentUpdate(o) \/ DependencyConflict(o)
  BY <1>1, <1>5, <1>8 DEF ConcurrentUpdate, DependencyConflict, Executing
<1>9. CASE Start(o) \/ Begin(o) \/ Insert(o) \/ Log(o) \/ \E r \in rows : Expire(o, r)
  <2>1. \A p \in Op : call'[p].code = call[p].code /\ call'[p].token = call[p].token
    <3>1. CASE Start(o)
      BY <1>2, <3>1 DEF Start, Set, Call
    <3>2. CASE Begin(o)
      BY <1>2, <3>2 DEF Begin, Set, Call
    <3>3. CASE Insert(o)
      BY <1>2, <3>3 DEF Insert, Set, Call
    <3>4. CASE Log(o)
      BY <1>2, <3>4 DEF Log, Set, Call
    <3>5. ASSUME NEW r \in rows, Expire(o, r)
          PROVE  \A p \in Op : call'[p].code = call[p].code /\ call'[p].token = call[p].token
      BY <1>2, <3>5 DEF Expire, Set, Call
    <3> QED
      BY <1>9, <3>1, <3>2, <3>3, <3>4, <3>5
  <2> QED
    BY <1>1, <2>1 DEF Outcome
<1> QED
  BY <1>6, <1>7, <1>8, <1>9 DEF Step

\* SnapshotStore implements SnapTokens: with every retry, conflict, lost commit
\* and interleaving, calls are applied atomically and at most once, their tokens
\* show what they wrote and hide what they deleted, and views never change.
THEOREM StoreImplementsTokens == Spec => TokensKept
<1>1. Init => Tokens!Init
  BY DEF Init, Tokens!Init, Published, Outcome
<1>2. IndInv /\ [Next]_vars => [Tokens!Next]_<<Published, Outcome>>
  <2> SUFFICES ASSUME IndInv, [Next]_vars PROVE [Tokens!Next]_<<Published, Outcome>>
    OBVIOUS
  <2>1. CASE UNCHANGED vars
    BY <2>1 DEF vars, Published, Outcome, View, SnapshotQuery, Visible, Invisible
  <2>2. CASE Next
    <3>1. PICK o \in Op : \/ TooMany(o) \/ Start(o) \/ Step(o)
                          \/ DependencyConflict(o) \/ CommitLost(o) \/ Fail(o)
      BY <2>2 DEF Next
    <3>2. CASE Commit(o) \/ CommitLost(o)
      BY <3>2, CommitPublishes DEF Tokens!Next
    <3>3. CASE ~(Commit(o) \/ CommitLost(o))
      BY <3>1, <3>3, OthersRefuse DEF Tokens!Next
    <3> QED
      BY <3>2, <3>3
  <2> QED
    BY <2>1, <2>2
<1> QED
  BY <1>1, <1>2, StoreInvariance, PTL DEF Spec, TokensKept, Tokens!Spec

-----------------------------------------------------------------------------
(***************************************************************************)
(* Waiting.  The guards of Step(o), and what it means that nobody waits in *)
(* vain.                                                                   *)
(***************************************************************************)
\* A ring of waiting transactions, as the deadlock detector looks for it.
Ring(ring) ==
    /\ \A p \in ring : WaitsFor(p) \cap ring # {}
    /\ \A p \in ring : \E q \in ring : p \in WaitsFor(q)

\* The connection or the backend of o has something to do.
CanStep(o) ==
    \/ call[o].pc = "begin"                                              \* Begin
    \/ Inserting(o) /\ WaitsFor(o) = {}                                  \* Insert, Duplicate
    \/ /\ Executing(o, "delete")
       /\ \E r \in Targets(o) : \/ r.expired # 0                         \* ConcurrentUpdate
                                \/ \A p \in Op \ {o} : ~Touched(p, r)    \* Expire
    \/ \E ring \in SUBSET Op : o \in ring /\ Ring(ring)                  \* Deadlock
    \/ call[o].pc = "statement" /\ Executed(o)                           \* Log
    \/ call[o].pc = "logged"                                             \* Commit

Returned(o) == call[o].pc \in {"idle", "done"}

\* While a call of the writer is under way there is a call that can go on, or a
\* ring of calls that wait for each other of which the detector picks a victim:
\* locks never leave everybody waiting for something that nobody resolves.
NobodyStuck == (\A o \in Op : Returned(o)) \/ \E o \in Op : CanStep(o)

(***************************************************************************)
(* How far a call is: not begun, under way, or over; then the attempts it  *)
(* has left, the place in its transaction, and the rows that its statement *)
(* still has to insert or to expire.                                       *)
(***************************************************************************)
Life(o) == CASE call[o].pc = "idle" -> 2 [] call[o].pc = "done" -> 0 [] OTHER -> 1
Attempts(o) == MaxRetries - call[o].tries
Place(o) == CASE call[o].pc = "begin" -> 2 [] call[o].pc = "statement" -> 1 [] OTHER -> 0
Rest(o) ==
    IF call[o].pc # "statement" THEN 0
    ELSE IF Kind(o) = "write" THEN Len(Tuples(o)) - call[o].inserted
                              ELSE Cardinality(Targets(o))

\* The call gets nearer to its end, in the lexicographic order of the four.
Nearer(o) ==
    \/ Life(o)' < Life(o)
    \/ /\ Life(o)' = Life(o)
       /\ \/ Attempts(o)' < Attempts(o)
          \/ /\ Attempts(o)' = Attempts(o)
             /\ \/ Place(o)' < Place(o)
                \/ Place(o)' = Place(o) /\ Rest(o)' < Rest(o)

AsFar(o) ==
    /\ Life(o)' = Life(o) /\ Attempts(o)' = Attempts(o) /\ Place(o)' = Place(o)
    /\ Rest(o)' <= Rest(o)

\* Every step, a failure or a conflict too, brings one call nearer to its end
\* and throws no other call back: what commits meanwhile never gives the
\* statement of a running transaction more to do.
Descends == \E o \in Op : Nearer(o) /\ \A p \in Op \ {o} : AsFar(p)

\* The measures are natural numbers: the table and the calls made are finite,
\* and no call counts more failed attempts than maxRetries.
Finite ==
    /\ IsFiniteSet(rows)
    /\ IsFiniteSet({o \in Op : call[o].pc # "idle"})
    /\ \A o \in Op : call[o].tries <= MaxRetries

-----------------------------------------------------------------------------
\* A set of natural numbers has a least element.
LEMMA Least ==
    ASSUME NEW S, S \subseteq Nat, S # {}
    PROVE  \E k \in S : \A j \in S : k <= j
<1>1. PICK k \in S : \A j \in S : ~(<<j, k>> \in OpToRel(<, Nat))
  BY WFMin, NatLessThanWellFounded, Zenon
<1>2. ASSUME NEW j \in S PROVE k <= j
  <2>1. ~(j < k)
    BY <1>1 DEF OpToRel
  <2> QED
    BY <2>1
<1> QED
  BY <1>2

\* The image of a finite set is finite and no larger.
LEMMA ImageFinite ==
    ASSUME NEW S, IsFiniteSet(S), NEW f, DOMAIN f = S, f = [x \in S |-> f[x]]
    PROVE  /\ IsFiniteSet({f[x] : x \in S})
           /\ Cardinality({f[x] : x \in S}) <= Cardinality(S)
<1>1. f \in Surjection(S, {f[x] : x \in S})
  BY DEF Surjection
<1> QED
  BY <1>1, FS_Surjection

\* Where finitely many transactions wait for each other only, some of them form
\* a ring: the fewest that do.
LEMMA RingExists ==
    ASSUME NEW W, IsFiniteSet(W), W # {}, \A p \in W : WaitsFor(p) \cap W # {}
    PROVE  \E ring \in SUBSET W : ring # {} /\ Ring(ring)
<1> DEFINE Closed == {S \in SUBSET W : S # {} /\ \A p \in S : WaitsFor(p) \cap S # {}}
           Sizes == {Cardinality(S) : S \in Closed}
<1>1. W \in Closed
  OBVIOUS
<1>2. \A S \in Closed : IsFiniteSet(S) /\ Cardinality(S) \in Nat
  BY FS_Subset, FS_CardinalityType
<1>3. PICK S \in Closed : \A T \in Closed : Cardinality(S) <= Cardinality(T)
  <2>1. Sizes \subseteq Nat /\ Sizes # {}
    BY <1>1, <1>2
  <2>2. PICK k \in Sizes : \A j \in Sizes : k <= j
    <3> HIDE DEF Sizes
    <3> QED
      BY <2>1, Least
  <2> QED
    BY <2>2
<1>4. ASSUME NEW p \in S, \A q \in S : p \notin WaitsFor(q)
      PROVE  FALSE
  <2>1. S \ {p} \in Closed
    BY <1>3, <1>4
  <2>2. Cardinality(S \ {p}) = Cardinality(S) - 1
    BY <1>2, <1>3, FS_RemoveElement
  <2>3. Cardinality(S) \in Nat
    BY <1>2
  <2>4. Cardinality(S) <= Cardinality(S \ {p})
    BY <1>3, <2>1
  <2> HIDE DEF Closed
  <2> QED
    BY <2>2, <2>3, <2>4
<1> QED
  BY <1>3, <1>4 DEF Ring

\* The transaction of a call that cannot go on waits, and only for transactions
\* that hold what it wants.
LEMMA WaitsForSome ==
    ASSUME IndInv, NEW o \in Op, call[o].pc = "statement", ~CanStep(o)
    PROVE  WaitsFor(o) # {}
<1>1. Kind(o) \in {"write", "delete"} /\ Len(Tuples(o)) \in Nat
  BY StoreAssumption DEF Kind, Tuples, OpType
<1>2. ~Executed(o)
  BY DEF CanStep
<1>3. CASE Kind(o) = "write"
  <2>1. call[o].inserted \in 0 .. Len(Tuples(o)) /\ call[o].inserted # Len(Tuples(o))
    BY <1>2, <1>3 DEF IndInv, ProgressOK, Executed
  <2>2. call[o].inserted < Len(Tuples(o))
    BY <1>1, <2>1
  <2> QED
    BY <1>3, <2>2 DEF CanStep, Inserting, Executing
<1>4. CASE Kind(o) = "delete"
  <2>1. PICK r \in Targets(o) : TRUE
    BY <1>2, <1>4 DEF Executed
  <2>2. Executing(o, "delete") /\ ~Inserting(o)
    BY <1>4 DEF Executing, Inserting
  <2>3. PICK p \in Op \ {o} : Touched(p, r)
    BY <2>1, <2>2 DEF CanStep
  <2> QED
    BY <2>1, <2>2, <2>3 DEF WaitsFor
<1> QED
  BY <1>1, <1>3, <1>4

\* Where a call is under way, one can go on.
LEMMA SomebodyGoesOn == IndInv /\ Finite => NobodyStuck
<1> SUFFICES ASSUME IndInv, Finite, NEW o \in Op, ~Returned(o), \A p \in Op : ~CanStep(p)
             PROVE  FALSE
  BY DEF NobodyStuck
<1> DEFINE W == {p \in Op : call[p].pc = "statement"}
<1>1. \A p \in Op : call[p].pc \in {"idle", "statement", "done"}
  BY DEF CanStep, IndInv, TypeOK, Call
<1>2. o \in W
  BY <1>1 DEF Returned
<1>3. \A p \in W : WaitsFor(p) # {} /\ WaitsFor(p) \subseteq W
  <2> SUFFICES ASSUME NEW p \in W PROVE WaitsFor(p) # {} /\ WaitsFor(p) \subseteq W
    OBVIOUS
  <2>1. WaitsFor(p) \subseteq {q \in Op : InTransaction(q)}
    BY DEF WaitsFor, Inserted, Touched
  <2> QED
    BY <1>1, <2>1, WaitsForSome DEF InTransaction
<1>4. IsFiniteSet(W)
  <2>1. W \in SUBSET {p \in Op : call[p].pc # "idle"}
    OBVIOUS
  <2> QED
    BY <2>1, FS_Subset DEF Finite
<1>5. \A p \in W : WaitsFor(p) \cap W # {}
  BY <1>3
<1>6. PICK ring \in SUBSET W : ring # {} /\ Ring(ring)
  <2> HIDE DEF W
  <2> QED
    BY <1>2, <1>4, <1>5, RingExists
<1>7. PICK p \in ring : TRUE
  BY <1>6
<1> QED
  BY <1>6, <1>7 DEF CanStep

(***************************************************************************)
(* What a step does to the call that takes it.                             *)
(***************************************************************************)
Over(o) == call[o].pc # "done" /\ call'[o].pc = "done" /\ call'[o].tries = 0
Begun(o) == call[o].pc = "idle" /\ call'[o].pc = "begin" /\ call'[o].tries = call[o].tries
Again(o) ==
    /\ call[o].pc = "statement" /\ call'[o].pc = "begin"
    /\ call[o].tries # MaxRetries /\ call'[o].tries = call[o].tries + 1
Onward(o) ==
    /\ \/ call[o].pc = "begin" /\ call'[o].pc = "statement"
       \/ call[o].pc = "statement" /\ call'[o].pc = "logged"
    /\ call'[o].tries = call[o].tries
OneInserted(o) ==
    /\ Inserting(o) /\ call'[o].pc = "statement" /\ call'[o].tries = call[o].tries
    /\ call'[o].inserted = call[o].inserted + 1
OneExpired(o) ==
    /\ Executing(o, "delete") /\ call'[o].pc = "statement" /\ call'[o].tries = call[o].tries
    /\ call'[o].snapshot = call[o].snapshot
    /\ \E r \in Targets(o) : call'[o].touched = call[o].touched \cup {r}

\* The steps of a call, by what they do to its attempts and its place.
LEMMA StepShape ==
    ASSUME IndInv, NEW o \in Op,
           \/ TooMany(o) \/ Start(o) \/ Step(o)
           \/ DependencyConflict(o) \/ CommitLost(o) \/ Fail(o)
    PROVE  /\ \A p \in Op : p # o => call'[p] = call[p]
           /\ \/ rows' = rows
              \/ call[o].pc = "logged" /\ Apply(o) /\ Over(o)
           /\ \/ Over(o) \/ Begun(o) \/ Again(o) \/ Onward(o)
              \/ OneInserted(o) \/ OneExpired(o)
<1>1. call[o] \in Call /\ call \in [Op -> Call]
  BY DEF IndInv, TypeOK
<1>2. ASSUME NEW code, Set(o, Answer(o, code)), call[o].pc # "done"
      PROVE  Over(o) /\ \A p \in Op : p # o => call'[p] = call[p]
  BY <1>1, <1>2 DEF Set, Over, Answer, NoTransaction, Call
<1>3. ASSUME Retry(o), call[o].pc = "statement"
      PROVE  /\ Over(o) \/ Again(o)
             /\ rows' = rows
             /\ \A p \in Op : p # o => call'[p] = call[p]
  <2>1. CASE call[o].tries = MaxRetries
    BY <1>2, <1>3, <2>1 DEF Retry, Rollback
  <2>2. CASE call[o].tries # MaxRetries
    <3> DEFINE d == NoTransaction(o, "begin")
    <3>1. d \in Call /\ d.pc = "begin" /\ d.tries = call[o].tries
      BY <1>1 DEF NoTransaction, Call
    <3> HIDE DEF d
    <3>2. Set(o, [d EXCEPT !.tries = @ + 1]) /\ rows' = rows
      BY <1>3, <2>2 DEF Retry, Rollback, d
    <3> QED
      BY <1>1, <1>3, <2>2, <3>1, <3>2 DEF Set, Again, Call
  <2> QED
    BY <2>1, <2>2
<1>4. CASE TooMany(o) \/ Duplicate(o) \/ Fail(o)
  BY <1>2, <1>4 DEF TooMany, Duplicate, Fail, Rollback, Inserting, Executing
<1>5. CASE Deadlock(o)
  <2>1. call[o].pc # "done"
    BY <1>5 DEF Deadlock, WaitsFor, Inserting, Executing
  <2> QED
    BY <1>2, <1>5, <2>1 DEF Deadlock, Rollback
<1>6. CASE ConcurrentUpdate(o) \/ DependencyConflict(o)
  BY <1>3, <1>6 DEF ConcurrentUpdate, DependencyConflict, Executing
<1>7. CASE CommitLost(o)
  BY <1>2, <1>7 DEF CommitLost
<1>8. CASE Commit(o)
  <2> DEFINE d == Answer(o, "ok")
  <2>1. d \in Call /\ d.pc = "done" /\ d.tries = 0
    BY <1>1 DEF Answer, NoTransaction, Call, Code
  <2> HIDE DEF d
  <2>2. Set(o, [d EXCEPT !.token = call[o].xid]) /\ call[o].pc = "logged" /\ Apply(o)
    BY <1>8 DEF Commit, d
  <2> QED
    BY <1>1, <2>1, <2>2 DEF Set, Over, Call
<1>9. CASE Start(o)
  BY <1>1, <1>9 DEF Start, Set, Begun, Call
<1>10. CASE Begin(o) \/ Log(o)
  BY <1>1, <1>10 DEF Begin, Log, Set, Onward, Call
<1>11. CASE Insert(o)
  BY <1>1, <1>11 DEF Insert, Set, OneInserted, Inserting, Executing, Call
<1>12. ASSUME NEW r \in rows, Expire(o, r)
       PROVE  /\ OneExpired(o) /\ rows' = rows
              /\ \A p \in Op : p # o => call'[p] = call[p]
  BY <1>1, <1>12 DEF Expire, Set, OneExpired, Executing, Call
<1> QED
  BY <1>4, <1>5, <1>6, <1>7, <1>8, <1>9, <1>10, <1>11, <1>12 DEF Step

\* A commit adds finitely many rows.
LEMMA AppliedFinite ==
    ASSUME IndInv, Finite, NEW o \in Op, Apply(o)
    PROVE  IsFiniteSet(rows')
<1> DEFINE c == call[o]
           f == [r \in c.touched |-> [r EXCEPT !.expired = c.xid]]
           g == [i \in 1 .. c.inserted |-> [tenant |-> OpDef[o].tenant, tuple |-> Tuples(o)[i],
                                            created |-> c.xid, expired |-> 0]]
<1>1. rows' = (rows \ c.touched) \cup {f[r] : r \in c.touched} \cup {g[i] : i \in 1 .. c.inserted}
  BY DEF Apply
<1>2. IsFiniteSet(c.touched)
  <2>1. c.touched \in SUBSET rows
    BY DEF IndInv, TouchedOK
  <2> QED
    BY <2>1, FS_Subset DEF Finite
<1>3. IsFiniteSet(1 .. c.inserted)
  <2>1. c.inserted \in Nat
    BY DEF IndInv, TypeOK, Call
  <2>2. 1 \in Int /\ c.inserted \in Int
    BY <2>1
  <2> QED
    BY <2>2, FS_Interval, Zenon
<1>4. IsFiniteSet({f[r] : r \in c.touched})
  <2>1. DOMAIN f = c.touched /\ f = [r \in c.touched |-> f[r]]
    OBVIOUS
  <2> HIDE DEF f
  <2> QED
    BY <1>2, <2>1, ImageFinite
<1>5. IsFiniteSet({g[i] : i \in 1 .. c.inserted})
  <2>1. DOMAIN g = 1 .. c.inserted /\ g = [i \in 1 .. c.inserted |-> g[i]]
    OBVIOUS
  <2> HIDE DEF g
  <2> QED
    BY <1>3, <2>1, ImageFinite
<1>6. IsFiniteSet(rows \ c.touched)
  BY FS_Difference DEF Finite
<1> HIDE DEF c, f, g
<1> QED
  BY <1>1, <1>4, <1>5, <1>6, FS_Union

\* The measures stay natural numbers.
LEMMA FiniteStep == IndInv /\ Finite /\ [Next]_vars => Finite'
<1> SUFFICES ASSUME IndInv, Finite, [Next]_vars PROVE Finite'
  OBVIOUS
<1>1. CASE UNCHANGED vars
  BY <1>1 DEF vars, Finite
<1>2. CASE Next
  <2>1. PICK o \in Op : \/ TooMany(o) \/ Start(o) \/ Step(o)
                        \/ DependencyConflict(o) \/ CommitLost(o) \/ Fail(o)
    BY <1>2 DEF Next
  <2>2. /\ \A p \in Op : p # o => call'[p] = call[p]
        /\ rows' = rows \/ (call[o].pc = "logged" /\ Apply(o) /\ Over(o))
        /\ \/ Over(o) \/ Begun(o) \/ Again(o) \/ Onward(o)
           \/ OneInserted(o) \/ OneExpired(o)
    BY <2>1, StepShape
  <2>3. IsFiniteSet(rows')
    BY <2>2, AppliedFinite DEF Finite
  <2>4. IsFiniteSet({p \in Op : call'[p].pc # "idle"})
    <3> DEFINE A == {p \in Op : call[p].pc # "idle"}
               B == {p \in Op : call'[p].pc # "idle"}
    <3>1. IsFiniteSet(A \cup {o})
      BY FS_AddElement DEF Finite
    <3>2. B \in SUBSET (A \cup {o})
      BY <2>2
    <3> HIDE DEF A, B
    <3>3. IsFiniteSet(B)
      BY <3>1, <3>2, FS_Subset
    <3> QED
      BY <3>3 DEF B
  <2>5. call'[o].tries <= MaxRetries
    <3>1. call[o].tries \in Nat /\ MaxRetries \in Nat /\ call[o].tries <= MaxRetries
      BY StoreAssumption DEF Finite, IndInv, TypeOK, Call
    <3>2. call'[o].tries \in {0, call[o].tries}
          \/ (call[o].tries # MaxRetries /\ call'[o].tries = call[o].tries + 1)
      BY <2>2 DEF Over, Begun, Again, Onward, OneInserted, OneExpired
    <3> QED
      BY <3>1, <3>2
  <2> QED
    BY <2>2, <2>3, <2>4, <2>5 DEF Finite
<1> QED
  BY <1>1, <1>2

-----------------------------------------------------------------------------
\* What a transaction has left to expire does not grow when another one commits:
\* a row it still has to expire is replaced by the same row, expired, and the
\* rows that are new are not in its snapshot.
LEMMA TargetsShrink ==
    ASSUME IndInv, Finite, NEW o \in Op, NEW p \in Op, p # o, call'[p] = call[p],
           rows' = rows \/ (call[o].pc = "logged" /\ Apply(o))
    PROVE  /\ IsFiniteSet(Targets(p))
           /\ Cardinality(Targets(p)') <= Cardinality(Targets(p))
           /\ Cardinality(Targets(p)) \in Nat
<1> DEFINE c == call[o]
           f == [r \in Targets(p) |-> IF r \in c.touched THEN [r EXCEPT !.expired = c.xid] ELSE r]
<1>1. IsFiniteSet(Targets(p)) /\ Cardinality(Targets(p)) \in Nat
  <2>1. Targets(p) \in SUBSET rows
    BY DEF Targets
  <2> QED
    BY <2>1, FS_Subset, FS_CardinalityType DEF Finite
<1>2. CASE rows' = rows
  <2>1. Targets(p)' = Targets(p)
    BY <1>2 DEF Targets
  <2> QED
    BY <1>1, <2>1
<1>3. CASE call[o].pc = "logged" /\ Apply(o)
  <2>1. \A q \in rows : q \in Row /\ (q \in c.touched => q.expired = 0 /\ q \notin call[p].touched)
    BY DEF IndInv, TypeOK, TouchedOK
  <2>2. c.xid \notin call[p].snapshot
    BY <1>3 DEF IndInv, IdsOK, SnapshotsOK
  <2>3. ASSUME NEW r \in Targets(p)' PROVE \E q \in Targets(p) : r = f[q]
    <3>1. /\ r \in rows' /\ Matches(p, r) /\ r.created \in call[p].snapshot
          /\ r.expired = 0 \/ r.expired \notin call[p].snapshot
          /\ r \notin call[p].touched
      BY <2>3 DEF Targets, Matches
    <3>2. CASE r \in rows /\ r \notin c.touched
      <4>1. r \in Targets(p)
        BY <3>1, <3>2 DEF Targets
      <4> QED
        BY <3>2, <4>1
    <3>3. ASSUME NEW q \in c.touched, r = [q EXCEPT !.expired = c.xid]
          PROVE  \E s \in Targets(p) : r = f[s]
      <4>1. q \in rows
        BY DEF IndInv, TouchedOK
      <4>2. r.tuple = q.tuple /\ r.created = q.created /\ q.expired = 0
            /\ q \notin call[p].touched
        BY <2>1, <3>3, <4>1 DEF Row
      <4>3. q \in Targets(p)
        BY <3>1, <4>1, <4>2 DEF Targets, Matches
      <4> QED
        BY <3>3, <4>3
    <3>4. ASSUME NEW i \in 1 .. c.inserted,
                 r = [tenant |-> OpDef[o].tenant, tuple |-> Tuples(o)[i],
                      created |-> c.xid, expired |-> 0]
          PROVE  FALSE
      BY <2>2, <3>1, <3>4
    <3> QED
      BY <1>3, <3>1, <3>2, <3>3, <3>4 DEF Apply
  <2>4. DOMAIN f = Targets(p) /\ f = [r \in Targets(p) |-> f[r]]
    OBVIOUS
  <2> HIDE DEF f
  <2>5. /\ IsFiniteSet({f[r] : r \in Targets(p)})
        /\ Cardinality({f[r] : r \in Targets(p)}) <= Cardinality(Targets(p))
    BY <1>1, <2>4, ImageFinite
  <2>6. Targets(p)' \in SUBSET {f[r] : r \in Targets(p)}
    BY <2>3
  <2> DEFINE S == {f[r] : r \in Targets(p)}
             T == Targets(p)'
  <2>7. Cardinality(T) <= Cardinality(S) /\ IsFiniteSet(T)
    <3> HIDE DEF S, T
    <3> QED
      BY <2>5, <2>6, FS_Subset DEF S, T
  <2>8. Cardinality(T) \in Nat /\ Cardinality(S) \in Nat
    <3> HIDE DEF S, T
    <3> QED
      BY <2>5, <2>7, FS_CardinalityType DEF S
  <2> QED
    BY <1>1, <2>5, <2>7, <2>8
<1> QED
  BY <1>1, <1>2, <1>3

\* A call that takes no step is as far as it was.
LEMMA OthersAsFar ==
    ASSUME IndInv, Finite, NEW o \in Op, NEW p \in Op, p # o, call'[p] = call[p],
           rows' = rows \/ (call[o].pc = "logged" /\ Apply(o))
    PROVE  AsFar(p)
<1>1. Cardinality(Targets(p)') <= Cardinality(Targets(p))
  BY TargetsShrink
<1>2. Life(p)' = Life(p) /\ Attempts(p)' = Attempts(p) /\ Place(p)' = Place(p)
  BY DEF Life, Attempts, Place
<1>3. call[p].inserted \in Nat /\ Len(Tuples(p)) \in Nat
  BY StoreAssumption DEF IndInv, TypeOK, Call, Tuples, OpType
<1>4. Rest(p)' <= Rest(p)
  BY <1>1, <1>3 DEF Rest
<1> QED
  BY <1>2, <1>4 DEF AsFar

\* The call that takes a step is nearer to its end.
LEMMA StepNearer ==
    ASSUME IndInv, Finite, NEW o \in Op,
           \/ TooMany(o) \/ Start(o) \/ Step(o)
           \/ DependencyConflict(o) \/ CommitLost(o) \/ Fail(o)
    PROVE  Nearer(o)
<1>1. call[o] \in Call /\ MaxRetries \in Nat /\ Len(Tuples(o)) \in Nat /\ call[o].tries \in Nat
      /\ call[o].inserted \in Nat /\ call[o].tries <= MaxRetries
  BY StoreAssumption DEF Finite, IndInv, TypeOK, Call, Tuples, OpType
<1>2. /\ rows' = rows \/ (call[o].pc = "logged" /\ Apply(o) /\ Over(o))
      /\ \/ Over(o) \/ Begun(o) \/ Again(o) \/ Onward(o)
         \/ OneInserted(o) \/ OneExpired(o)
  BY StepShape
<1>3. CASE Over(o) \/ Begun(o)
  BY <1>1, <1>3 DEF Over, Begun, Nearer, Life
<1>4. CASE Again(o)
  <2>1. Life(o)' = Life(o)
    BY <1>4 DEF Again, Life
  <2>2. MaxRetries - (call[o].tries + 1) < MaxRetries - call[o].tries
    BY <1>1
  <2>3. Attempts(o)' < Attempts(o)
    BY <1>4, <2>2 DEF Again, Attempts
  <2> QED
    BY <2>1, <2>3 DEF Nearer
<1>5. CASE Onward(o)
  BY <1>5 DEF Onward, Nearer, Life, Attempts, Place
<1>6. CASE OneInserted(o)
  <2>1. Life(o)' = Life(o) /\ Attempts(o)' = Attempts(o) /\ Place(o)' = Place(o)
    BY <1>6 DEF OneInserted, Inserting, Executing, Life, Attempts, Place
  <2>2. Rest(o) = Len(Tuples(o)) - call[o].inserted
        /\ Rest(o)' = Len(Tuples(o)) - (call[o].inserted + 1)
    BY <1>6 DEF OneInserted, Inserting, Executing, Rest
  <2>3. Rest(o)' < Rest(o)
    BY <1>1, <2>2
  <2> QED
    BY <2>1, <2>3 DEF Nearer
<1>7. CASE OneExpired(o)
  <2>1. Life(o)' = Life(o) /\ Attempts(o)' = Attempts(o) /\ Place(o)' = Place(o)
    BY <1>7 DEF OneExpired, Executing, Life, Attempts, Place
  <2>2. rows' = rows
    BY <1>2, <1>7 DEF OneExpired, Executing
  <2>3. PICK r \in Targets(o) : Targets(o)' = Targets(o) \ {r}
    BY <1>7, <2>2 DEF OneExpired, Targets
  <2>4. IsFiniteSet(Targets(o))
    <3>1. Targets(o) \in SUBSET rows
      BY DEF Targets
    <3> QED
      BY <3>1, FS_Subset DEF Finite
  <2>5. Cardinality(Targets(o) \ {r}) = Cardinality(Targets(o)) - 1
        /\ Cardinality(Targets(o)) \in Nat
    BY <2>4, FS_RemoveElement, FS_CardinalityType
  <2>6. Rest(o) = Cardinality(Targets(o)) /\ Rest(o)' = Cardinality(Targets(o) \ {r})
    BY <1>7, <2>3 DEF OneExpired, Executing, Rest, Kind
  <2>7. Rest(o)' < Rest(o)
    BY <2>5, <2>6
  <2> QED
    BY <2>1, <2>7 DEF Nearer
<1> QED
  BY <1>2, <1>3, <1>4, <1>5, <1>6, <1>7

\* The table and the set of calls made stay finite, and a call fails to
\* serialize at most maxRetries times before it gives up: WriteRelationships and
\* DeleteRelationships begin at most maxRetries + 1 transactions.
THEOREM StoreFinite == Spec => [](IndInv /\ Finite)
<1>1. Init => Finite
  <2> SUFFICES ASSUME Init PROVE Finite
    OBVIOUS
  <2>1. rows = {} /\ {o \in Op : call[o].pc # "idle"} = {} /\ \A o \in Op : call[o].tries = 0
    BY DEF Init
  <2> QED
    BY <2>1, FS_EmptySet, StoreAssumption DEF Finite
<1> QED
  BY <1>1, FiniteStep, StoreInvariance, PTL DEF Spec

\* Row locks, the unique index and the retry loop never leave everybody waiting,
\* for any calls, tuples and number of retries: while a call is under way one can
\* take its next step, or the calls that wait contain a ring of which PostgreSQL
\* picks a victim.
THEOREM StoreNeverStuck == Spec => []NobodyStuck
BY StoreFinite, SomebodyGoesOn, PTL

\* No call runs in circles: every step of the writer brings the call that takes
\* it nearer to its end, in a measure of natural numbers, and no commit, retry or
\* failure of one call gives another one more to do.  With StoreNeverStuck this
\* is why every call returns.
THEOREM StoreDescends == Spec => [][Descends]_vars
<1>1. IndInv /\ Finite /\ [Next]_vars => [Descends]_vars
  <2> SUFFICES ASSUME IndInv, Finite, Next PROVE Descends
    OBVIOUS
  <2>1. PICK o \in Op : \/ TooMany(o) \/ Start(o) \/ Step(o)
                        \/ DependencyConflict(o) \/ CommitLost(o) \/ Fail(o)
    BY DEF Next
  <2>2. /\ \A p \in Op : p # o => call'[p] = call[p]
        /\ rows' = rows \/ (call[o].pc = "logged" /\ Apply(o))
    BY <2>1, StepShape
  <2> QED
    BY <2>1, <2>2, StepNearer, OthersAsFar DEF Descends
<1> QED
  BY <1>1, StoreFinite, PTL DEF Spec
=============================================================================
