------------------------- MODULE LookupEntityProofs -------------------------
(***************************************************************************)
(* Proofs about LookupEntity, for every number of entities, every limit of *)
(* the errgroup and every capacity of resultChan: what a client receives   *)
(* is sound, and complete when the lookup returns without an error.        *)
(***************************************************************************)
EXTENDS LookupEntity, FiniteSetTheorems, TLAPS

(***************************************************************************)
(* Channels.                                                               *)
(***************************************************************************)

\* Sending an id adds it to what is in the channel.
LEMMA AppendElements ==
    ASSUME NEW S, NEW s \in Seq(S), NEW x \in S
    PROVE  /\ Append(s, x) \in Seq(S) /\ Len(Append(s, x)) = Len(s) + 1
           /\ Elements(Append(s, x)) = Elements(s) \cup {x}
           /\ Distinct(s) /\ x \notin Elements(s) => Distinct(Append(s, x))
<1>1. /\ Append(s, x) \in Seq(S) /\ Len(Append(s, x)) = Len(s) + 1
      /\ DOMAIN Append(s, x) = 1 .. (Len(s) + 1) /\ DOMAIN s = 1 .. Len(s) /\ Len(s) \in Nat
      /\ \A k \in 1 .. Len(s) : Append(s, x)[k] = s[k]
      /\ Append(s, x)[Len(s) + 1] = x
  OBVIOUS
<1>2. 1 .. (Len(s) + 1) = (1 .. Len(s)) \cup {Len(s) + 1}
  BY <1>1
<1>3. Elements(Append(s, x)) = Elements(s) \cup {x}
  <2>1. ASSUME NEW y \in Elements(Append(s, x)) PROVE y \in Elements(s) \cup {x}
    BY <1>1, <1>2 DEF Elements
  <2>2. ASSUME NEW y \in Elements(s) PROVE y \in Elements(Append(s, x))
    BY <1>1, <1>2 DEF Elements
  <2>3. x \in Elements(Append(s, x))
    BY <1>1, <1>2 DEF Elements
  <2> QED
    BY <2>1, <2>2, <2>3
<1>4. Distinct(s) /\ x \notin Elements(s) => Distinct(Append(s, x))
  BY <1>1, <1>2 DEF Distinct, Elements
<1> QED
  BY <1>1, <1>3, <1>4

\* Receiving an id takes it out of the channel.
LEMMA TailElements ==
    ASSUME NEW S, NEW s \in Seq(S), s # <<>>
    PROVE  /\ Tail(s) \in Seq(S) /\ Len(Tail(s)) < Len(s) /\ s[1] \in S
           /\ Elements(s) = {s[1]} \cup Elements(Tail(s))
           /\ Distinct(s) => Distinct(Tail(s)) /\ s[1] \notin Elements(Tail(s))
<1>1. /\ Tail(s) \in Seq(S) /\ Len(Tail(s)) = Len(s) - 1 /\ Len(s) \in Nat \ {0}
      /\ DOMAIN Tail(s) = 1 .. (Len(s) - 1) /\ DOMAIN s = 1 .. Len(s)
      /\ \A k \in 1 .. (Len(s) - 1) : Tail(s)[k] = s[k + 1]
      /\ s[1] \in S
  OBVIOUS
<1>2. ASSUME NEW y PROVE y \in Elements(s) <=> y = s[1] \/ y \in Elements(Tail(s))
  <2>1. CASE y \in Elements(s)
    <3>1. PICK k \in 1 .. Len(s) : y = s[k]
      BY <1>1, <2>1 DEF Elements
    <3>2. CASE k = 1
      BY <2>1, <3>1, <3>2
    <3>3. CASE k # 1
      <4>1. k - 1 \in 1 .. (Len(s) - 1) /\ Tail(s)[k - 1] = s[k]
        BY <1>1, <3>1, <3>3
      <4> QED
        BY <4>1, <3>1, <1>1, <2>1 DEF Elements
    <3> QED
      BY <3>2, <3>3
  <2>2. CASE y \in Elements(Tail(s))
    <3>1. PICK k \in 1 .. (Len(s) - 1) : y = Tail(s)[k]
      BY <1>1, <2>2 DEF Elements
    <3>2. k + 1 \in 1 .. Len(s) /\ y = s[k + 1]
      BY <1>1, <3>1
    <3> QED
      BY <3>2, <1>1, <2>2 DEF Elements
  <2>3. s[1] \in Elements(s)
    <3>1. 1 \in 1 .. Len(s)
      BY <1>1
    <3> QED
      BY <3>1, <1>1 DEF Elements
  <2> QED
    BY <2>1, <2>2, <2>3
<1>3. Elements(s) = {s[1]} \cup Elements(Tail(s))
  BY <1>2
<1>4. ASSUME Distinct(s) PROVE Distinct(Tail(s)) /\ s[1] \notin Elements(Tail(s))
  BY <1>1, <1>4 DEF Distinct, Elements
<1> QED
  BY <1>1, <1>3, <1>4

\* An empty channel holds no id.
LEMMA EmptyElements == Elements(<<>>) = {} /\ Distinct(<<>>) /\ <<>> \in Seq(Id) /\ Len(<<>>) = 0
  BY DEF Elements, Distinct

(***************************************************************************)
(* The invariant is inductive.                                             *)
(***************************************************************************)

\* It holds when a client sends its request.
LEMMA InitIndInv == Init => IndInv
<1> SUFFICES ASSUME Init PROVE IndInv
  OBVIOUS
<1>1. TypeOK
  <2>1. /\ request \in Ask /\ head \in [snap : Snap, version : Version]
        /\ received \in Seq(Id) /\ results \in Seq(Id) /\ Len(results) <= Buffer
    BY LookupAssumption, EmptyElements DEF Init
  <2> QED
    BY <2>1 DEF Init, TypeOK
<1>2. Pinned /\ Unstarted /\ Placed /\ NothingLost
  BY DEF Init, Pinned, Unstarted, Placed, NothingLost
<1>3. Apart
  BY EmptyElements DEF Init, Apart
<1> QED
  BY <1>1, <1>2, <1>3 DEF IndInv

\* The head moves, or the client cancels.
LEMMA EnvironmentStep ==
    ASSUME IndInv, Advance \/ Cancel
    PROVE  IndInv'
<1>1. UNCHANGED <<request, call, checker, pool, results>>
  BY DEF Advance, Cancel
<1>2. head' \in [snap : Snap, version : Version] /\ cancelled' \in BOOLEAN
  BY DEF Advance, Cancel, IndInv, TypeOK
<1>3. TypeOK'
  BY <1>1, <1>2 DEF IndInv, TypeOK, call, pool
<1>4. Pinned' /\ Unstarted' /\ Placed' /\ Apart' /\ NothingLost'
  BY <1>1 DEF IndInv, Pinned, Unstarted, Placed, Apart, NothingLost, Grants, call, pool
<1> QED
  BY <1>3, <1>4 DEF IndInv

\* HeadSnapshot and HeadVersion fill in the request.
LEMMA PinStep ==
    ASSUME IndInv,
           HeadSnapshot \/ HeadSnapshotFails \/ HeadVersion \/ HeadVersionFails
    PROVE  IndInv'
<1> USE DEF IndInv
<1>1. caller \in {"snapshot", "version"} /\ checker = "idle" /\ outcome = "none"
  BY DEF HeadSnapshot, HeadSnapshotFails, HeadVersion, HeadVersionFails, Pinned, Unstarted
<1>2. UNCHANGED <<head, cancelled, received, pool, results>>
  BY DEF HeadSnapshot, HeadSnapshotFails, HeadVersion, HeadVersionFails, command
<1>3. /\ todo = {} /\ checking = {} /\ sending = {} /\ ~failed
      /\ results = <<>> /\ received = <<>>
  BY <1>1 DEF Unstarted
<1>4. /\ todo' = {} /\ checking' = {} /\ sending' = {} /\ failed' = FALSE
      /\ results' = <<>> /\ received' = <<>>
  BY <1>2, <1>3 DEF pool, TypeOK
<1>5. /\ request' \in Ask
      /\ caller' \in {"version", "collect", "returned"}
      /\ caller' \in {"version", "collect"} => request'.snap \in Snap
      /\ caller' = "collect" => request'.version \in Version
      /\ caller' = "collect" <=> checker' # "idle"
      /\ checker' \in {"idle", "list"}
      /\ outcome' \in {"none", "error"}
      /\ outcome' = "none" <=> caller' # "returned"
  <2>1. request \in Ask /\ head \in [snap : Snap, version : Version]
    BY DEF TypeOK
  <2>2. CASE HeadSnapshot
    BY <2>1, <2>2, <1>1 DEF HeadSnapshot, Ask
  <2>3. CASE HeadVersion
    BY <2>1, <2>3, <1>1 DEF HeadVersion, Ask, Pinned
  <2>4. CASE HeadSnapshotFails \/ HeadVersionFails
    BY <2>1, <2>4, <1>1 DEF HeadSnapshotFails, HeadVersionFails, Return, command
  <2> QED
    BY <2>2, <2>3, <2>4
<1>6. TypeOK'
  BY <1>2, <1>4, <1>5, EmptyElements, LookupAssumption DEF TypeOK
<1>7. Pinned'
  BY <1>5 DEF Pinned
<1>8. Unstarted' /\ NothingLost'
  BY <1>4, <1>5 DEF Unstarted, NothingLost
<1>9. Placed' /\ Apart'
  BY <1>4, EmptyElements DEF Placed, Apart
<1> QED
  BY <1>6, <1>7, <1>8, <1>9

\* An id moves from resultChan to the client, or is lost with the stream.
LEMMA ReceiveStep ==
    ASSUME IndInv, Receive \/ SendFails
    PROVE  IndInv'
<1> USE DEF IndInv
<1>1. /\ UNCHANGED <<command, checker, pool>>
      /\ caller = "collect" /\ results # <<>> /\ results' = Tail(results)
  BY DEF Receive, SendFails
<1>2. /\ results \in Seq(Id) /\ received \in Seq(Id) /\ Len(results) <= Buffer
      /\ Distinct(results) /\ Distinct(received)
  BY DEF TypeOK, Apart
<1> DEFINE id == results[1]
<1>3. /\ results' \in Seq(Id) /\ Len(results') < Len(results) /\ id \in Id
      /\ Elements(results) = {id} \cup Elements(results')
      /\ Distinct(results') /\ id \notin Elements(results')
  BY <1>1, <1>2, TailElements
<1> HIDE DEF id
<1>4. request' = request /\ head' = head /\ cancelled' = cancelled /\ checker' = checker
      /\ todo' = todo /\ checking' = checking /\ sending' = sending /\ failed' = failed
  BY <1>1 DEF command, pool
<1>5. checker # "idle" /\ checker \notin {"list", "listError"} /\ outcome = "none"
  BY <1>1 DEF Pinned, Unstarted, TypeOK
<1>6. Len(results') <= Buffer
  BY <1>2, <1>3, LookupAssumption
<1>7. CASE Receive
  <2>1. /\ caller' = caller /\ outcome' = outcome
        /\ received' = Append(received, id)
    BY <1>7 DEF Receive, id
  <2>2. id \in Elements(results) /\ id \notin Elements(received)
    BY <1>3 DEF Apart
  <2>3. /\ received' \in Seq(Id) /\ Distinct(received')
        /\ Elements(received') = Elements(received) \cup {id}
    BY <2>1, <2>2, <1>2, <1>3, AppendElements
  <2>4. TypeOK'
    BY <1>3, <1>4, <1>6, <2>1, <2>3 DEF TypeOK
  <2>5. Pinned' /\ Unstarted'
    BY <1>1, <1>4, <1>5, <2>1 DEF Pinned, Unstarted
  <2>6. Placed' /\ Apart' /\ NothingLost'
    BY <1>3, <1>4, <1>5, <2>1, <2>2, <2>3 DEF Placed, Apart, NothingLost, Grants
  <2> QED
    BY <2>4, <2>5, <2>6
<1>8. CASE SendFails
  <2>1. caller' = "returned" /\ outcome' = "broken" /\ received' = received
    BY <1>8 DEF SendFails, Return
  <2>2. TypeOK'
    BY <1>3, <1>4, <1>6, <2>1 DEF TypeOK
  <2>3. Pinned' /\ Unstarted'
    BY <1>1, <1>4, <1>5, <2>1 DEF Pinned, Unstarted
  <2>4. Placed' /\ Apart' /\ NothingLost'
    BY <1>3, <1>4, <1>5, <2>1 DEF Placed, Apart, NothingLost, Grants
  <2> QED
    BY <2>2, <2>3, <2>4
<1> QED
  BY <1>7, <1>8

\* The lookup returns, with an error or at the end of resultChan.
LEMMA ReturnStep ==
    ASSUME IndInv, TakeError \/ Finish
    PROVE  IndInv'
<1> USE DEF IndInv
<1>1. /\ request' = request /\ head' = head /\ cancelled' = cancelled
      /\ todo' = todo /\ checking' = checking /\ sending' = sending /\ failed' = failed
      /\ received' = received /\ results' = results
      /\ caller = "collect" /\ caller' = "returned"
  BY DEF TakeError, Finish, Return, command, pool
<1>2. /\ outcome' \in {"ok", "error"} /\ checker # "idle" /\ checker' \in {"spawn", "closed"}
      /\ outcome = "none"
      /\ outcome' = "ok" => checker = "closed" /\ checker' = "closed" /\ results = <<>>
      /\ checker' = "closed" => checker \in {"error", "closed"}
      /\ outcome' = "ok" => ~failed
  BY <1>1 DEF TakeError, Finish, Return, Unstarted
<1>3. TypeOK'
  BY <1>1, <1>2 DEF TypeOK
<1>4. Pinned' /\ Unstarted'
  BY <1>1, <1>2 DEF Pinned, Unstarted
<1>5. Placed' /\ Apart' /\ NothingLost'
  BY <1>1, <1>2 DEF Placed, Apart, NothingLost, Grants
<1> QED
  BY <1>3, <1>4, <1>5

\* parallelChecker lists the entities, or waits for its workers and closes.
LEMMA CheckerStep ==
    ASSUME IndInv, List \/ ListFails \/ Wait
    PROVE  IndInv'
<1> USE DEF IndInv
<1>1. /\ request' = request /\ head' = head /\ cancelled' = cancelled
      /\ checking' = checking /\ sending' = sending /\ failed' = failed
      /\ received' = received /\ results' = results
      /\ caller' = caller /\ outcome' = outcome
  BY DEF List, ListFails, Wait, command, call, pool
<1>2. CASE List
  <2>1. /\ checker = "list" /\ checker' = "spawn" /\ todo' = Listed[request.snap]
        /\ request.snap \in Snap /\ caller \notin {"snapshot", "version"} /\ outcome # "ok"
    BY <1>2 DEF List, Pinned, Unstarted
  <2>2. todo' \subseteq Id
    BY <2>1, LookupAssumption
  <2>3. todo = {} /\ checking = {} /\ sending = {} /\ results = <<>> /\ received = <<>> /\ ~failed
    BY <2>1 DEF Unstarted
  <2>4. TypeOK'
    BY <1>1, <2>1, <2>2 DEF TypeOK
  <2>5. Pinned' /\ Unstarted'
    BY <1>1, <2>1, <2>3 DEF Pinned, Unstarted
  <2>6. Placed' /\ Apart' /\ NothingLost'
    BY <1>1, <2>1, <2>3, EmptyElements DEF Placed, Apart, NothingLost, Grants
  <2> QED
    BY <2>4, <2>5, <2>6
<1>3. CASE ListFails
  <2>1. checker = "list" /\ checker' = "listError" /\ todo' = todo
    BY <1>3 DEF ListFails, pool
  <2>2. TypeOK'
    BY <1>1, <2>1 DEF TypeOK
  <2>3. Pinned' /\ Unstarted'
    BY <1>1, <2>1 DEF Pinned, Unstarted
  <2>4. Placed' /\ Apart' /\ NothingLost'
    BY <1>1, <2>1 DEF Placed, Apart, NothingLost, Grants
  <2> QED
    BY <2>2, <2>3, <2>4
<1>4. CASE Wait
  <2>1. /\ checker = "spawn" /\ checker' \in {"error", "closed"} /\ todo' = todo
        /\ todo = {} /\ checking = {} /\ sending = {}
        /\ checker' = "closed" => ~failed
    BY <1>4 DEF Wait, pool
  <2>2. TypeOK'
    BY <1>1, <2>1 DEF TypeOK
  <2>3. Pinned' /\ Unstarted'
    BY <1>1, <2>1 DEF Pinned, Unstarted
  <2>4. Placed' /\ Apart' /\ NothingLost'
    BY <1>1, <2>1 DEF Placed, Apart, NothingLost, Grants
  <2> QED
    BY <2>2, <2>3, <2>4
<1> QED
  BY <1>2, <1>3, <1>4

\* A check is started, answers or fails, or its id goes into resultChan.
LEMMA WorkerStep ==
    ASSUME IndInv, NEW i, Go(i) \/ Checked(i) \/ CheckFails(i) \/ Send(i)
    PROVE  IndInv'
<1> USE DEF IndInv
<1>1. /\ request' = request /\ head' = head /\ cancelled' = cancelled
      /\ received' = received /\ caller' = caller /\ outcome' = outcome /\ checker' = checker
  BY DEF Go, Checked, CheckFails, Send, command, call
<1>2. i \in todo \cup checking \cup sending /\ i \in Id /\ checker = "spawn" /\ outcome # "ok"
  <2>1. i \in todo \cup checking \cup sending
    BY DEF Go, Checked, CheckFails, Send
  <2> QED
    BY <2>1 DEF Unstarted, TypeOK
<1>3. Pinned'
  BY <1>1 DEF Pinned
<1>4. Unstarted'
  BY <1>1, <1>2 DEF Unstarted
<1>5. CASE Go(i)
  <2>1. /\ i \in todo /\ todo' = todo \ {i} /\ checking' = checking \cup {i}
        /\ sending' = sending /\ failed' = failed /\ results' = results
    BY <1>5 DEF Go
  <2>2. TypeOK'
    BY <1>1, <1>2, <2>1 DEF TypeOK
  <2>3. Placed' /\ Apart' /\ NothingLost'
    BY <1>1, <1>2, <2>1 DEF Placed, Apart, NothingLost, Grants
  <2> QED
    BY <1>3, <1>4, <2>2, <2>3
<1>6. CASE Checked(i)
  <2>1. /\ i \in checking /\ todo' = todo /\ checking' = checking \ {i}
        /\ sending' = (IF i \in Grants THEN sending \cup {i} ELSE sending)
        /\ failed' = failed /\ results' = results
    BY <1>6 DEF Checked, Allowed
  <2>2. TypeOK'
    BY <1>1, <1>2, <2>1 DEF TypeOK
  <2>3. Grants' = Grants
    BY <1>1 DEF Grants
  <2>4. Placed' /\ Apart' /\ NothingLost'
    BY <1>1, <1>2, <2>1, <2>3 DEF Placed, Apart, NothingLost
  <2> QED
    BY <1>3, <1>4, <2>2, <2>4
<1>7. CASE CheckFails(i)
  <2>1. /\ i \in checking /\ todo' = todo /\ checking' = checking \ {i}
        /\ sending' = sending /\ failed' = TRUE /\ results' = results
    BY <1>7 DEF CheckFails
  <2>2. TypeOK'
    BY <1>1, <1>2, <2>1 DEF TypeOK
  <2>3. Placed' /\ Apart' /\ NothingLost'
    BY <1>1, <1>2, <2>1 DEF Placed, Apart, NothingLost, Grants
  <2> QED
    BY <1>3, <1>4, <2>2, <2>3
<1>8. CASE Send(i)
  <2>1. /\ i \in sending /\ todo' = todo /\ checking' = checking /\ sending' = sending \ {i}
        /\ failed' = failed /\ results' = Append(results, i) /\ Len(results) < Buffer
    BY <1>8 DEF Send
  <2>2. results \in Seq(Id) /\ Distinct(results) /\ i \notin Elements(results)
    BY <2>1 DEF TypeOK, Apart
  <2>3. /\ results' \in Seq(Id) /\ Distinct(results') /\ Len(results') = Len(results) + 1
        /\ Elements(results') = Elements(results) \cup {i}
    BY <1>2, <2>1, <2>2, AppendElements
  <2>4. Len(results') <= Buffer
    BY <2>1, <2>2, <2>3, LookupAssumption
  <2>5. TypeOK'
    BY <1>1, <1>2, <2>1, <2>3, <2>4 DEF TypeOK
  <2>6. Placed' /\ Apart' /\ NothingLost'
    BY <1>1, <1>2, <2>1, <2>3 DEF Placed, Apart, NothingLost, Grants
  <2> QED
    BY <1>3, <1>4, <2>5, <2>6
<1> QED
  BY <1>5, <1>6, <1>7, <1>8

\* The invariant holds for ever: every listed id is in one place, and none is
\* lost but by an error or a broken stream.
THEOREM LookupInvariance == Spec => []IndInv
<1>1. IndInv /\ [Next]_vars => IndInv'
  <2> SUFFICES ASSUME IndInv, [Next]_vars PROVE IndInv'
    OBVIOUS
  <2>1. CASE Step
    BY <2>1, PinStep, ReceiveStep, ReturnStep, CheckerStep, WorkerStep DEF Step
  <2>2. CASE Disturbance
    BY <2>2, EnvironmentStep, PinStep, ReceiveStep, CheckerStep, WorkerStep DEF Disturbance
  <2>3. CASE UNCHANGED vars
    BY <2>3 DEF vars, command, call, pool, IndInv, TypeOK, Pinned, Unstarted, Placed, Apart,
                NothingLost, Grants
  <2> QED
    BY <2>1, <2>2, <2>3 DEF Next
<1> QED
  BY InitIndInv, <1>1, PTL DEF Spec

\* The variables of a lookup keep their types; resultChan never overflows.
THEOREM LookupTypeCorrect == Spec => []TypeOK
<1>1. IndInv => TypeOK
  BY DEF IndInv
<1> QED
  BY LookupInvariance, <1>1, PTL

\* Execute and Stream deliver only entities the subject has the permission on
\* at the pinned snap token and schema version, and none of them twice.
THEOREM LookupSound == Spec => []ReceivedSound
<1>1. IndInv => ReceivedSound
  BY DEF IndInv, Placed, Apart, ReceivedSound
<1> QED
  BY LookupInvariance, <1>1, PTL

\* A lookup that returns without an error has found all of them.
THEOREM LookupComplete == Spec => []Complete
<1>1. IndInv => Complete
  <2> SUFFICES ASSUME IndInv, outcome = "ok" PROVE Complete
    BY DEF Complete
  <2>1. checker = "closed" /\ results = <<>> /\ ~failed
        /\ todo = {} /\ checking = {} /\ sending = {}
    BY DEF IndInv, Unstarted
  <2>2. Elements(results) = {}
    BY <2>1, EmptyElements
  <2>3. Listed[request.snap] \cap Grants \subseteq Elements(received)
    BY <2>1, <2>2 DEF IndInv, NothingLost
  <2>4. Elements(received) \subseteq Listed[request.snap] \cap Grants
    BY <2>1 DEF IndInv, Placed
  <2> QED
    BY <2>1, <2>3, <2>4 DEF Complete
<1> QED
  BY LookupInvariance, <1>1, PTL
-----------------------------------------------------------------------------
(***************************************************************************)
(* Progress.  Liveness itself is beyond the prover, ENABLED included; its  *)
(* two halves are not: as long as a lookup goes on somebody can take a     *)
(* step, and no step can be repeated for ever.  CanStep collects, action   *)
(* by action, the guards of Step.                                          *)
(***************************************************************************)
CanStep ==
    \/ caller \in {"snapshot", "version"}                                \* HeadSnapshot, HeadVersion
    \/ caller = "collect" /\ results # <<>>                              \* Receive
    \/ /\ request.mode = "stream" /\ caller = "collect"                  \* TakeError
       /\ checker \in {"listError", "error"}
    \/ caller = "collect" /\ checker = "closed" /\ results = <<>>        \* Finish
    \/ checker = "list"                                                  \* List
    \/ /\ checker = "spawn" /\ todo # {}                                 \* Go
       /\ Cardinality(checking \cup sending) < Workers
    \/ checking # {}                                                     \* Checked
    \/ sending # {} /\ Len(results) < Buffer                             \* Send
    \/ checker = "spawn" /\ todo = {} /\ checking = {} /\ sending = {}   \* Wait

\* When no goroutine of a lookup can go on, for whatever pool and channel, it
\* has returned and nothing is left of parallelChecker; or the client of the
\* stream went away; or Execute waits for resultChan while parallelChecker
\* waits for somebody to take its error from errChan.
NobodyStuck ==
    ~CanStep => \/ caller = "returned" /\ checker \in {"idle", "closed"}
                \/ outcome = "broken"
                \/ /\ request.mode = "execute" /\ caller = "collect"
                   /\ checker \in {"listError", "error"}

\* After an error parallelChecker has nothing left to do but to close resultChan.
Abandoned ==
    /\ caller = "collect" => checker # "idle"
    /\ outcome = "error" /\ checker \notin {"idle", "closed"} =>
        checker = "spawn" /\ todo = {} /\ checking = {} /\ sending = {} /\ ~failed

(***************************************************************************)
(* How far a lookup is: the places of caller and parallelChecker, then the *)
(* ids, each counted by the steps it still has to take.                    *)
(***************************************************************************)
CallerRank == [snapshot |-> 3, version |-> 2, collect |-> 1, returned |-> 0]
CheckerRank == [idle |-> 5, list |-> 4, listError |-> 3, spawn |-> 2, error |-> 1, closed |-> 0]

Phase == CallerRank[caller] + CheckerRank[checker]
Work == 4 * Cardinality(todo) + 3 * Cardinality(checking) + 2 * Cardinality(sending) + Len(results)

\* Every step of a goroutine brings the lookup nearer to its end, and what
\* happens around it never throws it back: no goroutine runs in circles, and
\* what a lookup has left to do when it has listed the entities bounds the
\* number of its steps.
Nearer ==
    \/ Phase' < Phase
    \/ Phase' = Phase /\ Work' < Work

AsFar == Phase' = Phase /\ Work' = Work

Descends == (Step => Nearer) /\ (Nearer \/ AsFar)


-----------------------------------------------------------------------------
\* What is left after an error stays as it is.
LEMMA AbandonedStep == IndInv /\ Abandoned /\ [Next]_vars => Abandoned'
<1> SUFFICES ASSUME IndInv, Abandoned, [Next]_vars PROVE Abandoned'
  OBVIOUS
<1> USE DEF Abandoned, command, call, pool
<1>1. CASE HeadSnapshot \/ HeadVersion \/ Receive \/ TakeError \/ Finish
  BY <1>1 DEF HeadSnapshot, HeadVersion, Receive, TakeError, Finish, Return, IndInv, Unstarted
<1>2. CASE List \/ Wait
  BY <1>2 DEF List, Wait, IndInv, Unstarted
<1>3. ASSUME NEW i, Go(i) \/ Checked(i) \/ Send(i) \/ CheckFails(i) PROVE Abandoned'
  BY <1>3 DEF Go, Checked, Send, CheckFails, IndInv, Unstarted
<1>4. CASE Advance \/ Cancel
  BY <1>4 DEF Advance, Cancel
<1>5. CASE SendFails
  BY <1>5 DEF SendFails, Return
<1>6. CASE HeadSnapshotFails \/ HeadVersionFails \/ ListFails
  BY <1>6 DEF HeadSnapshotFails, HeadVersionFails, ListFails, Return, IndInv, Unstarted, Pinned
<1>7. CASE UNCHANGED vars
  BY <1>7 DEF vars
<1> QED
  BY <1>1, <1>2, <1>3, <1>4, <1>5, <1>6, <1>7 DEF Next, Step, Disturbance

\* Where no goroutine can take a step, none is waited for.
LEMMA StuckIsOver == IndInv /\ Abandoned => NobodyStuck
<1> SUFFICES ASSUME IndInv, Abandoned, ~CanStep
             PROVE  \/ caller = "returned" /\ checker \in {"idle", "closed"}
                    \/ outcome = "broken"
                    \/ /\ request.mode = "execute" /\ caller = "collect"
                       /\ checker \in {"listError", "error"}
  BY DEF NobodyStuck
<1>1. caller \in {"collect", "returned"} /\ request.mode \in {"execute", "stream"}
  BY DEF IndInv, TypeOK, CanStep, Ask
<1>2. CASE caller = "collect"
  <2>1. results = <<>> /\ checker \in {"listError", "spawn", "error"}
    BY <1>2 DEF IndInv, TypeOK, CanStep, Abandoned
  <2>2. Len(results) < Buffer
    BY <2>1, LookupAssumption
  <2>3. checking = {} /\ sending = {}
    BY <2>2 DEF CanStep
  <2>4. Cardinality(checking \cup sending) < Workers
    BY <2>3, FS_EmptySet, LookupAssumption
  <2>5. checker # "spawn"
    BY <2>3, <2>4 DEF CanStep
  <2> QED
    BY <1>1, <1>2, <2>1, <2>5 DEF CanStep
<1>3. CASE caller = "returned"
  <2>1. outcome \in {"ok", "error", "broken"}
    BY <1>3 DEF IndInv, TypeOK, Unstarted
  <2>2. CASE outcome = "ok"
    BY <1>3, <2>2 DEF IndInv, Unstarted
  <2>3. CASE outcome = "error"
    BY <1>3, <2>3 DEF Abandoned, CanStep
  <2> QED
    BY <2>1, <2>2, <2>3
<1> QED
  BY <1>1, <1>2, <1>3

\* The pool, the channel and the errors of a lookup never block one another, for
\* every limit of the errgroup, every capacity of resultChan and whatever fails:
\* the only waits without end are Execute's for an error it does not listen to,
\* and those of the workers of a stream whose client has gone.
THEOREM LookupNeverStuck == Spec => []NobodyStuck
<1>1. Init => Abandoned
  BY DEF Init, Abandoned
<1> QED
  BY <1>1, LookupInvariance, AbandonedStep, StuckIsOver, PTL DEF Spec

-----------------------------------------------------------------------------
\* The ids of a lookup are those that were listed: finitely many.
LEMMA FiniteIds ==
    ASSUME IndInv
    PROVE  IsFiniteSet(todo) /\ IsFiniteSet(checking) /\ IsFiniteSet(sending)
<1>1. CASE checker = "idle"
  BY <1>1, FS_EmptySet DEF IndInv, Unstarted
<1>2. CASE checker # "idle"
  <2>1. request.snap \in Snap
    BY <1>2 DEF IndInv, Pinned
  <2>2. IsFiniteSet(Listed[request.snap])
    BY <2>1, LookupAssumption
  <2>3. todo \subseteq Listed[request.snap] /\ checking \subseteq Listed[request.snap]
        /\ sending \subseteq Listed[request.snap]
    BY <1>2 DEF IndInv, Placed
  <2> QED
    BY <2>2, <2>3, FS_Subset
<1> QED
  BY <1>1, <1>2

\* The weights of the places an id goes through.
LEMMA Weights ==
    ASSUME NEW t \in Nat, NEW c \in Nat, NEW s \in Nat, NEW n \in Nat
    PROVE  /\ 4 * t + 3 * c + 2 * s + n \in Nat
           /\ 4 * (t - 1) + 3 * (c + 1) + 2 * s + n < 4 * t + 3 * c + 2 * s + n
           /\ 4 * t + 3 * (c - 1) + 2 * s + n < 4 * t + 3 * c + 2 * s + n
           /\ 4 * t + 3 * (c - 1) + 2 * (s + 1) + n < 4 * t + 3 * c + 2 * s + n
           /\ 4 * t + 3 * c + 2 * (s - 1) + (n + 1) < 4 * t + 3 * c + 2 * s + n
  OBVIOUS

LEMMA Counts ==
    ASSUME IndInv
    PROVE  /\ Phase \in Nat /\ Work \in Nat
           /\ Cardinality(todo) \in Nat /\ Cardinality(checking) \in Nat
           /\ Cardinality(sending) \in Nat /\ Len(results) \in Nat
<1>1. /\ Cardinality(todo) \in Nat /\ Cardinality(checking) \in Nat
      /\ Cardinality(sending) \in Nat /\ Len(results) \in Nat
  BY FiniteIds, FS_CardinalityType DEF IndInv, TypeOK
<1>2. CallerRank[caller] \in Nat /\ CheckerRank[checker] \in Nat
  BY DEF IndInv, TypeOK, CallerRank, CheckerRank
<1>3. Phase \in Nat
  BY <1>2 DEF Phase
<1>4. Work \in Nat
  BY <1>1, Weights DEF Work
<1> QED
  BY <1>1, <1>3, <1>4

\* An id taken out of a finite set leaves one less.
LEMMA TakenOut ==
    ASSUME NEW S, NEW x \in S, IsFiniteSet(S)
    PROVE  Cardinality(S \ {x}) = Cardinality(S) - 1
  BY FS_RemoveElement

LEMMA PutIn ==
    ASSUME NEW S, NEW x, x \notin S, IsFiniteSet(S)
    PROVE  Cardinality(S \cup {x}) = Cardinality(S) + 1
  BY FS_AddElement

\* A step of a worker moves its id on.
LEMMA WorkerNearer ==
    ASSUME IndInv, NEW i, Go(i) \/ Checked(i) \/ CheckFails(i) \/ Send(i)
    PROVE  Nearer
<1> DEFINE t == Cardinality(todo)
           c == Cardinality(checking)
           s == Cardinality(sending)
           n == Len(results)
<1>1. t \in Nat /\ c \in Nat /\ s \in Nat /\ n \in Nat /\ Phase \in Nat
  BY Counts
<1>2. Phase' = Phase
  BY DEF Phase, Go, Checked, CheckFails, Send, command, call
<1>3. Work = 4 * t + 3 * c + 2 * s + n
  BY DEF Work
<1>W. /\ 4 * (t - 1) + 3 * (c + 1) + 2 * s + n < Work
      /\ 4 * t + 3 * (c - 1) + 2 * s + n < Work
      /\ 4 * t + 3 * (c - 1) + 2 * (s + 1) + n < Work
      /\ 4 * t + 3 * c + 2 * (s - 1) + (n + 1) < Work
  <2> HIDE DEF t, c, s, n
  <2> QED
    BY <1>1, <1>3, Weights
<1> HIDE DEF t, c, s, n
<1>4. CASE Go(i)
  <2>1. /\ i \in todo /\ i \notin checking /\ todo' = todo \ {i} /\ checking' = checking \cup {i}
        /\ sending' = sending /\ results' = results
    BY <1>4 DEF Go, IndInv, Apart
  <2>2. Cardinality(todo') = t - 1 /\ Cardinality(checking') = c + 1
    BY <2>1, FiniteIds, TakenOut, PutIn DEF t, c
  <2>3. Work' = 4 * (t - 1) + 3 * (c + 1) + 2 * s + n
    BY <2>1, <2>2 DEF Work, t, c, s, n
  <2> QED
    BY <1>2, <1>W, <2>3 DEF Nearer
<1>5. CASE Checked(i)
  <2>1. /\ i \in checking /\ i \notin sending /\ checking' = checking \ {i} /\ todo' = todo
        /\ sending' = sending \/ sending' = sending \cup {i}
        /\ results' = results
    BY <1>5 DEF Checked, IndInv, Apart
  <2>2. Cardinality(checking') = c - 1
    BY <2>1, FiniteIds, TakenOut DEF c, s
  <2>3. Cardinality(sending') \in {s, s + 1}
    BY <2>1, FiniteIds, PutIn DEF s
  <2>4. Work' = 4 * t + 3 * (c - 1) + 2 * Cardinality(sending') + n
    BY <2>1, <2>2 DEF Work, t, c, s, n
  <2> QED
    BY <1>2, <1>W, <2>3, <2>4 DEF Nearer
<1>6. CASE CheckFails(i)
  <2>1. /\ i \in checking /\ checking' = checking \ {i} /\ todo' = todo
        /\ sending' = sending /\ results' = results
    BY <1>6 DEF CheckFails
  <2>2. Cardinality(checking') = c - 1
    BY <2>1, FiniteIds, TakenOut DEF c, s
  <2>3. Work' = 4 * t + 3 * (c - 1) + 2 * s + n
    BY <2>1, <2>2 DEF Work, t, c, s, n
  <2> QED
    BY <1>2, <1>W, <2>3 DEF Nearer
<1>7. CASE Send(i)
  <2>1. /\ i \in sending /\ i \in Id /\ sending' = sending \ {i} /\ todo' = todo
        /\ checking' = checking /\ results' = Append(results, i) /\ results \in Seq(Id)
    BY <1>7 DEF Send, IndInv, TypeOK
  <2>2. Cardinality(sending') = s - 1
    BY <2>1, FiniteIds, TakenOut DEF c, s
  <2>3. Len(results') = n + 1
    BY <2>1, AppendElements DEF n
  <2>4. Work' = 4 * t + 3 * c + 2 * (s - 1) + (n + 1)
    BY <2>1, <2>2, <2>3 DEF Work, t, c, s, n
  <2> QED
    BY <1>2, <1>W, <2>4 DEF Nearer
<1> QED
  BY <1>4, <1>5, <1>6, <1>7

\* Receiving an id leaves one less in the channel.
LEMMA ReceiveNearer == ASSUME IndInv, Receive PROVE Nearer
<1>1. results # <<>> /\ results' = Tail(results) /\ results \in Seq(Id)
  BY DEF Receive, IndInv, TypeOK
<1>2. /\ todo' = todo /\ checking' = checking /\ sending' = sending
      /\ caller' = caller /\ checker' = checker
  BY DEF Receive, pool
<1>3. Len(results') < Len(results) /\ Len(results') \in Nat
  BY <1>1, TailElements
<1>4. Phase' = Phase
  BY <1>2 DEF Phase
<1> DEFINE w == 4 * Cardinality(todo) + 3 * Cardinality(checking) + 2 * Cardinality(sending)
<1>5. w \in Nat /\ Len(results) \in Nat
  BY Counts
<1>6. Work = w + Len(results) /\ Work' = w + Len(results')
  BY <1>2 DEF Work
<1> HIDE DEF w
<1> QED
  BY <1>3, <1>4, <1>5, <1>6 DEF Nearer

\* The other steps move caller or parallelChecker on.
LEMMA PhaseNearer ==
    ASSUME IndInv,
           \/ HeadSnapshot \/ HeadVersion \/ TakeError \/ Finish \/ List \/ Wait
           \/ SendFails \/ HeadSnapshotFails \/ HeadVersionFails \/ ListFails
    PROVE  Nearer
<1> USE DEF Nearer, Phase, CallerRank, CheckerRank
<1>1. CASE HeadSnapshot \/ HeadVersion
  <2>1. checker = "idle"
    BY <1>1 DEF IndInv, Pinned, HeadSnapshot, HeadVersion
  <2> QED
    BY <1>1, <2>1 DEF HeadSnapshot, HeadVersion
<1>2. CASE TakeError
  BY <1>2 DEF TakeError, Return
<1>3. CASE Finish
  BY <1>3 DEF Finish, Return
<1>4. CASE List \/ Wait \/ ListFails
  <2>1. caller' = caller /\ caller \in {"snapshot", "version", "collect", "returned"}
    BY <1>4 DEF IndInv, TypeOK, List, Wait, ListFails, call
  <2> QED
    BY <1>4, <2>1 DEF List, Wait, ListFails
<1>5. CASE SendFails \/ HeadSnapshotFails \/ HeadVersionFails
  <2>1. checker' = checker
        /\ checker \in {"idle", "list", "listError", "spawn", "error", "closed"}
    BY <1>5 DEF IndInv, TypeOK, SendFails, HeadSnapshotFails, HeadVersionFails
  <2> QED
    BY <1>5, <2>1 DEF SendFails, HeadSnapshotFails, HeadVersionFails, Return
<1> QED
  BY <1>1, <1>2, <1>3, <1>4, <1>5

\* No part of a lookup runs for ever: every step of Execute, Stream,
\* parallelChecker or a worker, failures included, strictly decreases a pair of
\* natural numbers, and new writes or a cancellation leave it as it is.
THEOREM LookupDescends == Spec => [][Descends]_vars
<1>1. IndInv /\ [Next]_vars => [Descends]_vars
  <2> SUFFICES ASSUME IndInv, Next PROVE Descends
    OBVIOUS
  <2>1. CASE Step
    BY <2>1, WorkerNearer, ReceiveNearer, PhaseNearer DEF Step, Descends
  <2>2. CASE Disturbance
    <3>1. CASE Advance \/ Cancel
      <4>1. AsFar
        BY <3>1 DEF Advance, Cancel, AsFar, Phase, Work, call, pool
      <4>2. ~Step
        BY <3>1 DEF Advance, Cancel, call, pool, Step, HeadSnapshot, HeadVersion, Receive,
                    TakeError, Finish, Return, List, Wait, Go, Checked, Send
      <4> QED
        BY <4>1, <4>2 DEF Descends
    <3>2. CASE ~(Advance \/ Cancel)
      BY <2>2, <3>2, WorkerNearer, PhaseNearer DEF Disturbance, Descends
    <3> QED
      BY <3>1, <3>2
  <2> QED
    BY <2>1, <2>2 DEF Next
<1> QED
  BY <1>1, LookupInvariance, PTL DEF Spec
=============================================================================
