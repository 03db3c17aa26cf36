---------------------------- MODULE LookupEntity ----------------------------
(***************************************************************************)
(* LookupEntityCommand (internal/commands/lookupEntity.go): which entities *)
(* of a type does a subject have a permission on?  The request is pinned   *)
(* to a snap token and a schema version, parallelChecker lists the         *)
(* entities and checks each one in a goroutine of an errgroup, the allowed *)
(* ones go through the buffered resultChan to the caller: Execute, which   *)
(* reads until the channel is closed, or Stream, which also listens to the *)
(* unbuffered errChan.  A check answers as Check!AnswersSound says.        *)
(***************************************************************************)
EXTENDS Naturals, FiniteSets, Sequences

CONSTANTS
    Id,        \* the entities of the type
    Snap,      \* snap tokens
    Version,   \* schema versions
    Listed,    \* Listed[s]: the entities that have a tuple at s
    Granted,   \* Granted[s][v]: the entities the subject has the permission on
    Asks,      \* the requests clients may send
    Workers,   \* the limit of the errgroup
    Buffer,    \* the capacity of resultChan
    Flaky,     \* what may fail: "snapshot", "version", "list", the check of an entity
    Fragile    \* whether clients may cancel or break the stream

Latest == ""     \* a request that leaves snap token or schema version to the command

Ask == [mode : {"execute", "stream"}, snap : Snap \cup {Latest}, version : Version \cup {Latest}]

ASSUME LookupAssumption ==
    /\ Listed \in [Snap -> SUBSET Id]
    /\ \A s \in Snap : IsFiniteSet(Listed[s])
    /\ Granted \in [Snap -> [Version -> SUBSET Id]]
    /\ Asks \subseteq Ask
    /\ Workers \in Nat \ {0}
    /\ Buffer \in Nat \ {0}
    /\ Fragile \in BOOLEAN
    /\ Latest \notin Snap \cup Version

VARIABLES
    head,       \* what HeadSnapshot and HeadVersion answer now
    request,    \* the request, its metadata filled in on the way
    cancelled,  \* the client has cancelled the context
    caller,     \* where Execute or Stream is
    outcome,    \* what it has returned
    received,   \* the ids collected, or sent on the stream
    checker,    \* where parallelChecker is
    todo,       \* ids it has not yet started a check for
    checking,   \* ids whose internalCheck waits for its answer ...
    sending,    \* ... and those that wait to be sent on resultChan
    failed,     \* the errgroup has an error
    results     \* resultChan

command == <<head, request, cancelled>>
call == <<caller, outcome, received>>
pool == <<todo, checking, sending, failed>>
vars == <<command, call, checker, pool, results>>

\* What the subject has the permission on, at the pinned snap token and version.
Grants == Granted[request.snap][request.version]

Init ==
    /\ head \in [snap : Snap, version : Version]
    /\ request \in Asks
    /\ cancelled = FALSE
    /\ caller = "snapshot" /\ outcome = "none" /\ received = <<>>
    /\ checker = "idle"
    /\ todo = {} /\ checking = {} /\ sending = {} /\ failed = FALSE
    /\ results = <<>>

-----------------------------------------------------------------------------
(***************************************************************************)
(* Execute and Stream.                                                     *)
(***************************************************************************)
Return(code) == caller' = "returned" /\ outcome' = code

\* Others write relationships and schemas meanwhile.
Advance ==
    /\ caller # "returned"
    /\ head' \in [snap : Snap, version : Version]
    /\ UNCHANGED <<request, cancelled, call, checker, pool, results>>

\* Stream runs under context.Background(): only Execute can be cancelled.
Cancel ==
    /\ Fragile /\ request.mode = "execute" /\ caller # "returned" /\ ~cancelled
    /\ cancelled' = TRUE
    /\ UNCHANGED <<head, request, call, checker, pool, results>>

MayFail(what) == what \in Flaky \/ cancelled

HeadSnapshot ==
    /\ caller = "snapshot" /\ caller' = "version"
    /\ request' = [request EXCEPT !.snap = IF @ = Latest THEN head.snap ELSE @]
    /\ UNCHANGED <<head, cancelled, outcome, received, checker, pool, results>>

HeadSnapshotFails ==
    /\ caller = "snapshot" /\ request.snap = Latest /\ MayFail("snapshot")
    /\ Return("error")
    /\ UNCHANGED <<command, received, checker, pool, results>>

\* HeadVersion, and the start of parallelChecker.
HeadVersion ==
    /\ caller = "version" /\ caller' = "collect"
    /\ request' = [request EXCEPT !.version = IF @ = Latest THEN head.version ELSE @]
    /\ checker' = "list"
    /\ UNCHANGED <<head, cancelled, outcome, received, pool, results>>

HeadVersionFails ==
    /\ caller = "version" /\ request.version = Latest /\ MayFail("version")
    /\ Return("error")
    /\ UNCHANGED <<command, received, checker, pool, results>>

\* Mutant: the results are only read once all the checks are done.
ReceiveAfterWait ==
    /\ caller = "collect" /\ checker = "closed" /\ results # <<>>
    /\ received' = Append(received, results[1])
    /\ results' = Tail(results)
    /\ UNCHANGED <<command, caller, outcome, checker, pool>>

\* An id arrives on resultChan: it is collected, or sent to the client.
Receive ==
    /\ caller = "collect" /\ results # <<>>
    /\ received' = Append(received, results[1])
    /\ results' = Tail(results)
    /\ UNCHANGED <<command, caller, outcome, checker, pool>>

\* server.Send() fails.
SendFails ==
    /\ Fragile /\ request.mode = "stream" /\ caller = "collect" /\ results # <<>>
    /\ Return("broken")
    /\ results' = Tail(results)
    /\ UNCHANGED <<command, received, checker, pool>>

\* Mutant: the error of the list is still in err, and sent again after Wait().
TakeErrorTwice ==
    /\ request.mode = "stream" /\ caller = "collect" /\ checker \in {"listError", "error"}
    /\ Return("error")
    /\ checker' = IF checker = "listError" THEN "error" ELSE "closed"
    /\ UNCHANGED <<command, received, pool, results>>

\* Stream takes an error from errChan, and parallelChecker goes on.
TakeError ==
    /\ request.mode = "stream" /\ caller = "collect" /\ checker \in {"listError", "error"}
    /\ Return("error")
    /\ checker' = IF checker = "listError" THEN "spawn" ELSE "closed"
    /\ UNCHANGED <<command, received, pool, results>>

\* Mutant: a closed resultChan is not told from an id.
FinishIgnored ==
    /\ caller = "collect" /\ checker = "closed" /\ results = <<>>
    /\ UNCHANGED vars

\* resultChan is closed and empty.
Finish ==
    /\ caller = "collect" /\ checker = "closed" /\ results = <<>>
    /\ Return("ok")
    /\ UNCHANGED <<command, received, checker, pool, results>>

-----------------------------------------------------------------------------
(***************************************************************************)
(* parallelChecker and its workers.                                        *)
(***************************************************************************)
List ==
    /\ checker = "list" /\ checker' = "spawn"
    /\ todo' = Listed[request.snap]
    /\ UNCHANGED <<command, call, checking, sending, failed, results>>

\* The error has to be taken before parallelChecker goes on, without ids.
ListFails ==
    /\ checker = "list" /\ MayFail("list")
    /\ checker' = "listError"
    /\ UNCHANGED <<command, call, pool, results>>

\* g.Go: blocks while the errgroup is at its limit.
Go(i) ==
    /\ checker = "spawn" /\ i \in todo
    /\ Cardinality(checking \cup sending) < Workers
    /\ todo' = todo \ {i} /\ checking' = checking \cup {i}
    /\ UNCHANGED <<command, call, checker, sending, failed, results>>

\* Mutant: the metadata is not handed on, the check runs at the head.
AllowedAtHead(i) == i \in Granted[head.snap][head.version]

\* The check of i at the snap token and the version of the request.
Allowed(i) == i \in Grants

Checked(i) ==
    /\ i \in checking /\ checking' = checking \ {i}
    /\ sending' = IF Allowed(i) THEN sending \cup {i} ELSE sending
    /\ UNCHANGED <<command, call, checker, todo, failed, results>>

CheckFails(i) ==
    /\ i \in checking /\ MayFail(i)
    /\ checking' = checking \ {i} /\ failed' = TRUE
    /\ UNCHANGED <<command, call, checker, todo, sending, results>>

\* Mutant: one more than fits.
SendOverfull(i) ==
    /\ i \in sending /\ Len(results) <= Buffer
    /\ sending' = sending \ {i}
    /\ results' = Append(results, i)
    /\ UNCHANGED <<command, call, checker, todo, checking, failed>>

\* resultChan <- id: blocks while the buffer is full.
Send(i) ==
    /\ i \in sending /\ Len(results) < Buffer
    /\ sending' = sending \ {i}
    /\ results' = Append(results, i)
    /\ UNCHANGED <<command, call, checker, todo, checking, failed>>

\* Mutant: the error of Wait() is dropped.
WaitWithoutError ==
    /\ checker = "spawn" /\ todo = {} /\ checking = {} /\ sending = {}
    /\ checker' = "closed"
    /\ UNCHANGED <<command, call, pool, results>>

\* g.Wait() returns: an error has to be taken before resultChan is closed.
Wait ==
    /\ checker = "spawn" /\ todo = {} /\ checking = {} /\ sending = {}
    /\ checker' = IF failed THEN "error" ELSE "closed"
    /\ UNCHANGED <<command, call, pool, results>>

-----------------------------------------------------------------------------
\* What the goroutines do by themselves ...
Step ==
    \/ HeadSnapshot \/ HeadVersion \/ Receive \/ TakeError \/ Finish
    \/ List \/ Wait
    \/ \E i \in todo : Go(i)
    \/ \E i \in checking : Checked(i)
    \/ \E i \in sending : Send(i)

\* ... and what may happen to them.
Disturbance ==
    \/ Advance \/ Cancel \/ SendFails
    \/ HeadSnapshotFails \/ HeadVersionFails \/ ListFails
    \/ \E i \in checking : CheckFails(i)

Next == Step \/ Disturbance

Spec == Init /\ [][Next]_vars

\* The Go scheduler runs some runnable goroutine, checks answer and clients read.
FairSpec == Spec /\ WF_vars(Step)
-----------------------------------------------------------------------------
(***************************************************************************)
(* Correctness.                                                            *)
(***************************************************************************)
Elements(s) == {s[k] : k \in DOMAIN s}
Distinct(s) == \A j, k \in DOMAIN s : s[j] = s[k] => j = k

\* The variables keep their types (Execute, Stream, parallelChecker).
TypeOK ==
    /\ head \in [snap : Snap, version : Version]
    /\ request \in Ask
    /\ cancelled \in BOOLEAN /\ failed \in BOOLEAN
    /\ caller \in {"snapshot", "version", "collect", "returned"}
    /\ outcome \in {"none", "ok", "error", "broken"}
    /\ checker \in {"idle", "list", "listError", "spawn", "error", "closed"}
    /\ todo \subseteq Id /\ checking \subseteq Id /\ sending \subseteq Id
    /\ received \in Seq(Id) /\ results \in Seq(Id) /\ Len(results) <= Buffer

\* Every id a client gets, while the stream runs or in the end, is one the
\* subject has the permission on at one snap token and one schema version,
\* whatever is written meanwhile, and no id comes twice.
ReceivedSound ==
    /\ checker # "idle" => Elements(received) \subseteq Listed[request.snap] \cap Grants
    /\ Distinct(received)

\* A lookup that returns without an error has returned all of them, and no
\* check or read it started has failed or is still going on.
Complete ==
    outcome = "ok" =>
        /\ Elements(received) = Listed[request.snap] \cap Grants
        /\ todo = {} /\ checking = {} /\ sending = {} /\ ~failed

\* A streamed lookup is answered, with ids or an error, whatever fails: nobody
\* waits for ever on a full resultChan, an error nobody takes or a channel
\* nobody closes.
StreamReturns ==
    (caller = "snapshot" /\ request.mode = "stream") ~> (caller = "returned")

\* So is a unary one when no check and no list fails, however small the pool
\* and the channel are: Execute does not listen to errChan.
ReturnsUnlessFailed ==
    (caller = "snapshot") ~> (caller = "returned" \/ failed \/ checker = "listError")

\* When a lookup returns other than because the stream broke, none of its
\* goroutines stays behind, blocked.
Released ==
    (caller = "returned" /\ outcome # "broken") ~> (checker \in {"idle", "closed"})

(***************************************************************************)
(* The inductive invariant behind ReceivedSound and Complete: every listed *)
(* id is in one place only, and no id is lost but by an error or a break.  *)
(***************************************************************************)
Pinned ==
    /\ caller \in {"version", "collect"} \/ checker # "idle" => request.snap \in Snap
    /\ caller = "collect" \/ checker # "idle" => request.version \in Version
    /\ caller \in {"snapshot", "version"} => checker = "idle"

Unstarted ==
    /\ checker \in {"idle", "list", "listError"} =>
        /\ todo = {} /\ checking = {} /\ sending = {}
        /\ results = <<>> /\ received = <<>> /\ ~failed
    /\ checker \in {"error", "closed"} => todo = {} /\ checking = {} /\ sending = {}
    /\ outcome = "ok" => caller = "returned" /\ checker = "closed" /\ results = <<>>
    /\ outcome = "none" <=> caller # "returned"
    /\ checker = "closed" /\ failed => outcome \in {"error", "broken"}

Placed ==
    checker # "idle" =>
        /\ todo \cup checking \subseteq Listed[request.snap]
        /\ sending \cup Elements(results) \cup Elements(received)
                \subseteq Listed[request.snap] \cap Grants

Apart ==
    /\ Distinct(results) /\ Distinct(received)
    /\ Elements(results) \cap Elements(received) = {}
    /\ todo \cap checking = {}
    /\ sending \cap (todo \cup checking) = {}
    /\ (Elements(results) \cup Elements(received)) \cap (todo \cup checking \cup sending) = {}

NothingLost ==
    checker \in {"spawn", "error", "closed"} /\ outcome \in {"none", "ok"} /\ ~failed =>
        Listed[request.snap] \cap Grants
            \subseteq todo \cup checking \cup sending \cup Elements(results) \cup Elements(received)

IndInv == TypeOK /\ Pinned /\ Unstarted /\ Placed /\ Apart /\ NothingLost
=============================================================================
