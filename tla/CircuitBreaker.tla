--------------------------- MODULE CircuitBreaker ---------------------------
(***************************************************************************)
(* The circuit breaker decorators of the relationship and schema           *)
(* repositories (internal/repositories/decorators).  Every method has one  *)
(* shape: hystrix.Go runs the delegate on a goroutine that puts its result *)
(* on `output', a channel of capacity one, and the caller waits for that   *)
(* channel or for hystrix's error channel `bErrors'.  The fallback returns *)
(* nil, and hystrix sends on bErrors only what a fallback returns.         *)
(*                                                                         *)
(* hystrix itself is external: one pool of tickets and one circuit per     *)
(* command, a call is refused when its circuit is open or its pool empty,  *)
(* a timed out call gives its ticket back while its delegate runs on, and  *)
(* a circuit opens on timeouts and refusals.  The delegate's own errors    *)
(* travel on `output', so they never count against the circuit.            *)
(***************************************************************************)
EXTENDS Naturals, FiniteSets, Sequences

CONSTANTS Callers,        \* goroutines that use the repositories
          Failures,       \* errors a delegate may answer with
          MaxConcurrent,  \* tickets of a command (hystrix.DefaultMaxConcurrent)
          Tripping        \* commands whose circuit may open: a bound

ASSUME BreakerAssumption == /\ MaxConcurrent \in Nat \ {0}
                            /\ "ok" \notin Failures

VARIABLES todo,     \* the repository methods a caller has still to call
          call,     \* the call it waits in
          open      \* the commands whose circuit is open

breakerVars == <<todo, call, open>>

Methods == {"QueryRelationships", "ReadRelationships", "GetUniqueEntityIDs",
            "HeadSnapshot", "WriteRelationships", "DeleteRelationships",
            "ReadSchema", "ReadSchemaDefinition", "HeadVersion", "WriteSchema"}

\* GetUniqueEntityIDsByEntityType runs under the name of QueryRelationships.
Commands == Methods \ {"GetUniqueEntityIDs"}

Answers == Failures \cup {"ok"}

\* worker: the goroutine hystrix.Go starts for the call ("running", "late" after
\* its timeout, "refused", "ended").  delegate: what the delegate answered, if it
\* has.
NoCall == [command |-> "none", worker |-> "none", delegate |-> {},
           output |-> {}, bErrors |-> {}]

BreakerInit == /\ todo = [c \in Callers |-> <<>>]
               /\ call = [c \in Callers |-> NoCall]
               /\ open = {}

Tickets(command) == {c \in Callers : /\ call[c].command = command
                                     /\ call[c].worker = "running"}

\* A plausible repair that hands the error on: a timed out call may then be
\* reported as failed although its delegate still answers.
FallbackHandsOn == {"ERROR_CODE_CIRCUIT_BREAKER"}

\* What reaches bErrors of a call that hystrix refuses or times out: the
\* fallback swallows the error.
Fallback == {}

\* A method: it starts the command and waits.  The worker finds the circuit
\* open or the pool empty and is refused, or takes a ticket and calls the
\* delegate.
Go(c, method, command) ==
    /\ todo[c] # <<>> /\ Head(todo[c]) = method /\ call[c] = NoCall
    /\ todo' = [todo EXCEPT ![c] = Tail(@)]
    /\ call' = [call EXCEPT ![c] =
          IF command \in open \/ Cardinality(Tickets(command)) >= MaxConcurrent
          THEN [NoCall EXCEPT !.command = command, !.worker = "refused", !.bErrors = Fallback]
          ELSE [NoCall EXCEPT !.command = command, !.worker = "running"]]
    /\ UNCHANGED open

QueryRelationships(c) == Go(c, "QueryRelationships", "QueryRelationships")

ReadRelationships(c) == Go(c, "ReadRelationships", "ReadRelationships")

GetUniqueEntityIDsByEntityType(c) == Go(c, "GetUniqueEntityIDs", "QueryRelationships")

HeadSnapshot(c) == Go(c, "HeadSnapshot", "HeadSnapshot")

WriteRelationships(c) == Go(c, "WriteRelationships", "WriteRelationships")

DeleteRelationships(c) == Go(c, "DeleteRelationships", "DeleteRelationships")

ReadSchema(c) == Go(c, "ReadSchema", "ReadSchema")

ReadSchemaDefinition(c) == Go(c, "ReadSchemaDefinition", "ReadSchemaDefinition")

HeadVersion(c) == Go(c, "HeadVersion", "HeadVersion")

WriteSchema(c) == Go(c, "WriteSchema", "WriteSchema")

\* The 1000 ms of the command pass: the ticket is returned, the delegate runs on.
Timeout(c) ==
    /\ call[c].worker = "running"
    /\ call' = [call EXCEPT ![c].worker = "late", ![c].bErrors = Fallback]
    /\ UNCHANGED <<todo, open>>

\* The delegate answers; the worker puts the answer on output and ends.
Answer(c) ==
    /\ call[c].worker \in {"running", "late"}
    /\ \E a \in Answers :
          call' = [call EXCEPT ![c].worker = "ended", ![c].delegate = {a}, ![c].output = {a}]
    /\ UNCHANGED <<todo, open>>

\* hystrix opens a circuit after timeouts and refusals, and closes it again.
Trip(k) ==
    /\ k \in Tripping \ open
    /\ \E c \in Callers : call[c].command = k /\ call[c].worker \in {"late", "refused"}
    /\ open' = open \cup {k}
    /\ UNCHANGED <<todo, call>>

Heal(k) ==
    /\ k \in open
    /\ open' = open \ {k}
    /\ UNCHANGED <<todo, call>>

\* What the caller's select may take: an answer, or the error of the breaker.
Selectable(c) == call[c].output \cup call[c].bErrors

BreakerStep(c) ==
    \/ QueryRelationships(c)
    \/ ReadRelationships(c)
    \/ GetUniqueEntityIDsByEntityType(c)
    \/ HeadSnapshot(c)
    \/ WriteRelationships(c)
    \/ DeleteRelationships(c)
    \/ ReadSchema(c)
    \/ ReadSchemaDefinition(c)
    \/ HeadVersion(c)
    \/ WriteSchema(c)
    \/ Answer(c)

BreakerEnvironment ==
    \/ \E c \in Callers : Timeout(c)
    \/ \E k \in Commands : Trip(k) \/ Heal(k)

-----------------------------------------------------------------------------
\* A call that hystrix refused: nothing will ever reach its caller.
Stranded(c) == call[c].worker = "refused" /\ Selectable(c) = {}
=============================================================================
