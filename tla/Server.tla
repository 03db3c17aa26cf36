------------------------------- MODULE Server -------------------------------
(***************************************************************************)
(* The life of the server process (ServiceContainer.Run and the serve      *)
(* command) with the requests that arrive meanwhile: over gRPC, or over    *)
(* HTTP through the gateway, which is a gRPC client of the same process.   *)
(* A request passes the interceptors, its handler makes the repository     *)
(* calls of its service one after the other through the circuit breakers,  *)
(* and the error of a call is mapped to a status.                          *)
(***************************************************************************)
EXTENDS CircuitBreaker, Requests

CONSTANTS Ask,          \* the requests each caller may send
          AuthMethod,   \* authn.method, "none" when authentication is disabled
          HttpEnabled,  \* http.enabled
          MayNotStart   \* whether the parts of start-up may fail

ASSUME ServerAssumption == /\ AuthMethod \in {"none", "preshared", "oidc"}
                           /\ HttpEnabled \in BOOLEAN
                           /\ MayNotStart \in BOOLEAN

\* A request names a method of the API and carries one message or, when it
\* cannot be decoded, none.
ASSUME AskAssumption ==
    \A r \in Callers : \A a \in Ask[r] : /\ a.via \in {"grpc", "http"}
                                        /\ a.route \in Routes
                                        /\ \A m, n \in a.body : m = n

VARIABLES main,        \* where Run is
          exit,        \* what Run returned, or "panicking": a goroutine with no
                       \* recovery above it is about to end the process
          grpc, http,  \* the two servers
          interrupted, \* SIGINT or SIGTERM was received: ctx is done
          req          \* the request of each caller

vars == <<breakerVars, main, exit, grpc, http, interrupted, req>>

\* body and path: what was sent.  msg: what the gRPC server received.
NoRequest == [at |-> "idle", via |-> "none", route |-> "none", key |-> "none", path |-> "",
              body |-> {}, msg |-> {}, reply |-> "none", connected |-> FALSE]

Init == /\ BreakerInit
        /\ main = "start"
        /\ exit = "none"
        /\ grpc = "down"
        /\ http = "off"
        /\ interrupted = FALSE
        /\ req = [r \in Callers |-> NoRequest]

-----------------------------------------------------------------------------
(* Statuses *)

ErrorCode == [ERROR_CODE_UNIQUE_CONSTRAINT |-> 2020, ERROR_CODE_SCHEMA_NOT_FOUND |-> 4003,
              ERROR_CODE_EXECUTION |-> 5005, ERROR_CODE_CIRCUIT_BREAKER |-> 5003]

GetStatus(err) ==
    LET code == ErrorCode[err] IN
    CASE err \notin DOMAIN ErrorCode -> "Internal"
      [] code > 999 /\ code < 1999 -> "Unauthenticated"
      [] code > 1999 /\ code < 2999 -> "InvalidArgument"
      [] code > 2999 /\ code < 3999 -> "NotFound"
      [] OTHER -> "Internal"

\* The bearer token of a call: "missing", "good" or "bad".
Authenticate(key) ==
    CASE AuthMethod = "none" -> {}
      [] key = "missing" -> {"Code(1001)"}
      [] key = "bad" -> {"Code(1002)"}
      [] OTHER -> {}

\* in is the message that was decoded, {} when that failed.
Validate(route, in) == CASE in = {} -> {"Internal"}
                         [] \E m \in in : ~Valid(route, m) -> {"InvalidArgument"}
                         [] OTHER -> {}

First(a, b) == IF a # {} THEN a ELSE b

\* Mutant: the authentication interceptor is missing.
RefusalValidOnly(route, key, in) == Validate(route, in)

\* The message is decoded before the interceptors of a unary call, of which the
\* validator is the outermost; of a stream the preshared authenticator looks at
\* the header before anything is received, the oidc one once the message has
\* been received and validated.
Refusal(route, key, in) ==
    IF route = "Permission.LookupEntityStream" /\ AuthMethod = "preshared"
    THEN First(Authenticate(key), Validate(route, in))
    ELSE First(Validate(route, in), Authenticate(key))

-----------------------------------------------------------------------------
(* Run *)

Returned(value) == /\ main' = "returned" /\ exit' = value
                   \* The process ends: whoever still waits is cut off.
                   /\ grpc' = "stopped" /\ http' = "closed"
                   /\ req' = [r \in Callers |->
                                IF req[r].at \in {"idle", "done"} THEN req[r]
                                ELSE [NoRequest EXCEPT !.at = "done",
                                        !.reply = IF req[r].connected THEN "cut" ELSE "Canceled"]]
                   /\ todo' = [c \in Callers |-> <<>>]
                   /\ call' = [c \in Callers |-> NoCall]
                   /\ UNCHANGED open

\* An authenticator that cannot be made, a certificate that cannot be read, a
\* port that is taken: Run returns.
StartFails == /\ MayNotStart
              /\ main = "start"
              /\ Returned("error")
              /\ UNCHANGED interrupted

\* The goroutine with grpcServer.Serve is started on the listener.
ServeGrpc == /\ main = "start"
             /\ main' = IF HttpEnabled THEN "dial" ELSE "serving"
             /\ grpc' = "serving"
             /\ UNCHANGED <<breakerVars, exit, http, interrupted, req>>

\* DialContext blocks for at most three seconds, and not at all once ctx is
\* done.  Its failure returns without stopping the gRPC server.
DialFails == /\ MayNotStart \/ interrupted
             /\ main = "dial"
             /\ Returned("error")
             /\ UNCHANGED interrupted

\* The goroutine with ListenAndServe may find the port taken: it logs that.
ServeHttp == /\ main = "dial"
             /\ main' = "serving"
             /\ http' \in IF MayNotStart THEN {"serving", "failed"} ELSE {"serving"}
             /\ UNCHANGED <<breakerVars, exit, grpc, interrupted, req>>

Interrupt == /\ ~interrupted /\ main # "returned"
             /\ interrupted' = TRUE
             /\ UNCHANGED <<breakerVars, main, exit, grpc, http, req>>

\* <-ctx.Done(): the HTTP server stops to accept first.
Shutdown == /\ main = "serving" /\ interrupted
            /\ main' = IF HttpEnabled THEN "shutdown" ELSE "stopping"
            /\ http' = IF http = "serving" THEN "draining" ELSE http
            /\ grpc' = IF HttpEnabled THEN grpc ELSE "draining"
            /\ UNCHANGED <<breakerVars, exit, interrupted, req>>

HttpBusy == \E r \in Callers : /\ req[r].via = "http" /\ req[r].connected
                               /\ req[r].at \notin {"idle", "done"}

\* Shutdown returns once no HTTP request is in flight; GracefulStop follows.
ShutdownDone == /\ main = "shutdown" /\ ~HttpBusy
                /\ main' = "stopping"
                /\ http' = "closed"
                /\ grpc' = "draining"
                /\ UNCHANGED <<breakerVars, exit, interrupted, req>>

\* Mutant: Shutdown has no deadline.
ShutdownTimeoutNever == FALSE /\ UNCHANGED vars

\* Its five seconds pass: Run returns the error, without GracefulStop.
ShutdownTimeout == /\ main = "shutdown" /\ HttpBusy
                   /\ Returned("error")
                   /\ UNCHANGED interrupted

Handling == {r \in Callers : req[r].at \in {"stream", "handler", "working", "hung"}}

\* Mutant: the gRPC server is stopped without waiting.
GracefulStopAtOnce == /\ main = "stopping"
                      /\ Returned("nil")
                      /\ UNCHANGED interrupted

\* GracefulStop returns once every handler has.
GracefulStop == /\ main = "stopping" /\ Handling = {}
                /\ Returned("nil")
                /\ UNCHANGED interrupted

Panic == /\ exit = "panicking" /\ main # "returned"
         /\ Returned("panic")
         /\ UNCHANGED interrupted

-----------------------------------------------------------------------------
(* Requests *)

Finish(r, status) == req' = [req EXCEPT ![r] = [NoRequest EXCEPT !.at = "done", !.reply = status]]

Arrive(r) ==
    /\ req[r].at = "idle"
    /\ \E a \in Ask[r] :
          /\ IF a.via = "http" THEN http = "serving" ELSE grpc = "serving"
          /\ req' = [req EXCEPT ![r] =
                [NoRequest EXCEPT !.at = IF a.via = "http" THEN "gateway" ELSE "stream",
                                  !.via = a.via, !.route = a.route, !.key = a.key,
                                  !.path = a.path, !.body = a.body, !.connected = TRUE,
                                  !.msg = IF a.via = "http" THEN {} ELSE a.body]]
    /\ UNCHANGED <<breakerVars, main, exit, grpc, http, interrupted>>

\* The gateway decodes the request and calls the gRPC server with it.
Forward(r) ==
    /\ req[r].at = "gateway"
    /\ LET sent == Gateway(req[r].route, req[r]) IN
       CASE sent = {} -> Finish(r, "InvalidArgument")
         [] sent # {} /\ grpc # "serving" -> Finish(r, "Unavailable")
         [] OTHER -> req' = [req EXCEPT ![r].at = "stream", ![r].msg = sent]
    /\ UNCHANGED <<breakerVars, main, exit, grpc, http, interrupted>>

\* A generated handler decodes the message of its method and hands it to the
\* interceptors.
Receive(r, route, messages) ==
    /\ req[r].at = "stream" /\ req[r].route = route
    /\ LET in == {m \in req[r].msg : m \in messages}
           refusal == Refusal(route, req[r].key, in)
       IN IF refusal # {} THEN Finish(r, CHOOSE s \in refusal : TRUE)
          ELSE req' = [req EXCEPT ![r].at = "handler"]
    /\ UNCHANGED <<breakerVars, main, exit, grpc, http, interrupted>>

Permission_Check_Handler(r) == Receive(r, "Permission.Check", PermissionCheckRequests)

Permission_Expand_Handler(r) == Receive(r, "Permission.Expand", PermissionExpandRequests)

Permission_LookupSchema_Handler(r) ==
    Receive(r, "Permission.LookupSchema", PermissionLookupSchemaRequests)

Permission_LookupEntity_Handler(r) ==
    Receive(r, "Permission.LookupEntity", PermissionLookupEntityRequests)

Permission_LookupEntityStream_Handler(r) ==
    Receive(r, "Permission.LookupEntityStream", PermissionLookupEntityRequests)

Schema_Write_Handler(r) == Receive(r, "Schema.Write", SchemaWriteRequests)

Schema_Read_Handler(r) == Receive(r, "Schema.Read", SchemaReadRequests)

Relationship_Write_Handler(r) == Receive(r, "Relationship.Write", RelationshipWriteRequests)

Relationship_Read_Handler(r) == Receive(r, "Relationship.Read", RelationshipReadRequests)

Relationship_Delete_Handler(r) == Receive(r, "Relationship.Delete", RelationshipDeleteRequests)

Tenancy_Create_Handler(r) == Receive(r, "Tenancy.Create", TenantCreateRequests)

Tenancy_Delete_Handler(r) == Receive(r, "Tenancy.Delete", TenantDeleteRequests)

Tenancy_List_Handler(r) == Receive(r, "Tenancy.List", TenantListRequests)

Welcome_Hello_Handler(r) == Receive(r, "Welcome.Hello", Empties)

\* The handler of a route: a panic is turned into Internal by the recovery
\* interceptor, otherwise its service makes the repository calls of the
\* message m, one after the other.
Handle(r, route, m, calls) ==
    /\ req[r].at = "handler" /\ req[r].route = route
    /\ CASE Panics(route, m) -> Finish(r, "Internal") /\ UNCHANGED todo
         [] ~Panics(route, m) /\ route = "Relationship.Write" /\ UserWithRelation(m) ->
               Finish(r, "Unknown") /\ UNCHANGED todo
         [] OTHER -> /\ req' = [req EXCEPT ![r].at = "working"]
                     /\ todo' = [todo EXCEPT ![r] = calls]
    /\ UNCHANGED <<call, open, main, exit, grpc, http, interrupted>>

\* The snapshot and the schema version a request does not name are those of
\* the head.
Snapshot(m) == IF GetSnapToken(m) = "" THEN <<"HeadSnapshot">> ELSE <<>>

Version(m) == IF GetSchemaVersion(m) = "" THEN <<"HeadVersion">> ELSE <<>>

CheckCalls(m) == Snapshot(m) \o Version(m) \o <<"ReadSchemaDefinition", "QueryRelationships">>

LookupEntityCalls(m) == Snapshot(m) \o Version(m) \o <<"GetUniqueEntityIDs",
                           "ReadSchemaDefinition", "QueryRelationships">>

LookupSchemaCalls(m) == Version(m) \o <<"ReadSchemaDefinition">>

SchemaWriteCalls(m) == <<"WriteSchema">>

SchemaReadCalls(m) == Version(m) \o <<"ReadSchema">>

\* The definition is read for each tuple.
RelationshipWriteCalls(m) == Version(m) \o [i \in DOMAIN m.tuples |-> "ReadSchemaDefinition"]
                                \o <<"WriteRelationships">>

RelationshipReadCalls(m) == Snapshot(m) \o <<"ReadRelationships">>

RelationshipDeleteCalls(m) == <<"DeleteRelationships">>

NoCalls(m) == <<>>

\* A check and an expansion that need one definition and one read.
Check(r) == \E m \in req[r].msg : Handle(r, "Permission.Check", m, CheckCalls(m))

Expand(r) == \E m \in req[r].msg : Handle(r, "Permission.Expand", m, CheckCalls(m))

LookupSchema(r) ==
    \E m \in req[r].msg : Handle(r, "Permission.LookupSchema", m, LookupSchemaCalls(m))

LookupEntity(r) ==
    \E m \in req[r].msg : Handle(r, "Permission.LookupEntity", m, LookupEntityCalls(m))

LookupEntityStream(r) ==
    \E m \in req[r].msg : Handle(r, "Permission.LookupEntityStream", m, LookupEntityCalls(m))

SchemaWrite(r) == \E m \in req[r].msg : Handle(r, "Schema.Write", m, SchemaWriteCalls(m))

SchemaRead(r) == \E m \in req[r].msg : Handle(r, "Schema.Read", m, SchemaReadCalls(m))

RelationshipWrite(r) ==
    \E m \in req[r].msg : Handle(r, "Relationship.Write", m, RelationshipWriteCalls(m))

RelationshipRead(r) ==
    \E m \in req[r].msg : Handle(r, "Relationship.Read", m, RelationshipReadCalls(m))

RelationshipDelete(r) ==
    \E m \in req[r].msg : Handle(r, "Relationship.Delete", m, RelationshipDeleteCalls(m))

\* The tenant repositories have no breaker, and Hello has no repository.
TenantCreate(r) == \E m \in req[r].msg : Handle(r, "Tenancy.Create", m, NoCalls(m))

TenantDelete(r) == \E m \in req[r].msg : Handle(r, "Tenancy.Delete", m, NoCalls(m))

TenantList(r) == \E m \in req[r].msg : Handle(r, "Tenancy.List", m, NoCalls(m))

Hello(r) == \E m \in req[r].msg : Handle(r, "Welcome.Hello", m, NoCalls(m))

\* The service has made all its calls.
Respond(r) ==
    /\ req[r].at = "working" /\ todo[r] = <<>> /\ call[r] = NoCall
    /\ Finish(r, "OK")
    /\ UNCHANGED <<breakerVars, main, exit, grpc, http, interrupted>>

\* Mutant: an error of the delegate is not selected.
ResultOkOnly(r) ==
    /\ req[r].at = "working" /\ "ok" \in Selectable(r)
    /\ call' = [call EXCEPT ![r] = NoCall]
    /\ UNCHANGED <<todo, open, main, exit, grpc, http, interrupted, req>>

\* The unary lookup's parallelChecker sends the error of its reads and of its
\* checks on errChan, which Execute does not read: it ranges over resultsChan,
\* and parallelChecker never comes to close it.
Unheard(r) == /\ req[r].route = "Permission.LookupEntity"
              /\ call[r].command \notin {"HeadSnapshot", "HeadVersion"}

\* A read of an expansion may be that of a tuple to user set, which sends the
\* error and goes on with a nil iterator, on a goroutine of its own.
MayPanic(r) == /\ req[r].route = "Permission.Expand"
               /\ call[r].command = "QueryRelationships"

\* The caller's select in the decorator takes what is there.
Result(r) ==
    /\ req[r].at = "working"
    /\ \E a \in Selectable(r) :
          IF a = "ok" THEN UNCHANGED <<req, todo, exit>>
          ELSE /\ IF Unheard(r) THEN req' = [req EXCEPT ![r].at = "hung"]
                  ELSE Finish(r, GetStatus(a))
               /\ todo' = [todo EXCEPT ![r] = <<>>]
               /\ exit' \in {exit} \cup {x \in {"panicking"} : MayPanic(r)}
    /\ call' = [call EXCEPT ![r] = NoCall]
    /\ UNCHANGED <<open, main, grpc, http, interrupted>>

\* The panic comes before the error has reached the caller.
ExpandPanics(r) ==
    /\ req[r].at = "working" /\ MayPanic(r)
    /\ \E a \in Selectable(r) : a # "ok"
    /\ Returned("panic")
    /\ UNCHANGED interrupted

\* An HTTP client goes away: the HTTP request is over, its handler is not.
Abandon(r) ==
    /\ req[r].via = "http" /\ req[r].connected
    /\ req[r].at \in {"stream", "handler", "working", "hung"}
    /\ req' = [req EXCEPT ![r].connected = FALSE]
    /\ UNCHANGED <<breakerVars, main, exit, grpc, http, interrupted>>

\* Only expand leaves its reads behind when its context is done.
ExpandCancelled(r) ==
    /\ req[r].route = "Permission.Expand" /\ ~req[r].connected
    /\ req[r].at = "working" /\ call[r].command = "QueryRelationships"
    /\ Finish(r, "Canceled")
    /\ UNCHANGED <<breakerVars, main, exit, grpc, http, interrupted>>

\* Nobody takes the answer of such a read, but its goroutine goes on with it.
LeftBehind(r) ==
    /\ req[r].at = "done"
    /\ \E a \in Selectable(r) : exit' \in {exit} \cup {x \in {"panicking"} : a # "ok"}
    /\ call' = [call EXCEPT ![r] = NoCall]
    /\ UNCHANGED <<todo, open, main, grpc, http, interrupted, req>>

RequestStep(r) ==
    \/ Forward(r)
    \/ Permission_Check_Handler(r)
    \/ Permission_Expand_Handler(r)
    \/ Permission_LookupSchema_Handler(r)
    \/ Permission_LookupEntity_Handler(r)
    \/ Permission_LookupEntityStream_Handler(r)
    \/ Schema_Write_Handler(r)
    \/ Schema_Read_Handler(r)
    \/ Relationship_Write_Handler(r)
    \/ Relationship_Read_Handler(r)
    \/ Relationship_Delete_Handler(r)
    \/ Tenancy_Create_Handler(r)
    \/ Tenancy_Delete_Handler(r)
    \/ Tenancy_List_Handler(r)
    \/ Welcome_Hello_Handler(r)
    \/ Check(r)
    \/ Expand(r)
    \/ LookupSchema(r)
    \/ LookupEntity(r)
    \/ LookupEntityStream(r)
    \/ SchemaWrite(r)
    \/ SchemaRead(r)
    \/ RelationshipWrite(r)
    \/ RelationshipRead(r)
    \/ RelationshipDelete(r)
    \/ TenantCreate(r)
    \/ TenantDelete(r)
    \/ TenantList(r)
    \/ Hello(r)
    \/ Respond(r)
    \/ Result(r)
    \/ ExpandPanics(r)
    \/ ExpandCancelled(r)
    \/ LeftBehind(r)
    \/ BreakerStep(r) /\ UNCHANGED <<main, exit, grpc, http, interrupted, req>>

RunStep ==
    \/ ServeGrpc
    \/ DialFails
    \/ ServeHttp
    \/ Shutdown
    \/ ShutdownDone
    \/ ShutdownTimeout
    \/ GracefulStop
    \/ Panic

Environment ==
    \/ StartFails
    \/ Interrupt
    \/ \E r \in Callers : Arrive(r)
    \/ \E r \in Callers : Abandon(r)
    \/ BreakerEnvironment /\ UNCHANGED <<main, exit, grpc, http, interrupted, req>>

Next == \/ \E r \in Callers : RequestStep(r)
        \/ RunStep
        \/ Environment

\* The goroutines of the process run, timers fire and the database answers or
\* fails; clients and signals promise nothing.
Spec == /\ Init /\ [][Next]_vars
        /\ \A r \in Callers : WF_vars(RequestStep(r))
        /\ WF_vars(RunStep)

-----------------------------------------------------------------------------
\* No repository is called for a request that is not valid, not authenticated,
\* or, over HTTP, about another tenant than the one its URL names: neither
\* transport goes round the interceptors or the path parameter.
Admitted ==
    \A r \in Callers : req[r].at = "working" /\ (todo[r] # <<>> \/ call[r] # NoCall) =>
        \A m \in req[r].msg :
            /\ Valid(req[r].route, m)
            /\ Authenticate(req[r].key) = {}
            /\ req[r].via = "http" => TenantOf(req[r].route, m) = req[r].path

\* What the handlers dereference without looking is what Validate requires:
\* no request that reaches a handler makes it panic.
HandlerSafe == \A r \in Callers : req[r].at = "handler" =>
                  \A m \in req[r].msg : ~Panics(req[r].route, m)

\* A Run that returns nil has cut off no request that was accepted, and the
\* gateway never finds the gRPC server behind it gone: it is stopped only after
\* the HTTP server has finished.
CleanStop ==
    \A r \in Callers : /\ exit = "nil" => req[r].reply # "cut"
                       /\ req[r].reply # "Unavailable"

\* Whatever times out or trips, a repository call ends for its caller with the
\* answer the delegate gave, and with no other: a write that is applied late is
\* never reported as failed.  A failure reaches the client as its status, or, of
\* a unary lookup, nobody at all.
DelegateHeard ==
    [][\A r \in Callers :
          (/\ req[r].at = "working" /\ call[r] # NoCall
           /\ call'[r] = NoCall /\ main' # "returned")
          => \E a \in call[r].delegate :
                CASE a = "ok" -> req'[r] = req[r]
                  [] a # "ok" /\ Unheard(r) -> req'[r].at = "hung"
                  [] OTHER -> req'[r].reply = GetStatus(a)]_vars

\* The two ways to wait for ever: in a call that hystrix refused, and in a unary
\* lookup one of whose reads failed.
Waits(r) == Stranded(r) \/ req[r].at = "hung"

\* A handler that no HTTP timeout reaches either.
Blocking(r) == Waits(r) /\ ~(req[r].via = "http" /\ req[r].connected)

\* A signal ends the process, unless one of those keeps GracefulStop waiting.
Stops == interrupted ~> (main = "returned" \/ \E r \in Callers : Blocking(r))

\* Every request is answered, or its handler waits in one of those two ways:
\* there is no third.
Answered == \A r \in Callers :
               (req[r].at # "idle") ~> (req[r].at = "done" \/ Waits(r))
=============================================================================
