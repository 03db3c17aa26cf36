---------------------------- MODULE ServerProofs ----------------------------
(***************************************************************************)
(* Proofs about Server, for any set of callers, whatever they ask, any     *)
(* number of tickets and any of the configurations: what reaches a         *)
(* repository was admitted, no handler panics, a clean stop cuts off       *)
(* nobody, a call ends with the answer of its delegate, and nobody waits   *)
(* for ever but in a call that hystrix refused and in a unary lookup one   *)
(* of whose reads failed.                                                  *)
(***************************************************************************)
EXTENDS Server, TLAPS

(***************************************************************************)
(* The inductive invariant: what holds of each request q, its calls still  *)
(* to be made t and the call k it waits in, when Run is at mn and has      *)
(* returned ex.                                                            *)
(***************************************************************************)

TenantRoutes == PermissionRoutes \cup SchemaRoutes \cup RelationshipRoutes

Places == {"idle", "gateway", "stream", "handler", "working", "hung", "done"}

\* The fields a request has; a message is one or none.
Fields == {"at", "via", "route", "key", "path", "body", "msg", "reply", "connected"}

Shaped(q) == /\ q = [x \in Fields |-> q[x]]
             /\ q.at \in Places
             /\ \A m, n \in q.body : m = n
             /\ \A m, n \in q.msg : m = n

CallSet == [command : Commands \cup {"none"}, worker : {"none", "running", "late", "refused", "ended"},
            delegate : SUBSET Answers, output : SUBSET Answers, bErrors : SUBSET Answers]

\* What a caller can select is what its delegate answered.
CallHonest(k) == k \in CallSet /\ k.output = k.delegate /\ k.bErrors = {}

\* Only a request that its handler works on uses the repositories, and only for
\* the routes that have one behind a breaker.
CallOfHandler(q, t, k) == (\/ q.at \in {"idle", "gateway", "stream", "handler"}
                           \/ q.at = "working" /\ q.route \notin TenantRoutes)
                          => t = <<>> /\ k = NoCall

\* The path parameter is in the message that the gateway sent on.
PathHeeded(q) == q.via = "http" /\ q.route \in TenantRoutes =>
                    \A m \in q.msg : "tenant_id" \in DOMAIN m => m.tenant_id = q.path

\* What the interceptors let through.
Intercepted(q) == q.at \in {"handler", "working"} =>
                     /\ Authenticate(q.key) = {}
                     /\ \A m \in q.msg : /\ Valid(q.route, m)
                                         /\ q.route \in TenantRoutes => "tenant_id" \in DOMAIN m

\* The gateway is used only while the gRPC server behind it serves.
AtGateway(q, mn) == q.at = "gateway" => /\ mn \in {"serving", "shutdown"}
                                        /\ HttpEnabled /\ q.via = "http" /\ q.connected

Replied(q, mn, ex) == /\ q.reply # "Unavailable"
                      /\ q.reply = "cut" => mn = "returned" /\ ex # "nil"

Good(q, t, k, mn, ex) ==
    /\ Shaped(q) /\ CallHonest(k) /\ CallOfHandler(q, t, k) /\ PathHeeded(q)
    /\ Intercepted(q) /\ AtGateway(q, mn) /\ Replied(q, mn, ex)

\* The order in which Run starts and stops the two servers.
RunOrder ==
    /\ main \in {"start", "dial", "serving", "shutdown", "stopping", "returned"}
    /\ main \in {"dial", "serving", "shutdown"} => grpc = "serving"
    /\ main = "dial" => HttpEnabled
    /\ http = "serving" => main = "serving" /\ HttpEnabled

IInv == /\ req = [r \in Callers |-> req[r]]
        /\ todo = [r \in Callers |-> todo[r]]
        /\ call = [r \in Callers |-> call[r]]
        /\ RunOrder
        /\ \A r \in Callers : Good(req[r], todo[r], call[r], main, exit)

-----------------------------------------------------------------------------
(* Lemmas about records. *)

\* A request that goes on, that the gateway sends on, or whose client leaves.
Moved(q, v) == [q EXCEPT !.at = v]

Sent(q, s) == [q EXCEPT !.at = "stream", !.msg = s]

Left(q) == [q EXCEPT !.connected = FALSE]

LEMMA MovedFields ==
    ASSUME NEW q, Shaped(q), NEW v \in Places
    PROVE  LET z == Moved(q, v)
           IN  /\ Shaped(z) /\ z.at = v /\ z.via = q.via /\ z.route = q.route /\ z.key = q.key
               /\ z.path = q.path /\ z.msg = q.msg /\ z.reply = q.reply /\ z.connected = q.connected
<1>1. /\ Moved(q, v) = [x \in Fields |-> Moved(q, v)[x]] /\ Moved(q, v).at = v
      /\ \A x \in Fields \ {"at"} : Moved(q, v)[x] = q[x]
  BY DEF Moved, Shaped, Fields
<1> QED
  BY <1>1 DEF Shaped, Fields

LEMMA SentFields ==
    ASSUME NEW q, Shaped(q), NEW s, \A m, n \in s : m = n
    PROVE  LET z == Sent(q, s)
           IN  /\ Shaped(z) /\ z.at = "stream" /\ z.via = q.via /\ z.route = q.route
               /\ z.path = q.path /\ z.msg = s /\ z.reply = q.reply /\ z.connected = q.connected
<1>1. /\ Sent(q, s) = [x \in Fields |-> Sent(q, s)[x]]
      /\ Sent(q, s).at = "stream" /\ Sent(q, s).msg = s
      /\ \A x \in Fields \ {"at", "msg"} : Sent(q, s)[x] = q[x]
  BY DEF Sent, Shaped, Fields
<1> QED
  BY <1>1 DEF Shaped, Fields, Places

LEMMA LeftFields ==
    ASSUME NEW q, Shaped(q)
    PROVE  LET z == Left(q)
           IN  /\ Shaped(z) /\ z.at = q.at /\ z.via = q.via /\ z.route = q.route
               /\ z.key = q.key /\ z.path = q.path /\ z.msg = q.msg /\ z.reply = q.reply
               /\ z.connected = FALSE
<1>1. /\ Left(q) = [x \in Fields |-> Left(q)[x]]
      /\ \A x \in Fields \ {"connected"} : Left(q)[x] = q[x] /\ Left(q).connected = FALSE
  BY DEF Left, Shaped, Fields
<1> QED
  BY <1>1 DEF Shaped, Fields

\* A request that is over.
Over(status) == [NoRequest EXCEPT !.at = "done", !.reply = status]

LEMMA OverFields ==
    ASSUME NEW status
    PROVE  /\ Over(status).at = "done" /\ Over(status).reply = status
           /\ Over(status).via = "none" /\ Over(status).msg = {}
           /\ Over(status).route = "none"
           /\ Shaped(Over(status))
  BY DEF Over, NoRequest, Shaped, Places, Fields

\* No call.
LEMMA NoCallHonest == CallHonest(NoCall)
  BY DEF CallHonest, NoCall, CallSet

\* A step that touches one request.
LEMMA OneRequest ==
    ASSUME IInv, NEW r \in Callers, NEW q, NEW t, NEW k,
           req' = [req EXCEPT ![r] = q],
           todo' = [todo EXCEPT ![r] = t],
           call' = [call EXCEPT ![r] = k],
           main' = main, exit' \in {exit, "panicking"}, grpc' = grpc, http' = http,
           Good(q, t, k, main, exit)
    PROVE  IInv'
<1>1. RunOrder'
  BY DEF IInv, RunOrder
<1>2. ASSUME NEW x \in Callers
      PROVE  Good(req'[x], todo'[x], call'[x], main, exit)
  BY DEF IInv
<1>3. ASSUME NEW x \in Callers
      PROVE  Good(req'[x], todo'[x], call'[x], main, exit')
  BY <1>2 DEF Good, Replied
<1>4. ASSUME NEW x \in Callers
      PROVE  Good(req[x], todo[x], call[x], main, exit)'
  BY <1>3
<1> QED
  BY <1>1, <1>4 DEF IInv

\* An action that leaves a function as it is leaves it so at each caller.
LEMMA SameAt ==
    ASSUME NEW f, NEW g, f = [x \in Callers |-> f[x]], g = f, NEW r \in Callers
    PROVE  g = [f EXCEPT ![r] = f[r]]
  OBVIOUS

\* A request that ends keeps the invariant, whatever calls it leaves behind.
LEMMA FinishKeeps ==
    ASSUME IInv, NEW r \in Callers, NEW status, NEW t, NEW k,
           Finish(r, status), status \notin {"Unavailable", "cut"},
           todo' = [todo EXCEPT ![r] = t],
           call' = [call EXCEPT ![r] = k], CallHonest(k),
           main' = main, exit' \in {exit, "panicking"}, grpc' = grpc, http' = http
    PROVE  IInv'
<1>1. req' = [req EXCEPT ![r] = Over(status)]
  BY DEF Finish, Over
<1>2. Good(Over(status), t, k, main, exit)
  BY OverFields DEF Good, CallOfHandler, PathHeeded, Intercepted, AtGateway, Replied, TenantRoutes
<1> QED
  BY <1>1, <1>2, OneRequest

-----------------------------------------------------------------------------
(* The steps of a request. *)

\* What the interceptors refuse with.
LEMMA RefusalStatuses ==
    ASSUME NEW route, NEW key, NEW in, NEW s \in Refusal(route, key, in)
    PROVE  s \notin {"Unavailable", "cut"}
<1>1. Authenticate(key) \subseteq {"Code(1001)", "Code(1002)"}
  BY DEF Authenticate
<1>2. Validate(route, in) \subseteq {"Internal", "InvalidArgument"}
  BY DEF Validate
<1> QED
  BY <1>1, <1>2 DEF Refusal, First

\* A request that is not refused has a message, which is valid, and a token
\* that is accepted.
LEMMA NotRefused ==
    ASSUME NEW route, NEW key, NEW in, Refusal(route, key, in) = {}
    PROVE  /\ in # {} /\ \A m \in in : Valid(route, m)
           /\ Authenticate(key) = {}
<1>1. Validate(route, in) = {} /\ Authenticate(key) = {}
  BY DEF Refusal, First
<1> QED
  BY <1>1 DEF Validate

\* The status of an error of a repository.
LEMMA Statuses ==
    ASSUME NEW err
    PROVE  GetStatus(err) \in {"Unauthenticated", "InvalidArgument", "NotFound", "Internal"}
  BY DEF GetStatus

LEMMA ArriveKeeps ==
    ASSUME IInv, NEW r \in Callers, Arrive(r)
    PROVE  IInv'
<1>1. PICK a \in Ask[r] :
        /\ IF a.via = "http" THEN http = "serving" ELSE grpc = "serving"
        /\ req' = [req EXCEPT ![r] =
              [NoRequest EXCEPT !.at = IF a.via = "http" THEN "gateway" ELSE "stream",
                                !.via = a.via, !.route = a.route, !.key = a.key,
                                !.path = a.path, !.body = a.body, !.connected = TRUE,
                                !.msg = IF a.via = "http" THEN {} ELSE a.body]]
  BY DEF Arrive
<1> DEFINE at == IF a.via = "http" THEN "gateway" ELSE "stream"
           msg == IF a.via = "http" THEN {} ELSE a.body
           q == [NoRequest EXCEPT !.at = at,
                                  !.via = a.via, !.route = a.route, !.key = a.key,
                                  !.path = a.path, !.body = a.body, !.connected = TRUE,
                                  !.msg = msg]
<1>2. /\ q.at = at /\ q.via = a.via /\ q.msg = msg /\ q.connected = TRUE /\ q.reply = "none"
      /\ q.body = a.body
      /\ q = [x \in Fields |-> q[x]]
  BY DEF NoRequest, Fields
<1>3. /\ a.via \in {"grpc", "http"} /\ \A m, n \in a.body : m = n
  BY AskAssumption
<1>4. Shaped(q)
  <2> HIDE DEF q
  <2> QED BY <1>2, <1>3 DEF Shaped, Places
<1>5. todo[r] = <<>> /\ call[r] = NoCall
  BY DEF Arrive, IInv, Good, CallOfHandler
<1>6. a.via = "http" => main = "serving" /\ HttpEnabled
  BY <1>1 DEF IInv, RunOrder
<1>7. req' = [req EXCEPT ![r] = q]
  BY <1>1
<1> HIDE DEF q
<1>8. Good(q, todo[r], call[r], main, exit)
  BY <1>2, <1>3, <1>4, <1>5, <1>6, NoCallHonest
     DEF Good, CallOfHandler, PathHeeded, Intercepted, AtGateway, Replied
<1>9. /\ todo' = [todo EXCEPT ![r] = todo[r]] /\ call' = [call EXCEPT ![r] = call[r]]
      /\ main' = main /\ exit' = exit /\ grpc' = grpc /\ http' = http
  BY DEF Arrive, breakerVars, IInv
<1> QED
  BY <1>7, <1>8, <1>9, OneRequest

\* What the gateway sends for a tenant's route has the tenant of the path.
LEMMA GatewayTenant ==
    ASSUME NEW h, \A m, n \in h.body : m = n, NEW route
    PROVE  /\ \A m, n \in Gateway(route, h) : m = n
           /\ route \in TenantRoutes =>
                 \A m \in Gateway(route, h) : "tenant_id" \in DOMAIN m => m.tenant_id = h.path
<1> DEFINE About(b) == [b EXCEPT !.tenant_id = h.path]
<1>1. /\ \A m, n \in TenantFromPath(h) : m = n
      /\ \A m \in TenantFromPath(h) : "tenant_id" \in DOMAIN m => m.tenant_id = h.path
  <2>1. TenantFromPath(h) = {About(b) : b \in h.body}
    BY DEF TenantFromPath
  <2>2. ASSUME NEW b, "tenant_id" \in DOMAIN About(b)
        PROVE  About(b).tenant_id = h.path
    <3>1. DOMAIN About(b) = DOMAIN b
      OBVIOUS
    <3>2. "tenant_id" \in DOMAIN b
      BY <2>2, <3>1
    <3> QED
      BY <3>2
  <2> HIDE DEF About
  <2> QED
    BY <2>1, <2>2
<1>2. route \in TenantRoutes => Gateway(route, h) = TenantFromPath(h)
  <2>1. CASE route \in PermissionRoutes
    <3>1. RegisterPermissionHandlerClient(route, h) = TenantFromPath(h)
      BY <2>1 DEF PermissionRoutes, RegisterPermissionHandlerClient, request_Permission_Check_0,
             request_Permission_Expand_0, request_Permission_LookupSchema_0,
             request_Permission_LookupEntity_0, request_Permission_LookupEntityStream_0
    <3>2. route \notin SchemaRoutes \cup RelationshipRoutes \cup TenancyRoutes
      BY <2>1 DEF PermissionRoutes, SchemaRoutes, RelationshipRoutes, TenancyRoutes
    <3> QED
      BY <2>1, <3>1, <3>2 DEF Gateway
  <2>2. CASE route \in SchemaRoutes
    <3>1. RegisterSchemaHandlerClient(route, h) = TenantFromPath(h)
      BY DEF RegisterSchemaHandlerClient, request_Schema_Write_0, request_Schema_Read_0
    <3>2. route \notin PermissionRoutes \cup RelationshipRoutes \cup TenancyRoutes
      BY <2>2 DEF PermissionRoutes, SchemaRoutes, RelationshipRoutes, TenancyRoutes
    <3> QED
      BY <2>2, <3>1, <3>2 DEF Gateway
  <2>3. CASE route \in RelationshipRoutes
    <3>1. RegisterRelationshipHandlerClient(route, h) = TenantFromPath(h)
      BY <2>3 DEF RelationshipRoutes, RegisterRelationshipHandlerClient,
             request_Relationship_Write_0, request_Relationship_Read_0,
             request_Relationship_Delete_0
    <3>2. route \notin PermissionRoutes \cup SchemaRoutes \cup TenancyRoutes
      BY <2>3 DEF PermissionRoutes, SchemaRoutes, RelationshipRoutes, TenancyRoutes
    <3> QED
      BY <2>3, <3>1, <3>2 DEF Gateway
  <2> QED
    BY <2>1, <2>2, <2>3 DEF TenantRoutes
<1>3. route \in TenancyRoutes => \A m, n \in Gateway(route, h) : m = n
  BY DEF Gateway, TenancyRoutes, PermissionRoutes, SchemaRoutes, RelationshipRoutes,
         RegisterTenancyHandlerClient, request_Tenancy_Create_0, request_Tenancy_Delete_0,
         request_Tenancy_List_0
<1>4. route \notin TenantRoutes \cup TenancyRoutes => \A m, n \in Gateway(route, h) : m = n
  BY DEF Gateway, TenantRoutes, RegisterWelcomeHandlerClient, request_Welcome_Hello_0, Empties
<1> QED
  BY <1>1, <1>2, <1>3, <1>4

LEMMA ForwardKeeps ==
    ASSUME IInv, NEW r \in Callers, Forward(r)
    PROVE  IInv'
<1> DEFINE sent == Gateway(req[r].route, req[r])
<1>1. /\ todo' = [todo EXCEPT ![r] = todo[r]] /\ call' = [call EXCEPT ![r] = call[r]]
      /\ main' = main /\ exit' = exit /\ grpc' = grpc /\ http' = http
  BY DEF Forward, breakerVars, IInv
<1>2. Good(req[r], todo[r], call[r], main, exit) /\ req[r].at = "gateway"
  BY DEF IInv, Forward
<1>3. CallHonest(call[r])
  BY <1>2 DEF Good
<1>4. grpc = "serving"
  BY <1>2 DEF Good, AtGateway, IInv, RunOrder
<1>5. CASE sent = {}
  <2>1. Finish(r, "InvalidArgument")
    BY <1>5 DEF Forward
  <2> QED
    BY <1>1, <1>3, <2>1, FinishKeeps
<1>6. CASE sent # {}
  <2>1. req' = [req EXCEPT ![r].at = "stream", ![r].msg = sent]
    BY <1>4, <1>6 DEF Forward
  <2> DEFINE q == Sent(req[r], sent)
  <2>2. req' = [req EXCEPT ![r] = q]
    BY <2>1 DEF IInv, Sent
  <2>3. Shaped(req[r])
    BY <1>2 DEF Good
  <2>4. /\ \A m, n \in sent : m = n
        /\ req[r].route \in TenantRoutes =>
              \A m \in sent : "tenant_id" \in DOMAIN m => m.tenant_id = req[r].path
    BY <2>3, GatewayTenant DEF Shaped
  <2> HIDE DEF sent
  <2>5. /\ Shaped(q) /\ q.at = "stream" /\ q.via = req[r].via /\ q.route = req[r].route
        /\ q.path = req[r].path /\ q.msg = sent /\ q.reply = req[r].reply
    BY <2>3, <2>4, SentFields
  <2> HIDE DEF q
  <2>6. todo[r] = <<>> /\ call[r] = NoCall
    BY <1>2 DEF Good, CallOfHandler
  <2>7. Replied(req[r], main, exit)
    BY <1>2 DEF Good
  <2>8. Good(q, todo[r], call[r], main, exit)
    BY <2>4, <2>5, <2>6, <2>7, NoCallHonest
       DEF Good, CallOfHandler, PathHeeded, Intercepted, AtGateway, Replied
  <2> QED
    BY <1>1, <2>2, <2>8, OneRequest
<1> QED
  BY <1>5, <1>6

\* What a handler is given has the fields of its message.
LEMMA ReceiveKeeps ==
    ASSUME IInv, NEW r \in Callers, NEW route, NEW messages, Receive(r, route, messages),
           route \in TenantRoutes => \A m \in messages : "tenant_id" \in DOMAIN m
    PROVE  IInv'
<1> DEFINE in == {m \in req[r].msg : m \in messages}
           refusal == Refusal(route, req[r].key, in)
<1>1. /\ todo' = [todo EXCEPT ![r] = todo[r]] /\ call' = [call EXCEPT ![r] = call[r]]
      /\ main' = main /\ exit' = exit /\ grpc' = grpc /\ http' = http
  BY DEF Receive, breakerVars, IInv
<1>2. /\ Good(req[r], todo[r], call[r], main, exit)
      /\ req[r].at = "stream" /\ req[r].route = route
  BY DEF IInv, Receive
<1>3. CallHonest(call[r])
  BY <1>2 DEF Good
<1>4. CASE refusal # {}
  <2>1. Finish(r, CHOOSE s \in refusal : TRUE)
    BY <1>4 DEF Receive
  <2>2. (CHOOSE s \in refusal : TRUE) \in refusal
    BY <1>4
  <2>3. (CHOOSE s \in refusal : TRUE) \notin {"Unavailable", "cut"}
    BY <2>2, RefusalStatuses
  <2> QED
    BY <1>1, <1>3, <2>1, <2>3, FinishKeeps
<1>5. CASE refusal = {}
  <2> DEFINE q == Moved(req[r], "handler")
  <2>1. req' = [req EXCEPT ![r] = q]
    BY <1>5 DEF Receive, IInv, Moved
  <2>2. Shaped(req[r])
    BY <1>2 DEF Good
  <2>3. /\ Shaped(q) /\ q.at = "handler" /\ q.via = req[r].via /\ q.route = route
        /\ q.path = req[r].path /\ q.key = req[r].key /\ q.msg = req[r].msg
        /\ q.reply = req[r].reply
    BY <1>2, <2>2, MovedFields DEF Places
  <2> HIDE DEF q
  <2>4. /\ in # {} /\ \A m \in in : Valid(route, m)
        /\ Authenticate(req[r].key) = {}
    BY <1>5, NotRefused
  <2>5. \A m \in req[r].msg : m \in in
    BY <2>2, <2>4 DEF Shaped
  <2>6. Intercepted(q)
    BY <2>3, <2>4, <2>5 DEF Intercepted
  <2>7. todo[r] = <<>> /\ call[r] = NoCall
    BY <1>2 DEF Good, CallOfHandler
  <2>8. Good(q, todo[r], call[r], main, exit)
    BY <1>2, <2>3, <2>6, <2>7
       DEF Good, CallOfHandler, PathHeeded, AtGateway, Replied
  <2> QED
    BY <1>1, <2>1, <2>8, OneRequest
<1> QED
  BY <1>4, <1>5

\* A handler starts to work, or ends at once.
LEMMA HandleKeeps ==
    ASSUME IInv, NEW r \in Callers, NEW route, NEW m, NEW calls, Handle(r, route, m, calls),
           route \notin TenantRoutes => calls = <<>>
    PROVE  IInv'
<1>1. /\ call' = [call EXCEPT ![r] = call[r]]
      /\ main' = main /\ exit' = exit /\ grpc' = grpc /\ http' = http
  BY DEF Handle, IInv
<1>2. /\ Good(req[r], todo[r], call[r], main, exit)
      /\ req[r].at = "handler" /\ req[r].route = route
  BY DEF IInv, Handle
<1>3. CallHonest(call[r])
  BY <1>2 DEF Good
<1>4. CASE \E s \in {"Internal", "Unknown"} : Finish(r, s) /\ UNCHANGED todo
  <2>1. PICK s \in {"Internal", "Unknown"} : Finish(r, s) /\ UNCHANGED todo
    BY <1>4
  <2>2. todo' = [todo EXCEPT ![r] = todo[r]]
    BY <2>1 DEF IInv
  <2> QED
    BY <1>1, <1>3, <2>1, <2>2, FinishKeeps
<1>5. CASE /\ req' = [req EXCEPT ![r].at = "working"]
           /\ todo' = [todo EXCEPT ![r] = calls]
  <2> DEFINE q == Moved(req[r], "working")
  <2>1. req' = [req EXCEPT ![r] = q]
    BY <1>5 DEF IInv, Moved
  <2>2. Shaped(req[r])
    BY <1>2 DEF Good
  <2>3. /\ Shaped(q) /\ q.at = "working" /\ q.via = req[r].via /\ q.route = route
        /\ q.path = req[r].path /\ q.key = req[r].key /\ q.msg = req[r].msg
        /\ q.reply = req[r].reply
    BY <1>2, <2>2, MovedFields DEF Places
  <2> HIDE DEF q
  <2>4. Intercepted(q)
    BY <1>2, <2>3 DEF Intercepted, Good
  <2>5. call[r] = NoCall
    BY <1>2 DEF Good, CallOfHandler
  <2>6. Good(q, calls, call[r], main, exit)
    BY <1>2, <2>3, <2>4, <2>5
       DEF Good, CallOfHandler, PathHeeded, AtGateway, Replied
  <2> QED
    BY <1>1, <1>5, <2>1, <2>6, OneRequest
<1> QED
  BY <1>4, <1>5 DEF Handle

LEMMA RespondKeeps ==
    ASSUME IInv, NEW r \in Callers, Respond(r)
    PROVE  IInv'
<1>1. /\ todo' = [todo EXCEPT ![r] = todo[r]] /\ call' = [call EXCEPT ![r] = call[r]]
      /\ main' = main /\ exit' = exit /\ grpc' = grpc /\ http' = http
      /\ Finish(r, "OK")
  BY DEF Respond, breakerVars, IInv
<1>2. CallHonest(call[r])
  BY DEF IInv, Good
<1> QED
  BY <1>1, <1>2, FinishKeeps

\* What a handler does with what it takes.
Took(r, a) == \/ a = "ok" /\ UNCHANGED <<req, todo>>
              \/ /\ a # "ok" /\ todo' = [todo EXCEPT ![r] = <<>>]
                 /\ \/ Unheard(r) /\ req' = [req EXCEPT ![r] = Moved(req[r], "hung")]
                    \/ ~Unheard(r) /\ Finish(r, GetStatus(a))

LEMMA ResultTakes ==
    ASSUME IInv, NEW r \in Callers, Result(r)
    PROVE  /\ req[r].at = "working" /\ call' = [call EXCEPT ![r] = NoCall]
           /\ main' = main /\ exit' \in {exit, "panicking"} /\ grpc' = grpc /\ http' = http
           /\ \E a \in Selectable(r) : Took(r, a)
<1>1. PICK a \in Selectable(r) :
          IF a = "ok" THEN UNCHANGED <<req, todo, exit>>
          ELSE /\ IF Unheard(r) THEN req' = [req EXCEPT ![r].at = "hung"]
                  ELSE Finish(r, GetStatus(a))
               /\ todo' = [todo EXCEPT ![r] = <<>>]
               /\ exit' \in {exit} \cup {x \in {"panicking"} : MayPanic(r)}
  BY DEF Result
<1>2. [req EXCEPT ![r].at = "hung"] = [req EXCEPT ![r] = Moved(req[r], "hung")]
  BY DEF Moved
<1>3. Took(r, a) /\ exit' \in {exit, "panicking"}
  BY <1>1, <1>2 DEF Took
<1> QED
  BY <1>3 DEF Result

LEMMA ResultKeeps ==
    ASSUME IInv, NEW r \in Callers, Result(r)
    PROVE  IInv'
<1>1. PICK a \in Selectable(r) : Took(r, a)
  BY ResultTakes
<1>2. /\ call' = [call EXCEPT ![r] = NoCall] /\ req[r].at = "working"
      /\ main' = main /\ exit' \in {exit, "panicking"} /\ grpc' = grpc /\ http' = http
  BY ResultTakes
<1>3. Good(req[r], todo[r], call[r], main, exit) /\ Shaped(req[r])
  BY DEF IInv, Good
<1>4. CASE a = "ok"
  <2>1. req' = [req EXCEPT ![r] = req[r]] /\ todo' = [todo EXCEPT ![r] = todo[r]]
    BY <1>1, <1>4 DEF Took, IInv
  <2>2. Good(req[r], todo[r], NoCall, main, exit)
    BY <1>3, NoCallHonest DEF Good, CallOfHandler
  <2> QED
    BY <1>2, <2>1, <2>2, OneRequest
<1>5. CASE a # "ok" /\ Unheard(r)
  <2> DEFINE q == Moved(req[r], "hung")
  <2>1. req' = [req EXCEPT ![r] = q] /\ todo' = [todo EXCEPT ![r] = <<>>]
    BY <1>1, <1>5 DEF Took
  <2>2. /\ Shaped(q) /\ q.at = "hung" /\ q.via = req[r].via /\ q.route = req[r].route
        /\ q.path = req[r].path /\ q.msg = req[r].msg /\ q.reply = req[r].reply
    BY <1>3, MovedFields DEF Places
  <2> HIDE DEF q
  <2>3. Good(q, <<>>, NoCall, main, exit)
    BY <1>3, <2>2, NoCallHonest
       DEF Good, CallOfHandler, PathHeeded, Intercepted, AtGateway, Replied
  <2> QED
    BY <1>2, <2>1, <2>3, OneRequest
<1>6. CASE a # "ok" /\ ~Unheard(r)
  <2>1. GetStatus(a) \notin {"Unavailable", "cut"}
    BY Statuses
  <2> QED
    BY <1>1, <1>2, <1>6, <2>1, NoCallHonest, FinishKeeps DEF Took
<1> QED
  BY <1>4, <1>5, <1>6

\* A read that was left behind ends.
LEMMA LeftBehindKeeps ==
    ASSUME IInv, NEW r \in Callers, LeftBehind(r)
    PROVE  IInv'
<1>1. /\ req' = [req EXCEPT ![r] = req[r]] /\ todo' = [todo EXCEPT ![r] = todo[r]]
      /\ call' = [call EXCEPT ![r] = NoCall] /\ main' = main /\ grpc' = grpc /\ http' = http
      /\ exit' \in {exit, "panicking"}
  BY DEF LeftBehind, IInv
<1>2. Good(req[r], todo[r], call[r], main, exit)
  BY DEF IInv
<1>3. Good(req[r], todo[r], NoCall, main, exit)
  BY <1>2, NoCallHonest DEF Good, CallOfHandler
<1> QED
  BY <1>1, <1>3, OneRequest

LEMMA AbandonKeeps ==
    ASSUME IInv, NEW r \in Callers, Abandon(r)
    PROVE  IInv'
<1> DEFINE q == Left(req[r])
<1>1. /\ todo' = [todo EXCEPT ![r] = todo[r]] /\ call' = [call EXCEPT ![r] = call[r]]
      /\ main' = main /\ exit' = exit /\ grpc' = grpc /\ http' = http
      /\ req' = [req EXCEPT ![r] = q]
  BY DEF Abandon, breakerVars, IInv, Left
<1>2. Good(req[r], todo[r], call[r], main, exit) /\ req[r].at # "gateway"
  BY DEF IInv, Abandon
<1>3. Shaped(req[r])
  BY <1>2 DEF Good
<1>4. /\ Shaped(q) /\ q.at = req[r].at /\ q.via = req[r].via /\ q.route = req[r].route
      /\ q.path = req[r].path /\ q.key = req[r].key /\ q.msg = req[r].msg
      /\ q.reply = req[r].reply
  BY <1>3, LeftFields
<1> HIDE DEF q
<1>5. Good(q, todo[r], call[r], main, exit)
  BY <1>2, <1>4 DEF Good, CallOfHandler, PathHeeded, Intercepted, AtGateway, Replied
<1> QED
  BY <1>1, <1>5, OneRequest

LEMMA ExpandCancelledKeeps ==
    ASSUME IInv, NEW r \in Callers, ExpandCancelled(r)
    PROVE  IInv'
<1>1. /\ todo' = [todo EXCEPT ![r] = todo[r]] /\ call' = [call EXCEPT ![r] = call[r]]
      /\ main' = main /\ exit' = exit /\ grpc' = grpc /\ http' = http
      /\ Finish(r, "Canceled")
  BY DEF ExpandCancelled, breakerVars, IInv
<1>2. CallHonest(call[r])
  BY DEF IInv, Good
<1> QED
  BY <1>1, <1>2, FinishKeeps

-----------------------------------------------------------------------------
(* The steps of the breakers. *)

\* A step of a call that is under way, or that a working request starts.
LEMMA CallKeeps ==
    ASSUME IInv, NEW r \in Callers, NEW t, NEW k,
           todo[r] # <<>> \/ call[r] # NoCall,
           todo' = [todo EXCEPT ![r] = t],
           call' = [call EXCEPT ![r] = k], CallHonest(k),
           UNCHANGED <<main, exit, grpc, http, req>>
    PROVE  IInv'
<1>1. req' = [req EXCEPT ![r] = req[r]]
  BY DEF IInv
<1>2. Good(req[r], todo[r], call[r], main, exit)
  BY DEF IInv
<1>3. Good(req[r], t, k, main, exit)
  BY <1>2 DEF Good, CallOfHandler
<1> QED
  BY <1>1, <1>3, OneRequest

LEMMA GoKeeps ==
    ASSUME IInv, NEW r \in Callers, NEW method, NEW command \in Commands,
           Go(r, method, command),
           UNCHANGED <<main, exit, grpc, http, req>>
    PROVE  IInv'
<1> DEFINE k == IF command \in open \/ Cardinality(Tickets(command)) >= MaxConcurrent
                THEN [NoCall EXCEPT !.command = command, !.worker = "refused", !.bErrors = Fallback]
                ELSE [NoCall EXCEPT !.command = command, !.worker = "running"]
<1>1. todo[r] # <<>> /\ todo' = [todo EXCEPT ![r] = Tail(todo[r])] /\ call' = [call EXCEPT ![r] = k]
  BY DEF Go
<1>2. CallHonest(k)
  BY DEF CallHonest, NoCall, CallSet, Fallback
<1> QED
  BY <1>1, <1>2, CallKeeps

LEMMA AnswerKeeps ==
    ASSUME IInv, NEW r \in Callers, Answer(r),
           UNCHANGED <<main, exit, grpc, http, req>>
    PROVE  IInv'
<1>1. PICK a \in Answers :
          call' = [call EXCEPT ![r].worker = "ended", ![r].delegate = {a}, ![r].output = {a}]
  BY DEF Answer
<1> DEFINE k == [call[r] EXCEPT !.worker = "ended", !.delegate = {a}, !.output = {a}]
<1>2. call' = [call EXCEPT ![r] = k] /\ todo' = [todo EXCEPT ![r] = todo[r]]
  BY <1>1 DEF IInv, Answer
<1>3. CallHonest(call[r])
  BY DEF IInv, Good
<1>4. CallHonest(k)
  BY <1>3 DEF CallHonest, CallSet
<1>5. call[r] # NoCall
  BY DEF Answer, NoCall
<1> QED
  BY <1>2, <1>4, <1>5, CallKeeps

LEMMA TimeoutKeeps ==
    ASSUME IInv, NEW r \in Callers, Timeout(r),
           UNCHANGED <<main, exit, grpc, http, req>>
    PROVE  IInv'
<1> DEFINE k == [call[r] EXCEPT !.worker = "late", !.bErrors = Fallback]
<1>1. call' = [call EXCEPT ![r] = k] /\ todo' = [todo EXCEPT ![r] = todo[r]]
  BY DEF IInv, Timeout
<1>2. CallHonest(call[r])
  BY DEF IInv, Good
<1>3. CallHonest(k)
  BY <1>2 DEF CallHonest, CallSet, Fallback
<1>4. call[r] # NoCall
  BY DEF Timeout, NoCall
<1> QED
  BY <1>1, <1>3, <1>4, CallKeeps

LEMMA BreakerKeeps ==
    ASSUME IInv, NEW r \in Callers, BreakerStep(r),
           UNCHANGED <<main, exit, grpc, http, req>>
    PROVE  IInv'
<1>1. ASSUME Answer(r)
      PROVE  IInv'
  BY <1>1, AnswerKeeps
<1>2. ASSUME NEW method, NEW command \in Commands, Go(r, method, command)
      PROVE  IInv'
  BY <1>2, GoKeeps
<1>3. {"QueryRelationships", "ReadRelationships", "HeadSnapshot", "WriteRelationships",
       "DeleteRelationships", "ReadSchema", "ReadSchemaDefinition", "HeadVersion",
       "WriteSchema"} \subseteq Commands
  BY DEF Commands, Methods
<1>4. Answer(r) \/ \E method : \E command \in Commands : Go(r, method, command)
  BY <1>3 DEF BreakerStep, QueryRelationships, ReadRelationships, GetUniqueEntityIDsByEntityType,
         HeadSnapshot, WriteRelationships, DeleteRelationships, ReadSchema, ReadSchemaDefinition,
         HeadVersion, WriteSchema
<1> QED
  BY <1>1, <1>2, <1>4

-----------------------------------------------------------------------------
(* The steps of Run. *)

\* Run goes on: no request changes, and none is lost by the gateway.
LEMMA RunGoesOn ==
    ASSUME IInv, UNCHANGED <<breakerVars, exit, req>>, RunOrder',
           main # "returned",
           \A r \in Callers : req[r].at = "gateway" => main' \in {"serving", "shutdown"}
    PROVE  IInv'
<1>1. ASSUME NEW r \in Callers
      PROVE  Good(req[r], todo[r], call[r], main', exit)
  <2>1. Good(req[r], todo[r], call[r], main, exit)
    BY DEF IInv
  <2> QED
    BY <2>1 DEF Good, AtGateway, Replied
<1>2. ASSUME NEW r \in Callers
      PROVE  Good(req[r], todo[r], call[r], main, exit)'
  <2>1. req' = req /\ todo' = todo /\ call' = call /\ exit' = exit
    BY DEF breakerVars
  <2> QED
    BY <1>1, <2>1
<1>3. /\ req' = [r \in Callers |-> req[r]]'
      /\ todo' = [r \in Callers |-> todo[r]]'
      /\ call' = [r \in Callers |-> call[r]]'
  BY DEF IInv, breakerVars
<1> QED
  BY <1>2, <1>3 DEF IInv

\* The process ends: with an error or a panic, or, after a Run that returns nil,
\* when every request is over.
LEMMA ReturnedKeeps ==
    ASSUME IInv, NEW value, Returned(value),
           \/ value # "nil"
           \/ main # "returned" /\ \A r \in Callers : req[r].at \in {"idle", "done"}
    PROVE  IInv'
<1>1. RunOrder'
  BY DEF Returned, RunOrder
<1>2. ASSUME NEW r \in Callers
      PROVE  Good(req'[r], <<>>, NoCall, "returned", value)
  <2>1. Good(req[r], todo[r], call[r], main, exit)
    BY DEF IInv
  <2>2. CASE req[r].at \in {"idle", "done"}
    <3>1. req'[r] = req[r]
      BY <2>2 DEF Returned
    <3>2. value = "nil" => req[r].reply # "cut"
      BY <2>1 DEF Good, Replied
    <3> QED
      BY <2>1, <2>2, <3>1, <3>2, NoCallHonest
         DEF Good, CallOfHandler, Intercepted, AtGateway, Replied
  <2>3. CASE req[r].at \notin {"idle", "done"}
    <3> DEFINE status == IF req[r].connected THEN "cut" ELSE "Canceled"
    <3>1. req'[r] = Over(status)
      BY <2>3 DEF Returned, Over
    <3>2. value # "nil"
      BY <2>3
    <3>3. status # "Unavailable"
      OBVIOUS
    <3> HIDE DEF status
    <3> QED
      BY <3>1, <3>2, <3>3, OverFields, NoCallHonest
         DEF Good, CallOfHandler, PathHeeded, Intercepted, AtGateway, Replied, TenantRoutes
  <2> QED
    BY <2>2, <2>3
<1>3. ASSUME NEW r \in Callers
      PROVE  Good(req[r], todo[r], call[r], main, exit)'
  <2>1. /\ todo'[r] = <<>> /\ call'[r] = NoCall /\ main' = "returned" /\ exit' = value
    BY DEF Returned
  <2> QED
    BY <1>2, <2>1
<1>4. /\ req' = [r \in Callers |-> req[r]]'
      /\ todo' = [r \in Callers |-> todo[r]]'
      /\ call' = [r \in Callers |-> call[r]]'
  BY DEF Returned
<1> QED
  BY <1>1, <1>3, <1>4 DEF IInv

LEMMA GatewayServed ==
    ASSUME IInv, NEW r \in Callers, req[r].at = "gateway"
    PROVE  /\ main \in {"serving", "shutdown"} /\ HttpEnabled
           /\ req[r].via = "http" /\ req[r].connected
  BY DEF IInv, Good, AtGateway

LEMMA RunKeeps ==
    ASSUME IInv, RunStep \/ StartFails \/ Interrupt
    PROVE  IInv'
<1>0. RunOrder
  BY DEF IInv
<1>1. CASE ServeGrpc
  <2>1. RunOrder' /\ main = "start" /\ UNCHANGED <<breakerVars, exit, req>>
    BY <1>0, <1>1 DEF ServeGrpc, RunOrder
  <2> QED
    BY <2>1, RunGoesOn, GatewayServed
<1>2. CASE ServeHttp
  <2>1. RunOrder' /\ main = "dial" /\ UNCHANGED <<breakerVars, exit, req>>
    BY <1>0, <1>2 DEF ServeHttp, RunOrder
  <2> QED
    BY <2>1, RunGoesOn, GatewayServed
<1>3. CASE Interrupt
  <2>1. RunOrder' /\ main # "returned" /\ main' = main /\ UNCHANGED <<breakerVars, exit, req>>
    BY <1>0, <1>3 DEF Interrupt, RunOrder
  <2> QED
    BY <2>1, RunGoesOn, GatewayServed
<1>4. CASE Shutdown
  <2>1. /\ RunOrder' /\ main = "serving" /\ (HttpEnabled => main' = "shutdown")
        /\ UNCHANGED <<breakerVars, exit, req>>
    BY <1>0, <1>4 DEF Shutdown, RunOrder
  <2> QED
    BY <2>1, RunGoesOn, GatewayServed
<1>5. CASE ShutdownDone
  <2>1. \A r \in Callers : req[r].at # "gateway"
    BY <1>5, GatewayServed DEF ShutdownDone, HttpBusy
  <2>2. RunOrder' /\ main = "shutdown" /\ UNCHANGED <<breakerVars, exit, req>>
    BY <1>0, <1>5 DEF ShutdownDone, RunOrder
  <2> QED
    BY <2>1, <2>2, RunGoesOn
<1>6. CASE StartFails \/ DialFails \/ ShutdownTimeout
  <2>1. Returned("error")
    BY <1>6 DEF StartFails, DialFails, ShutdownTimeout
  <2> QED
    BY <2>1, ReturnedKeeps
<1>7. CASE GracefulStop
  <2>1. Returned("nil") /\ main # "returned"
    BY <1>7 DEF GracefulStop
  <2>2. ASSUME NEW r \in Callers
        PROVE  req[r].at \in {"idle", "done"}
    <3>1. req[r].at \notin {"stream", "handler", "working", "hung"}
      BY <1>7 DEF GracefulStop, Handling
    <3>2. req[r].at # "gateway"
      BY <1>7, GatewayServed DEF GracefulStop
    <3>3. req[r].at \in Places
      BY DEF IInv, Good, Shaped
    <3> QED
      BY <3>1, <3>2, <3>3 DEF Places
  <2> QED
    BY <2>1, <2>2, ReturnedKeeps
<1>8. CASE Panic
  BY <1>8, ReturnedKeeps DEF Panic
<1> QED
  BY <1>1, <1>2, <1>3, <1>4, <1>5, <1>6, <1>7, <1>8 DEF RunStep

LEMMA ExpandPanicsKeeps ==
    ASSUME IInv, NEW r \in Callers, ExpandPanics(r)
    PROVE  IInv'
  BY ReturnedKeeps DEF ExpandPanics

-----------------------------------------------------------------------------
(* The invariant. *)

\* The messages of the routes with a tenant have the field for it.
LEMMA ReceiversKeep ==
    ASSUME IInv, NEW r \in Callers,
           \/ Permission_Check_Handler(r)
           \/ Permission_Expand_Handler(r)
           \/ Permission_LookupSchema_Handler(r)
           \/ Permission_LookupEntity_Handler(r)
           \/ Permission_LookupEntityStream_Handler(r)
           \/ Schema_Write_Handler(r)
           \/ Schema_Read_Handler(r)
           \/ Relationship_Write_Handler(r)
           \/ Relationship_Read_Handler(r)
           \/ Relationship_Delete_Handler(r)
           \/ Tenancy_Create_Handler(r)
           \/ Tenancy_Delete_Handler(r)
           \/ Tenancy_List_Handler(r)
           \/ Welcome_Hello_Handler(r)
    PROVE  IInv'
<1> DEFINE WithTenant == {PermissionCheckRequests, PermissionExpandRequests,
              PermissionLookupSchemaRequests, PermissionLookupEntityRequests,
              SchemaWriteRequests, SchemaReadRequests, RelationshipWriteRequests,
              RelationshipReadRequests, RelationshipDeleteRequests}
<1>1. ASSUME NEW messages \in WithTenant, NEW m \in messages
      PROVE  "tenant_id" \in DOMAIN m
  <2>1. CASE m \in PermissionCheckRequests
    BY <2>1 DEF PermissionCheckRequests
  <2>2. CASE m \in PermissionExpandRequests
    BY <2>2 DEF PermissionExpandRequests
  <2>3. CASE m \in PermissionLookupSchemaRequests
    BY <2>3 DEF PermissionLookupSchemaRequests
  <2>4. CASE m \in PermissionLookupEntityRequests
    BY <2>4 DEF PermissionLookupEntityRequests
  <2>5. CASE m \in SchemaWriteRequests
    BY <2>5 DEF SchemaWriteRequests
  <2>6. CASE m \in SchemaReadRequests
    BY <2>6 DEF SchemaReadRequests
  <2>7. CASE m \in RelationshipWriteRequests
    BY <2>7 DEF RelationshipWriteRequests
  <2>8. CASE m \in RelationshipReadRequests
    BY <2>8 DEF RelationshipReadRequests
  <2>9. CASE m \in RelationshipDeleteRequests
    BY <2>9 DEF RelationshipDeleteRequests
  <2> QED
    BY <1>1, <2>1, <2>2, <2>3, <2>4, <2>5, <2>6, <2>7, <2>8, <2>9
<1>2. \E route, messages : /\ Receive(r, route, messages)
                           /\ messages \in WithTenant \/ route \notin TenantRoutes
  BY DEF Permission_Check_Handler, Permission_Expand_Handler, Permission_LookupSchema_Handler,
         Permission_LookupEntity_Handler, Permission_LookupEntityStream_Handler,
         Schema_Write_Handler, Schema_Read_Handler, Relationship_Write_Handler,
         Relationship_Read_Handler, Relationship_Delete_Handler, Tenancy_Create_Handler,
         Tenancy_Delete_Handler, Tenancy_List_Handler, Welcome_Hello_Handler,
         TenantRoutes, PermissionRoutes, SchemaRoutes, RelationshipRoutes
<1> HIDE DEF WithTenant
<1>3. PICK route, messages : /\ Receive(r, route, messages)
                             /\ messages \in WithTenant \/ route \notin TenantRoutes
  BY <1>2
<1> QED
  BY <1>1, <1>3, ReceiveKeeps

\* The handlers of the routes without a tenant make no calls.
LEMMA HandlersKeep ==
    ASSUME IInv, NEW r \in Callers,
           \/ Check(r) \/ Expand(r) \/ LookupSchema(r)
           \/ LookupEntity(r) \/ LookupEntityStream(r)
           \/ SchemaWrite(r) \/ SchemaRead(r)
           \/ RelationshipWrite(r) \/ RelationshipRead(r) \/ RelationshipDelete(r)
           \/ TenantCreate(r) \/ TenantDelete(r) \/ TenantList(r) \/ Hello(r)
    PROVE  IInv'
<1>1. \E route, m, calls : /\ Handle(r, route, m, calls)
                           /\ calls = <<>> \/ route \in TenantRoutes
  BY DEF Check, Expand, LookupSchema, LookupEntity, LookupEntityStream, SchemaWrite, SchemaRead,
         RelationshipWrite, RelationshipRead, RelationshipDelete,
         TenantCreate, TenantDelete, TenantList, Hello, NoCalls,
         TenantRoutes, PermissionRoutes, SchemaRoutes, RelationshipRoutes
<1> QED
  BY <1>1, HandleKeeps

LEMMA InitHolds == Init => IInv
<1> SUFFICES ASSUME Init PROVE IInv
  OBVIOUS
<1>1. ASSUME NEW r \in Callers
      PROVE  Good(NoRequest, <<>>, NoCall, "start", "none")
  BY NoCallHonest DEF Good, Shaped, NoRequest, Places, Fields, CallOfHandler, PathHeeded, Intercepted,
         AtGateway, Replied
<1> QED
  BY <1>1 DEF Init, BreakerInit, IInv, RunOrder

\* Every step keeps the invariant.
LEMMA NextKeeps ==
    ASSUME IInv, [Next]_vars
    PROVE  IInv'
<1>1. CASE UNCHANGED vars
  BY <1>1 DEF vars, breakerVars, IInv, RunOrder
<1>2. ASSUME NEW r \in Callers, RequestStep(r)
      PROVE  IInv'
  BY <1>2, ForwardKeeps, ReceiversKeep, HandlersKeep, RespondKeeps, ResultKeeps,
     ExpandPanicsKeeps, ExpandCancelledKeeps, LeftBehindKeeps, BreakerKeeps DEF RequestStep
<1>3. CASE RunStep \/ StartFails \/ Interrupt
  BY <1>3, RunKeeps
<1>4. ASSUME NEW r \in Callers, Arrive(r) \/ Abandon(r)
      PROVE  IInv'
  BY <1>4, ArriveKeeps, AbandonKeeps
<1>5. CASE BreakerEnvironment /\ UNCHANGED <<main, exit, grpc, http, interrupted, req>>
  <2>1. ASSUME NEW r \in Callers, Timeout(r)
        PROVE  IInv'
    BY <1>5, <2>1, TimeoutKeeps
  <2>2. CASE UNCHANGED <<todo, call>>
    BY <1>5, <2>2 DEF IInv, RunOrder
  <2> QED
    BY <1>5, <2>1, <2>2 DEF BreakerEnvironment, Trip, Heal
<1> QED
  BY <1>1, <1>2, <1>3, <1>4, <1>5 DEF Next, Environment

\* The inductive invariant holds in every behaviour.
THEOREM InvariantHolds == Spec => []IInv
<1>1. IInv /\ [Next]_vars => IInv'
  BY NextKeeps
<1> QED
  BY <1>1, InitHolds, PTL DEF Spec

-----------------------------------------------------------------------------
(* What follows from it. *)

\* What a handler dereferences is what Validate requires.
LEMMA ValidNeverPanics ==
    ASSUME NEW route, NEW m, Valid(route, m)
    PROVE  ~Panics(route, m)
<1>1. CASE route \in PermissionRoutes
  BY <1>1 DEF Valid, Panics, PermissionRoutes, Required, PermissionCheckRequest,
         PermissionExpandRequest, PermissionLookupSchemaRequest, PermissionLookupEntityRequest
<1>2. CASE route = "Relationship.Write"
  <2>1. RelationshipWriteRequest(m)
    BY <1>2 DEF Valid
  <2>2. ASSUME NEW i \in DOMAIN m.tuples
        PROVE  \E t \in m.tuples[i] : t.subject # {}
    BY <2>1 DEF RelationshipWriteRequest, Required, Tuple
  <2> QED
    BY <1>2, <2>2 DEF Panics, PermissionRoutes
<1> QED
  BY <1>1, <1>2 DEF Panics, PermissionRoutes

\* No repository is called for a request that the interceptors did not admit,
\* or for another tenant than that of the URL.
THEOREM AdmittedHolds == Spec => []Admitted
<1>1. IInv => Admitted
  <2> SUFFICES ASSUME IInv, NEW r \in Callers, req[r].at = "working",
                      todo[r] # <<>> \/ call[r] # NoCall,
                      NEW m \in req[r].msg
               PROVE  /\ Valid(req[r].route, m)
                      /\ Authenticate(req[r].key) = {}
                      /\ req[r].via = "http" => TenantOf(req[r].route, m) = req[r].path
    BY DEF Admitted
  <2>1. Good(req[r], todo[r], call[r], main, exit)
    BY DEF IInv
  <2>2. req[r].route \in TenantRoutes
    BY <2>1 DEF Good, CallOfHandler
  <2>3. TenantOf(req[r].route, m) = m.tenant_id
    BY <2>2 DEF TenantOf, TenantRoutes
  <2> QED
    BY <2>1, <2>2, <2>3 DEF Good, Intercepted, PathHeeded
<1> QED
  BY <1>1, InvariantHolds, PTL

\* No request that reaches a handler makes it panic.
THEOREM HandlerSafeHolds == Spec => []HandlerSafe
<1>1. IInv => HandlerSafe
  BY ValidNeverPanics DEF IInv, Good, Intercepted, HandlerSafe
<1> QED
  BY <1>1, InvariantHolds, PTL

\* A Run that returns nil cut off nobody, and the gateway never found the gRPC
\* server behind it gone.
THEOREM CleanStopHolds == Spec => []CleanStop
<1>1. IInv => CleanStop
  BY DEF IInv, Good, Replied, CleanStop
<1> QED
  BY <1>1, InvariantHolds, PTL

\* A step that ends the call of r and is not the end of Run is r's Result.
LEMMA EndedByResult ==
    ASSUME IInv, [Next]_vars, NEW r \in Callers, req[r].at = "working",
           call[r] # NoCall, call'[r] = NoCall, main' # "returned"
    PROVE  Result(r)
<1>1. call = [x \in Callers |-> call[x]] /\ call[r] \in CallSet
  BY DEF IInv, Good, CallHonest
<1>2. call' # call
  OBVIOUS
<1>3. ASSUME NEW x \in Callers, Answer(x) \/ Timeout(x)
      PROVE  FALSE
  <2>1. CASE Answer(x)
    <3>1. call'[r] = call[r] \/ call'[r].worker = "ended"
      BY <1>1, <2>1 DEF Answer, CallSet
    <3> QED
      BY <3>1 DEF NoCall
  <2>2. CASE Timeout(x)
    <3>1. call'[r] = call[r] \/ call'[r].worker = "late"
      BY <1>1, <2>2 DEF Timeout, CallSet
    <3> QED
      BY <3>1 DEF NoCall
  <2> QED
    BY <1>3, <2>1, <2>2
<1>4. ASSUME NEW x \in Callers, NEW method, NEW command, Go(x, method, command)
      PROVE  FALSE
  <2>1. call'[r] = call[r] \/ call'[r].worker \in {"refused", "running"}
    BY <1>1, <1>4 DEF Go, NoCall
  <2> QED
    BY <2>1 DEF NoCall
<1>5. ASSUME NEW x \in Callers, BreakerStep(x)
      PROVE  FALSE
  BY <1>3, <1>4, <1>5 DEF BreakerStep, QueryRelationships, ReadRelationships,
         GetUniqueEntityIDsByEntityType, HeadSnapshot, WriteRelationships, DeleteRelationships,
         ReadSchema, ReadSchemaDefinition, HeadVersion, WriteSchema
<1>6. ASSUME BreakerEnvironment
      PROVE  FALSE
  BY <1>2, <1>3, <1>6 DEF BreakerEnvironment, Trip, Heal
<1>7. ASSUME RunStep \/ StartFails \/ Interrupt
      PROVE  FALSE
  BY <1>2, <1>7 DEF RunStep, StartFails, Interrupt, ServeGrpc, DialFails, ServeHttp, Shutdown,
         ShutdownDone, ShutdownTimeout, GracefulStop, Panic, Returned, breakerVars
<1>8. ASSUME NEW x \in Callers, Arrive(x) \/ Abandon(x)
      PROVE  FALSE
  BY <1>2, <1>8 DEF Arrive, Abandon, breakerVars
<1>9. ASSUME NEW x \in Callers, RequestStep(x)
      PROVE  Result(x)
  <2>1. ASSUME NEW route, NEW messages, Receive(x, route, messages)
        PROVE  FALSE
    BY <1>2, <2>1 DEF Receive, breakerVars
  <2>2. ASSUME NEW route, NEW m, NEW calls, Handle(x, route, m, calls)
        PROVE  FALSE
    BY <1>2, <2>2 DEF Handle
  <2>3. ~(Forward(x) \/ Respond(x) \/ ExpandCancelled(x))
    BY <1>2 DEF Forward, Respond, ExpandCancelled, breakerVars
  <2>4. ~ExpandPanics(x)
    BY DEF ExpandPanics, Returned
  <2>5. ~LeftBehind(x)
    BY <1>1 DEF LeftBehind
  <2> QED
    BY <1>5, <1>9, <2>1, <2>2, <2>3, <2>4, <2>5
       DEF RequestStep, Permission_Check_Handler, Permission_Expand_Handler,
         Permission_LookupSchema_Handler, Permission_LookupEntity_Handler,
         Permission_LookupEntityStream_Handler, Schema_Write_Handler, Schema_Read_Handler,
         Relationship_Write_Handler, Relationship_Read_Handler, Relationship_Delete_Handler,
         Tenancy_Create_Handler, Tenancy_Delete_Handler, Tenancy_List_Handler,
         Welcome_Hello_Handler, Check, Expand, LookupSchema, LookupEntity, LookupEntityStream,
         SchemaWrite, SchemaRead, RelationshipWrite, RelationshipRead, RelationshipDelete,
         TenantCreate, TenantDelete, TenantList, Hello
<1>10. ASSUME NEW x \in Callers, Result(x)
       PROVE  x = r
  BY <1>1, <1>10 DEF Result
<1>11. ~UNCHANGED vars
  BY <1>2 DEF vars, breakerVars
<1> QED
  BY <1>5, <1>6, <1>7, <1>8, <1>9, <1>10, <1>11 DEF Next, Environment

\* A repository call ends with the answer of its delegate and with no other, and
\* a failure is answered with its status unless it is one that the unary lookup
\* does not hear.
THEOREM DelegateHeardHolds == Spec => DelegateHeard
<1> DEFINE Reported(r, a) ==
             CASE a = "ok" -> req'[r] = req[r]
               [] a # "ok" /\ Unheard(r) -> req'[r].at = "hung"
               [] OTHER -> req'[r].reply = GetStatus(a)
           Heard(r) ==
             (/\ req[r].at = "working" /\ call[r] # NoCall
              /\ call'[r] = NoCall /\ main' # "returned")
             => \E a \in call[r].delegate : Reported(r, a)
<1>1. IInv /\ [Next]_vars => [\A r \in Callers : Heard(r)]_vars
  <2> SUFFICES ASSUME IInv, [Next]_vars, NEW r \in Callers, req[r].at = "working",
                      call[r] # NoCall, call'[r] = NoCall, main' # "returned"
               PROVE  \E a \in call[r].delegate : Reported(r, a)
    OBVIOUS
  <2>1. Result(r)
    BY EndedByResult
  <2>2. PICK a \in Selectable(r) : Took(r, a)
    BY <2>1, ResultTakes
  <2>3. a \in call[r].delegate
    BY <2>2 DEF Selectable, IInv, Good, CallHonest
  <2>4. req = [x \in Callers |-> req[x]] /\ Shaped(req[r])
    BY DEF IInv, Good
  <2>5. CASE a = "ok"
    BY <2>2, <2>3, <2>5 DEF Took
  <2>6. CASE a # "ok" /\ Unheard(r)
    <3>1. req'[r] = Moved(req[r], "hung")
      BY <2>2, <2>4, <2>6 DEF Took
    <3>2. req'[r].at = "hung"
      BY <2>4, <3>1, MovedFields DEF Places
    <3> QED
      BY <2>3, <2>6, <3>2
  <2>7. CASE a # "ok" /\ ~Unheard(r)
    <3>1. req'[r] = Over(GetStatus(a))
      BY <2>2, <2>4, <2>7 DEF Took, Finish, Over
    <3>2. req'[r].reply = GetStatus(a)
      BY <3>1, OverFields
    <3> QED
      BY <2>3, <2>7, <3>2
  <2> QED
    BY <2>5, <2>6, <2>7
<1> QED
  BY <1>1, InvariantHolds, PTL DEF Spec, DelegateHeard

-----------------------------------------------------------------------------
(***************************************************************************)
(* Progress.  Liveness under fairness is out of the prover's reach; what   *)
(* the argument for Answered and Stops rests on is not: a request that is  *)
(* not answered has a step it can take unless it waits in one of the two   *)
(* ways that last for ever, and every step takes it nearer to its end.     *)
(***************************************************************************)

\* The guards of the steps of a request, in the order of RequestStep.
CanStep(r) ==
    \/ req[r].at = "gateway"
    \/ req[r].at = "stream" /\ req[r].route \in Routes
    \/ req[r].at = "handler" /\ req[r].route \in Routes /\ req[r].msg # {}
    \/ req[r].at = "working" /\ todo[r] = <<>> /\ call[r] = NoCall
    \/ req[r].at = "working" /\ Selectable(r) # {}
    \/ /\ req[r].at = "working" /\ req[r].route = "Permission.Expand" /\ ~req[r].connected
       /\ call[r].command = "QueryRelationships"
    \/ req[r].at = "done" /\ Selectable(r) # {}
    \/ todo[r] # <<>> /\ Head(todo[r]) \in Methods /\ call[r] = NoCall
    \/ call[r].worker \in {"running", "late"}

\* The guards of the steps of Run.
RunCanStep == \/ main \in {"start", "dial", "shutdown"}
              \/ main = "serving" /\ interrupted
              \/ main = "stopping" /\ Handling = {}
              \/ main # "returned" /\ exit = "panicking"

\* A request that is not answered can go on, or its call was refused by hystrix,
\* or it is a unary lookup one of whose reads failed.  A Run that was told to
\* stop can go on, or it waits in GracefulStop for a request that can, or for
\* one that nothing will end.
NobodyStuck ==
    /\ \A r \in Callers : req[r].at \notin {"idle", "done"} => CanStep(r) \/ Waits(r)
    /\ interrupted /\ main # "returned" =>
          RunCanStep \/ \E r \in Handling : CanStep(r) \/ Blocking(r)

\* What a request has yet to do: places to pass, then calls to make, then the
\* stages of the call it waits in.
Place == [idle |-> 6, gateway |-> 5, stream |-> 4, handler |-> 3, working |-> 2, hung |-> 1,
          done |-> 0]

Wait == [running |-> 3, refused |-> 3, late |-> 2, ended |-> 1, none |-> 0]

Below(q, t, k, q0, t0, k0) ==
    \/ Place[q.at] < Place[q0.at]
    \/ /\ q.at = q0.at
       /\ Len(t) < Len(t0) \/ (t = t0 /\ Wait[k.worker] < Wait[k0.worker])

Nearer(r) == Below(req'[r], todo'[r], call'[r], req[r], todo[r], call[r])

AsFar(r) == req'[r].at = req[r].at /\ todo'[r] = todo[r] /\ call'[r] = call[r]

RunLeft == [start |-> 5, dial |-> 4, serving |-> 3, shutdown |-> 2, stopping |-> 1, returned |-> 0]

\* A step of a request, or of what the breaker does for it, takes it nearer to
\* its end; no step, of another request, of Run, of hystrix or of a client,
\* takes a request or Run back.
Descends ==
    /\ \A r \in Callers : Nearer(r) \/ AsFar(r)
    /\ \A r \in Callers : RequestStep(r) => Nearer(r)
    /\ main' = main \/ RunLeft[main'] < RunLeft[main]
    /\ RunStep => main' # main

\* The invariant it takes: a request under way names a method of the API, what
\* a handler has is a message, an HTTP request in flight is waited for before
\* the gRPC server is stopped, and a call that ended has left its answer.
UnderWay(q) == q.at \notin {"idle", "done"}

Carried(q, mn) ==
    UnderWay(q) => /\ q.route \in Routes
                   /\ q.at = "handler" => q.msg # {}
                   /\ q.at = "handler" /\ q.route = "Relationship.Write" =>
                         q.msg \subseteq RelationshipWriteRequests
                   /\ q.via = "http" /\ q.connected => HttpEnabled /\ mn \in {"serving", "shutdown"}

Outstanding(k) == \/ k = NoCall
                  \/ k.worker \in {"running", "late", "refused"}
                  \/ k.worker = "ended" /\ k.output # {}

Kept(q, t, k, mn) == Carried(q, mn) /\ t \in Seq(Methods) /\ Outstanding(k)

AllKept == \A r \in Callers : Kept(req[r], todo[r], call[r], main)

\* What one step does to a request, the calls it has to make and the one it
\* waits in: it arrives, is answered, passes a place, is not heard, loses its
\* client, or its call goes on.
Arrived(q0, t0, k0, q, t, k) ==
    /\ q0.at = "idle" /\ q.at \in {"gateway", "stream"} /\ q.route \in Routes
    /\ q.via = "http" => HttpEnabled /\ main = "serving"
    /\ t = t0 /\ k = k0

Ended(q0, t0, k0, q, t, k) ==
    /\ UnderWay(q0) /\ q.at = "done"
    /\ t \in {t0, <<>>} /\ k \in {k0, NoCall}

Passed(q0, t0, k0, q, t, k) ==
    /\ q.route = q0.route /\ q.via = q0.via /\ q.connected = q0.connected /\ k = k0
    /\ \/ q0.at = "gateway" /\ q.at = "stream" /\ t = t0
       \/ /\ q0.at = "stream" /\ q.at = "handler" /\ t = t0 /\ q.msg # {}
          /\ q.route = "Relationship.Write" => q.msg \subseteq RelationshipWriteRequests
       \/ q0.at = "handler" /\ q.at = "working" /\ t \in Seq(Methods)

Hung(q0, t0, k0, q, t, k) ==
    /\ q.route = q0.route /\ q.via = q0.via /\ q.connected = q0.connected
    /\ q0.at = "working" /\ q.at = "hung" /\ t = <<>> /\ k = NoCall

Lost(q0, t0, k0, q, t, k) ==
    /\ q.at = q0.at /\ q.route = q0.route /\ q.msg = q0.msg /\ ~q.connected
    /\ t = t0 /\ k = k0

WentOn(q0, t0, k0, q, t, k) ==
    /\ q = q0
    /\ \/ t0 # <<>> /\ k0 = NoCall /\ t = Tail(t0) /\ k.worker \in {"running", "refused"}
       \/ /\ k0.worker \in {"running", "late"} /\ t = t0
          /\ k.worker = "ended" /\ k.output # {}
       \/ k0.worker = "running" /\ t = t0 /\ k.worker = "late"
       \/ k0 # NoCall /\ t = t0 /\ k = NoCall

OneStep(q0, t0, k0, q, t, k) ==
    \/ Arrived(q0, t0, k0, q, t, k) \/ Ended(q0, t0, k0, q, t, k) \/ Passed(q0, t0, k0, q, t, k)
    \/ Hung(q0, t0, k0, q, t, k) \/ WentOn(q0, t0, k0, q, t, k)

LEMMA StepKept ==
    ASSUME NEW q0, NEW t0, NEW k0, NEW q, NEW t, NEW k, Kept(q0, t0, k0, main),
           OneStep(q0, t0, k0, q, t, k) \/ Lost(q0, t0, k0, q, t, k)
    PROVE  Kept(q, t, k, main)
<1>1. <<>> \in Seq(Methods) /\ (t0 # <<>> => Tail(t0) \in Seq(Methods))
  BY DEF Kept
<1>2. CASE Arrived(q0, t0, k0, q, t, k)
  BY <1>2 DEF Arrived, Kept, Carried, UnderWay
<1>3. CASE Ended(q0, t0, k0, q, t, k)
  BY <1>1, <1>3 DEF Ended, Kept, Carried, UnderWay, Outstanding
<1>4. CASE Passed(q0, t0, k0, q, t, k)
  BY <1>4 DEF Passed, Kept, Carried, UnderWay
<1>5. CASE WentOn(q0, t0, k0, q, t, k)
  BY <1>1, <1>5 DEF WentOn, Kept, Outstanding
<1>6. CASE Lost(q0, t0, k0, q, t, k)
  BY <1>6 DEF Lost, Kept, Carried, UnderWay
<1>7. CASE Hung(q0, t0, k0, q, t, k)
  BY <1>1, <1>7 DEF Hung, Kept, Carried, UnderWay, Outstanding
<1> QED
  BY <1>2, <1>3, <1>4, <1>5, <1>6, <1>7 DEF OneStep

LEMMA StepBelow ==
    ASSUME NEW q0, NEW t0, NEW k0, NEW q, NEW t, NEW k, Kept(q0, t0, k0, main),
           q0.at \in Places, OneStep(q0, t0, k0, q, t, k)
    PROVE  Below(q, t, k, q0, t0, k0)
<1>1. CASE Arrived(q0, t0, k0, q, t, k)
  BY <1>1 DEF Arrived, Below, Place
<1>2. CASE Ended(q0, t0, k0, q, t, k)
  BY <1>2 DEF Ended, UnderWay, Places, Below, Place
<1>3. CASE Passed(q0, t0, k0, q, t, k)
  BY <1>3 DEF Passed, Below, Place
<1>4. CASE WentOn(q0, t0, k0, q, t, k)
  <2>1. t0 # <<>> => Len(Tail(t0)) < Len(t0)
    BY DEF Kept
  <2>2. k0 # NoCall => k0.worker \in {"running", "late", "refused", "ended"}
    BY DEF Kept, Outstanding
  <2>3. NoCall.worker = "none"
    BY DEF NoCall
  <2> QED
    BY <1>4, <2>1, <2>2, <2>3 DEF WentOn, Below, Wait
<1>5. CASE Hung(q0, t0, k0, q, t, k)
  BY <1>5 DEF Hung, Below, Place
<1> QED
  BY <1>1, <1>2, <1>3, <1>4, <1>5 DEF OneStep

\* A step of r, and nothing else of the process.
StepOf(r) == \E q, t, k : /\ req' = [req EXCEPT ![r] = q]
                          /\ todo' = [todo EXCEPT ![r] = t]
                          /\ call' = [call EXCEPT ![r] = k]
                          /\ main' = main
                          /\ OneStep(req[r], todo[r], call[r], q, t, k)

LEMMA FinishStep ==
    ASSUME NEW r \in Callers, NEW status, NEW t \in {todo[r], <<>>}, NEW k \in {call[r], NoCall},
           UnderWay(req[r]), Finish(r, status),
           todo' = [todo EXCEPT ![r] = t], call' = [call EXCEPT ![r] = k], main' = main
    PROVE  StepOf(r)
<1>1. req' = [req EXCEPT ![r] = Over(status)] /\ Over(status).at = "done"
  BY OverFields DEF Finish, Over
<1>2. Ended(req[r], todo[r], call[r], Over(status), t, k)
  BY <1>1 DEF Ended
<1> QED
  BY <1>1, <1>2 DEF StepOf, OneStep

LEMMA ArriveStep ==
    ASSUME IInv, NEW r \in Callers, Arrive(r)
    PROVE  StepOf(r)
<1>1. PICK a \in Ask[r] :
        /\ IF a.via = "http" THEN http = "serving" ELSE grpc = "serving"
        /\ req' = [req EXCEPT ![r] =
              [NoRequest EXCEPT !.at = IF a.via = "http" THEN "gateway" ELSE "stream",
                                !.via = a.via, !.route = a.route, !.key = a.key,
                                !.path = a.path, !.body = a.body, !.connected = TRUE,
                                !.msg = IF a.via = "http" THEN {} ELSE a.body]]
  BY DEF Arrive
<1> DEFINE at == IF a.via = "http" THEN "gateway" ELSE "stream"
           msg == IF a.via = "http" THEN {} ELSE a.body
           q == [NoRequest EXCEPT !.at = at,
                                  !.via = a.via, !.route = a.route, !.key = a.key,
                                  !.path = a.path, !.body = a.body, !.connected = TRUE,
                                  !.msg = msg]
<1>2. q.at = at /\ q.via = a.via /\ q.route = a.route
  BY DEF NoRequest
<1>3. a.route \in Routes
  BY AskAssumption
<1>4. a.via = "http" => main = "serving" /\ HttpEnabled
  BY <1>1 DEF IInv, RunOrder
<1>5. req' = [req EXCEPT ![r] = q]
  BY <1>1
<1> HIDE DEF q
<1>6. Arrived(req[r], todo[r], call[r], q, todo[r], call[r])
  BY <1>2, <1>3, <1>4 DEF Arrived, Arrive
<1>7. /\ todo' = [todo EXCEPT ![r] = todo[r]] /\ call' = [call EXCEPT ![r] = call[r]]
      /\ main' = main
  BY DEF Arrive, breakerVars, IInv
<1> QED
  BY <1>5, <1>6, <1>7 DEF StepOf, OneStep

LEMMA ForwardStep ==
    ASSUME IInv, NEW r \in Callers, Forward(r)
    PROVE  StepOf(r)
<1> DEFINE sent == Gateway(req[r].route, req[r])
           q == Sent(req[r], sent)
<1>1. /\ todo' = [todo EXCEPT ![r] = todo[r]] /\ call' = [call EXCEPT ![r] = call[r]]
      /\ main' = main /\ req[r].at = "gateway" /\ UnderWay(req[r])
  BY DEF Forward, breakerVars, IInv, UnderWay
<1>2. Shaped(req[r])
  BY DEF IInv, Good
<1>3. \A m, n \in sent : m = n
  BY <1>2, GatewayTenant DEF Shaped
<1>4. CASE \E status : Finish(r, status)
  BY <1>1, <1>4, FinishStep
<1>5. CASE req' = [req EXCEPT ![r].at = "stream", ![r].msg = sent]
  <2>1. req' = [req EXCEPT ![r] = q]
    BY <1>5 DEF IInv, Sent
  <2> HIDE DEF sent
  <2>2. /\ q.at = "stream" /\ q.via = req[r].via /\ q.route = req[r].route
        /\ q.connected = req[r].connected
    BY <1>2, <1>3, SentFields
  <2> HIDE DEF q
  <2>3. Passed(req[r], todo[r], call[r], q, todo[r], call[r])
    BY <1>1, <2>2 DEF Passed
  <2> QED
    BY <1>1, <2>1, <2>3 DEF StepOf, OneStep
<1>6. \/ \E status : Finish(r, status)
      \/ req' = [req EXCEPT ![r].at = "stream", ![r].msg = sent]
  <2>1. CASE sent = {}
    BY <2>1 DEF Forward
  <2>2. CASE sent # {} /\ grpc # "serving"
    BY <2>2 DEF Forward
  <2>3. CASE sent # {} /\ grpc = "serving"
    BY <2>3 DEF Forward
  <2> QED
    BY <2>1, <2>2, <2>3
<1> QED
  BY <1>4, <1>5, <1>6

LEMMA ReceiveStep ==
    ASSUME IInv, NEW r \in Callers, NEW route, NEW messages, Receive(r, route, messages),
           route = "Relationship.Write" => messages = RelationshipWriteRequests
    PROVE  StepOf(r)
<1> DEFINE in == {m \in req[r].msg : m \in messages}
           refusal == Refusal(route, req[r].key, in)
           q == Moved(req[r], "handler")
<1>1. /\ todo' = [todo EXCEPT ![r] = todo[r]] /\ call' = [call EXCEPT ![r] = call[r]]
      /\ main' = main /\ req[r].at = "stream" /\ req[r].route = route /\ UnderWay(req[r])
  BY DEF Receive, breakerVars, IInv, UnderWay
<1>2. Shaped(req[r])
  BY DEF IInv, Good
<1>3. CASE refusal # {}
  <2>1. Finish(r, CHOOSE s \in refusal : TRUE)
    BY <1>3 DEF Receive
  <2> QED
    BY <1>1, <2>1, FinishStep
<1>4. CASE refusal = {}
  <2>1. req' = [req EXCEPT ![r] = q]
    BY <1>4 DEF Receive, IInv, Moved
  <2>2. /\ q.at = "handler" /\ q.via = req[r].via /\ q.route = route
        /\ q.connected = req[r].connected /\ q.msg = req[r].msg
    BY <1>1, <1>2, MovedFields DEF Places
  <2> HIDE DEF q
  <2>3. in # {}
    BY <1>4, NotRefused
  <2>4. req[r].msg # {} /\ req[r].msg \subseteq messages
    BY <1>2, <2>3 DEF Shaped
  <2>5. Passed(req[r], todo[r], call[r], q, todo[r], call[r])
    BY <1>1, <2>2, <2>4 DEF Passed
  <2> QED
    BY <1>1, <2>1, <2>5 DEF StepOf, OneStep
<1> QED
  BY <1>3, <1>4

LEMMA HandleStep ==
    ASSUME IInv, NEW r \in Callers, NEW route, NEW m, NEW calls \in Seq(Methods),
           Handle(r, route, m, calls)
    PROVE  StepOf(r)
<1> DEFINE q == Moved(req[r], "working")
<1>1. /\ call' = [call EXCEPT ![r] = call[r]]
      /\ main' = main /\ req[r].at = "handler" /\ UnderWay(req[r])
  BY DEF Handle, IInv, UnderWay
<1>2. CASE \E s \in {"Internal", "Unknown"} : Finish(r, s) /\ UNCHANGED todo
  <2>1. PICK s \in {"Internal", "Unknown"} : Finish(r, s) /\ UNCHANGED todo
    BY <1>2
  <2>2. todo' = [todo EXCEPT ![r] = todo[r]]
    BY <2>1 DEF IInv
  <2> QED
    BY <1>1, <2>1, <2>2, FinishStep
<1>3. CASE /\ req' = [req EXCEPT ![r].at = "working"]
           /\ todo' = [todo EXCEPT ![r] = calls]
  <2>1. req' = [req EXCEPT ![r] = q]
    BY <1>3 DEF IInv, Moved
  <2>2. Shaped(req[r])
    BY DEF IInv, Good
  <2>3. /\ q.at = "working" /\ q.via = req[r].via /\ q.route = req[r].route
        /\ q.connected = req[r].connected
    BY <2>2, MovedFields DEF Places
  <2> HIDE DEF q
  <2>4. Passed(req[r], todo[r], call[r], q, calls, call[r])
    BY <1>1, <2>3 DEF Passed
  <2> QED
    BY <1>1, <1>3, <2>1, <2>4 DEF StepOf, OneStep
<1> QED
  BY <1>2, <1>3 DEF Handle

\* The answer that a caller selects is that of a call.
LEMMA SelectedCall ==
    ASSUME IInv, NEW r \in Callers, Selectable(r) # {}
    PROVE  call[r] # NoCall
  BY DEF Selectable, NoCall

LEMMA ResultStep ==
    ASSUME IInv, NEW r \in Callers, Result(r)
    PROVE  StepOf(r)
<1>1. PICK a \in Selectable(r) : Took(r, a)
  BY ResultTakes
<1>2. /\ call' = [call EXCEPT ![r] = NoCall] /\ main' = main
      /\ req[r].at = "working" /\ UnderWay(req[r])
  BY ResultTakes DEF UnderWay
<1>3. CASE a = "ok"
  <2>1. req' = [req EXCEPT ![r] = req[r]] /\ todo' = [todo EXCEPT ![r] = todo[r]]
    BY <1>1, <1>3 DEF Took, IInv
  <2>2. WentOn(req[r], todo[r], call[r], req[r], todo[r], NoCall)
    BY SelectedCall DEF WentOn
  <2> QED
    BY <1>2, <2>1, <2>2 DEF StepOf, OneStep
<1>4. CASE a # "ok" /\ Unheard(r)
  <2> DEFINE q == Moved(req[r], "hung")
  <2>1. req' = [req EXCEPT ![r] = q] /\ todo' = [todo EXCEPT ![r] = <<>>]
    BY <1>1, <1>4 DEF Took
  <2>2. Shaped(req[r])
    BY DEF IInv, Good
  <2>3. /\ q.at = "hung" /\ q.via = req[r].via /\ q.route = req[r].route
        /\ q.connected = req[r].connected
    BY <2>2, MovedFields DEF Places
  <2> HIDE DEF q
  <2>4. Hung(req[r], todo[r], call[r], q, <<>>, NoCall)
    BY <1>2, <2>3 DEF Hung
  <2> QED
    BY <1>2, <2>1, <2>4 DEF StepOf, OneStep
<1>5. CASE a # "ok" /\ ~Unheard(r)
  BY <1>1, <1>2, <1>5, FinishStep DEF Took
<1> QED
  BY <1>3, <1>4, <1>5

LEMMA LeftBehindStep ==
    ASSUME IInv, NEW r \in Callers, LeftBehind(r)
    PROVE  StepOf(r)
<1>1. /\ req' = [req EXCEPT ![r] = req[r]] /\ todo' = [todo EXCEPT ![r] = todo[r]]
      /\ call' = [call EXCEPT ![r] = NoCall] /\ main' = main /\ Selectable(r) # {}
  BY DEF LeftBehind, IInv
<1>2. WentOn(req[r], todo[r], call[r], req[r], todo[r], NoCall)
  BY <1>1, SelectedCall DEF WentOn
<1> QED
  BY <1>1, <1>2 DEF StepOf, OneStep

LEMMA EndsStep ==
    ASSUME IInv, NEW r \in Callers, Respond(r) \/ ExpandCancelled(r)
    PROVE  StepOf(r)
<1>1. /\ todo' = [todo EXCEPT ![r] = todo[r]] /\ call' = [call EXCEPT ![r] = call[r]]
      /\ main' = main /\ UnderWay(req[r]) /\ \E status : Finish(r, status)
  BY DEF Respond, ExpandCancelled, breakerVars, IInv, UnderWay
<1> QED
  BY <1>1, FinishStep

-----------------------------------------------------------------------------
(* The steps of a call. *)

LEMMA GoStep ==
    ASSUME IInv, NEW r \in Callers, NEW method, NEW command, Go(r, method, command),
           UNCHANGED <<main, req>>
    PROVE  StepOf(r)
<1> DEFINE k == IF command \in open \/ Cardinality(Tickets(command)) >= MaxConcurrent
                THEN [NoCall EXCEPT !.command = command, !.worker = "refused", !.bErrors = Fallback]
                ELSE [NoCall EXCEPT !.command = command, !.worker = "running"]
<1>1. /\ todo[r] # <<>> /\ call[r] = NoCall
      /\ todo' = [todo EXCEPT ![r] = Tail(todo[r])] /\ call' = [call EXCEPT ![r] = k]
  BY DEF Go
<1>2. k.worker \in {"running", "refused"}
  BY DEF NoCall
<1>3. req' = [req EXCEPT ![r] = req[r]] /\ main' = main
  BY DEF IInv
<1> HIDE DEF k
<1>4. WentOn(req[r], todo[r], call[r], req[r], Tail(todo[r]), k)
  BY <1>1, <1>2 DEF WentOn
<1> QED
  BY <1>1, <1>3, <1>4 DEF StepOf, OneStep

LEMMA AnswerStep ==
    ASSUME IInv, NEW r \in Callers, Answer(r), UNCHANGED <<main, req>>
    PROVE  StepOf(r)
<1>1. PICK a \in Answers :
          call' = [call EXCEPT ![r].worker = "ended", ![r].delegate = {a}, ![r].output = {a}]
  BY DEF Answer
<1> DEFINE k == [call[r] EXCEPT !.worker = "ended", !.delegate = {a}, !.output = {a}]
<1>2. call' = [call EXCEPT ![r] = k] /\ todo' = [todo EXCEPT ![r] = todo[r]]
  BY <1>1 DEF IInv, Answer
<1>3. req' = [req EXCEPT ![r] = req[r]] /\ main' = main
  BY DEF IInv
<1>4. k.worker = "ended" /\ k.output = {a}
  BY DEF IInv, Good, CallHonest, CallSet
<1> HIDE DEF k
<1>5. WentOn(req[r], todo[r], call[r], req[r], todo[r], k)
  BY <1>4 DEF WentOn, Answer
<1> QED
  BY <1>2, <1>3, <1>5 DEF StepOf, OneStep

LEMMA TimeoutStep ==
    ASSUME IInv, NEW r \in Callers, Timeout(r), UNCHANGED <<main, req>>
    PROVE  StepOf(r)
<1> DEFINE k == [call[r] EXCEPT !.worker = "late", !.bErrors = Fallback]
<1>1. call' = [call EXCEPT ![r] = k] /\ todo' = [todo EXCEPT ![r] = todo[r]]
  BY DEF IInv, Timeout
<1>2. req' = [req EXCEPT ![r] = req[r]] /\ main' = main
  BY DEF IInv
<1>3. k.worker = "late"
  BY DEF IInv, Good, CallHonest, CallSet
<1> HIDE DEF k
<1>4. WentOn(req[r], todo[r], call[r], req[r], todo[r], k)
  BY <1>3 DEF WentOn, Timeout
<1> QED
  BY <1>1, <1>2, <1>4 DEF StepOf, OneStep

\* The calls of a handler are methods of the repositories.
LEMMA CallsAreMethods ==
    ASSUME NEW m
    PROVE  /\ CheckCalls(m) \in Seq(Methods) /\ LookupEntityCalls(m) \in Seq(Methods)
           /\ LookupSchemaCalls(m) \in Seq(Methods) /\ SchemaWriteCalls(m) \in Seq(Methods)
           /\ SchemaReadCalls(m) \in Seq(Methods) /\ RelationshipReadCalls(m) \in Seq(Methods)
           /\ RelationshipDeleteCalls(m) \in Seq(Methods) /\ NoCalls(m) \in Seq(Methods)
           /\ m \in RelationshipWriteRequests => RelationshipWriteCalls(m) \in Seq(Methods)
<1>1. Snapshot(m) \in Seq(Methods) /\ Version(m) \in Seq(Methods)
  <2>1. /\ <<"HeadSnapshot">> \in Seq(Methods) /\ <<"HeadVersion">> \in Seq(Methods)
        /\ <<>> \in Seq(Methods)
    BY DEF Methods
  <2> QED
    BY <2>1, Zenon DEF Snapshot, Version
<1>2. /\ <<"ReadSchemaDefinition", "QueryRelationships">> \in Seq(Methods)
      /\ <<"GetUniqueEntityIDs", "ReadSchemaDefinition", "QueryRelationships">> \in Seq(Methods)
      /\ <<"ReadSchemaDefinition">> \in Seq(Methods) /\ <<"WriteSchema">> \in Seq(Methods)
      /\ <<"ReadSchema">> \in Seq(Methods) /\ <<"WriteRelationships">> \in Seq(Methods)
      /\ <<"ReadRelationships">> \in Seq(Methods) /\ <<"DeleteRelationships">> \in Seq(Methods)
      /\ <<>> \in Seq(Methods)
  BY DEF Methods
<1>3. ASSUME m \in RelationshipWriteRequests
      PROVE  [i \in DOMAIN m.tuples |-> "ReadSchemaDefinition"] \in Seq(Methods)
  <2>1. m.tuples \in Seq(Pointer(Tuples))
    BY <1>3 DEF RelationshipWriteRequests
  <2>2. Len(m.tuples) \in Nat /\ DOMAIN m.tuples = 1..Len(m.tuples)
    BY <2>1
  <2> QED
    BY <2>2 DEF Methods
<1>4. ASSUME NEW s \in Seq(Methods), NEW u \in Seq(Methods)
      PROVE  s \o u \in Seq(Methods)
  OBVIOUS
<1>5. /\ Snapshot(m) \o Version(m) \in Seq(Methods)
      /\ m \in RelationshipWriteRequests =>
            Version(m) \o [i \in DOMAIN m.tuples |-> "ReadSchemaDefinition"] \in Seq(Methods)
  BY <1>1, <1>3, <1>4
<1> QED
  BY <1>1, <1>2, <1>4, <1>5
     DEF CheckCalls, LookupEntityCalls, LookupSchemaCalls, SchemaWriteCalls, SchemaReadCalls,
         RelationshipReadCalls, RelationshipDeleteCalls, NoCalls, RelationshipWriteCalls

\* Whatever a request does is one step of it, unless it ends the process.
LEMMA RequestStepOf ==
    ASSUME IInv, AllKept, NEW r \in Callers, RequestStep(r)
    PROVE  StepOf(r) \/ ExpandPanics(r)
<1>1. CASE \E route, messages :
              /\ Receive(r, route, messages)
              /\ route = "Relationship.Write" => messages = RelationshipWriteRequests
  BY <1>1, ReceiveStep
<1>2. CASE \E route, m : \E calls \in Seq(Methods) : Handle(r, route, m, calls)
  BY <1>2, HandleStep
<1>3. CASE BreakerStep(r) /\ UNCHANGED <<main, req>>
  <2>1. Answer(r) \/ \E method, command : Go(r, method, command)
    BY <1>3 DEF BreakerStep, QueryRelationships, ReadRelationships, GetUniqueEntityIDsByEntityType,
         HeadSnapshot, WriteRelationships, DeleteRelationships, ReadSchema, ReadSchemaDefinition,
         HeadVersion, WriteSchema
  <2> QED
    BY <1>3, <2>1, AnswerStep, GoStep
<1>4. CASE Forward(r) \/ Respond(r) \/ Result(r) \/ ExpandCancelled(r) \/ LeftBehind(r)
  BY <1>4, ForwardStep, EndsStep, ResultStep, LeftBehindStep
<1>5. ASSUME \/ Permission_Check_Handler(r)
             \/ Permission_Expand_Handler(r)
             \/ Permission_LookupSchema_Handler(r)
             \/ Permission_LookupEntity_Handler(r)
             \/ Permission_LookupEntityStream_Handler(r)
             \/ Schema_Write_Handler(r)
             \/ Schema_Read_Handler(r)
             \/ Relationship_Write_Handler(r)
             \/ Relationship_Read_Handler(r)
             \/ Relationship_Delete_Handler(r)
             \/ Tenancy_Create_Handler(r)
             \/ Tenancy_Delete_Handler(r)
             \/ Tenancy_List_Handler(r)
             \/ Welcome_Hello_Handler(r)
      PROVE  \E route, messages :
                /\ Receive(r, route, messages)
                /\ route = "Relationship.Write" => messages = RelationshipWriteRequests
  BY <1>5 DEF Permission_Check_Handler, Permission_Expand_Handler, Permission_LookupSchema_Handler,
         Permission_LookupEntity_Handler, Permission_LookupEntityStream_Handler,
         Schema_Write_Handler, Schema_Read_Handler, Relationship_Write_Handler,
         Relationship_Read_Handler, Relationship_Delete_Handler, Tenancy_Create_Handler,
         Tenancy_Delete_Handler, Tenancy_List_Handler, Welcome_Hello_Handler
<1>6. ASSUME \/ Check(r) \/ Expand(r) \/ LookupSchema(r)
             \/ LookupEntity(r) \/ LookupEntityStream(r)
             \/ SchemaWrite(r) \/ SchemaRead(r)
             \/ RelationshipRead(r) \/ RelationshipDelete(r)
             \/ TenantCreate(r) \/ TenantDelete(r) \/ TenantList(r) \/ Hello(r)
      PROVE  \E route, m : \E calls \in Seq(Methods) : Handle(r, route, m, calls)
  BY <1>6, CallsAreMethods
     DEF Check, Expand, LookupSchema, LookupEntity, LookupEntityStream, SchemaWrite, SchemaRead,
         RelationshipRead, RelationshipDelete, TenantCreate, TenantDelete, TenantList, Hello
<1>7. ASSUME RelationshipWrite(r)
      PROVE  \E route, m : \E calls \in Seq(Methods) : Handle(r, route, m, calls)
  <2>1. PICK m \in req[r].msg : Handle(r, "Relationship.Write", m, RelationshipWriteCalls(m))
    BY <1>7 DEF RelationshipWrite
  <2>2. req[r].at = "handler" /\ req[r].route = "Relationship.Write"
    BY <2>1 DEF Handle
  <2>3. m \in RelationshipWriteRequests
    BY <2>2 DEF AllKept, Kept, Carried, UnderWay
  <2> QED
    BY <2>1, <2>3, CallsAreMethods
<1> QED
  BY <1>1, <1>2, <1>3, <1>4, <1>5, <1>6, <1>7 DEF RequestStep

\* A step of r takes it nearer to its end, leaves the others where they are and
\* keeps the invariant.
LEMMA StepOfKeeps ==
    ASSUME IInv, AllKept, NEW r \in Callers, StepOf(r)
    PROVE  /\ AllKept' /\ main' = main /\ Nearer(r)
           /\ \A x \in Callers : x # r => AsFar(x)
<1>1. PICK q, t, k : /\ req' = [req EXCEPT ![r] = q]
                     /\ todo' = [todo EXCEPT ![r] = t]
                     /\ call' = [call EXCEPT ![r] = k]
                     /\ main' = main
                     /\ OneStep(req[r], todo[r], call[r], q, t, k)
  BY DEF StepOf
<1>2. Kept(req[r], todo[r], call[r], main) /\ req[r].at \in Places
  BY DEF AllKept, IInv, Good, Shaped
<1>3. Kept(q, t, k, main) /\ Below(q, t, k, req[r], todo[r], call[r])
  BY <1>1, <1>2, StepKept, StepBelow
<1>4. /\ req'[r] = q /\ todo'[r] = t /\ call'[r] = k
      /\ \A x \in Callers : x # r => /\ req'[x] = req[x] /\ todo'[x] = todo[x]
                                     /\ call'[x] = call[x]
  BY <1>1 DEF IInv
<1>5. ASSUME NEW x \in Callers
      PROVE  Kept(req'[x], todo'[x], call'[x], main')
  <2>1. CASE x = r
    BY <1>1, <1>3, <1>4, <2>1
  <2>2. CASE x # r
    BY <1>1, <1>4, <2>2 DEF AllKept
  <2> QED
    BY <2>1, <2>2
<1> QED
  BY <1>1, <1>3, <1>4, <1>5 DEF AllKept, Nearer, AsFar

\* A client that goes away changes nothing that its request has to do.
LEMMA AbandonStep ==
    ASSUME IInv, AllKept, NEW r \in Callers, Abandon(r)
    PROVE  AllKept' /\ main' = main /\ \A x \in Callers : AsFar(x)
<1> DEFINE q == Left(req[r])
<1>1. /\ todo' = todo /\ call' = call /\ main' = main /\ req' = [req EXCEPT ![r] = q]
  BY DEF Abandon, breakerVars, IInv, Left
<1>2. Shaped(req[r]) /\ Kept(req[r], todo[r], call[r], main)
  BY DEF AllKept, IInv, Good
<1>3. /\ q.at = req[r].at /\ q.route = req[r].route /\ q.msg = req[r].msg /\ q.connected = FALSE
  BY <1>2, LeftFields
<1> HIDE DEF q
<1>4. Lost(req[r], todo[r], call[r], q, todo[r], call[r])
  BY <1>3 DEF Lost
<1>5. Kept(q, todo[r], call[r], main)
  BY <1>2, <1>4, StepKept
<1>6. /\ req'[r] = q /\ \A x \in Callers : x # r => req'[x] = req[x]
  BY <1>1 DEF IInv
<1>7. ASSUME NEW x \in Callers
      PROVE  Kept(req'[x], todo[x], call[x], main)
  <2>1. CASE x = r
    BY <1>5, <1>6, <2>1
  <2>2. CASE x # r
    BY <1>6, <2>2 DEF AllKept
  <2> QED
    BY <2>1, <2>2
<1> QED
  BY <1>1, <1>3, <1>6, <1>7 DEF AllKept, AsFar

-----------------------------------------------------------------------------
(* The steps of Run. *)

\* Run goes on, and waits for the HTTP requests before it stops the gRPC server.
LEMMA RunOnward ==
    ASSUME IInv, AllKept,
           ServeGrpc \/ ServeHttp \/ Shutdown \/ ShutdownDone
    PROVE  /\ AllKept' /\ main' # main /\ RunLeft[main'] < RunLeft[main]
           /\ \A r \in Callers : AsFar(r)
<1>1. req' = req /\ todo' = todo /\ call' = call
  BY DEF ServeGrpc, ServeHttp, Shutdown, ShutdownDone, breakerVars
<1>2. main' # main /\ RunLeft[main'] < RunLeft[main]
  BY DEF ServeGrpc, ServeHttp, Shutdown, ShutdownDone, RunLeft
<1>3. ASSUME NEW r \in Callers, UnderWay(req[r]), req[r].via = "http", req[r].connected
      PROVE  HttpEnabled /\ main' \in {"serving", "shutdown"}
  <2>1. HttpEnabled /\ main \in {"serving", "shutdown"}
    BY <1>3 DEF AllKept, Kept, Carried
  <2>2. ~ShutdownDone
    BY <1>3 DEF ShutdownDone, HttpBusy, UnderWay
  <2> QED
    BY <2>1, <2>2 DEF ServeGrpc, ServeHttp, Shutdown
<1>4. ASSUME NEW r \in Callers
      PROVE  Kept(req[r], todo[r], call[r], main')
  <2>1. Kept(req[r], todo[r], call[r], main)
    BY DEF AllKept
  <2> QED
    BY <1>3, <2>1 DEF Kept, Carried
<1> QED
  BY <1>1, <1>2, <1>4 DEF AllKept, AsFar

\* The process ends: whoever still waited is cut off.
LEMMA ReturnedEnds ==
    ASSUME IInv, AllKept, NEW value, Returned(value)
    PROVE  /\ AllKept' /\ main' = "returned"
           /\ \A r \in Callers : Nearer(r) \/ AsFar(r)
           /\ \A r \in Callers : UnderWay(req[r]) => Nearer(r)
<1>1. Returned(value)
  OBVIOUS
<1>2. main' = "returned"
  BY <1>1 DEF Returned
<1>3. ASSUME NEW r \in Callers
      PROVE  /\ todo'[r] = <<>> /\ call'[r] = NoCall
             /\ \/ req'[r] = req[r] /\ ~UnderWay(req[r])
                \/ req'[r].at = "done" /\ UnderWay(req[r])
  <2> DEFINE status == IF req[r].connected THEN "cut" ELSE "Canceled"
  <2>1. todo'[r] = <<>> /\ call'[r] = NoCall
    BY <1>1 DEF Returned
  <2>2. ~UnderWay(req[r]) => req'[r] = req[r]
    BY <1>1 DEF Returned, UnderWay
  <2>3. UnderWay(req[r]) => req'[r] = Over(status)
    BY <1>1 DEF Returned, UnderWay, Over
  <2> QED
    BY <2>1, <2>2, <2>3, OverFields
<1>4. ASSUME NEW r \in Callers
      PROVE  Kept(req'[r], <<>>, NoCall, "returned")
  <2>1. ~UnderWay(req'[r])
    BY <1>3 DEF UnderWay
  <2>2. <<>> \in Seq(Methods)
    OBVIOUS
  <2> QED
    BY <2>1, <2>2 DEF Kept, Carried, Outstanding
<1>5. ASSUME NEW r \in Callers
      PROVE  (Nearer(r) \/ AsFar(r)) /\ (UnderWay(req[r]) => Nearer(r))
  <2>1. todo[r] \in Seq(Methods) /\ Outstanding(call[r]) /\ req[r].at \in Places
    BY DEF AllKept, Kept, IInv, Good, Shaped
  <2>2. CASE UnderWay(req[r])
    BY <1>3, <2>1, <2>2 DEF Nearer, Below, Place, UnderWay, Places
  <2>3. CASE ~UnderWay(req[r]) /\ todo[r] # <<>>
    <3>1. Len(<<>>) < Len(todo[r])
      BY <2>1, <2>3
    <3> QED
      BY <1>3, <2>3, <3>1 DEF Nearer, Below
  <2>4. CASE ~UnderWay(req[r]) /\ todo[r] = <<>> /\ call[r] # NoCall
    <3>1. call[r].worker \in {"running", "late", "refused", "ended"} /\ NoCall.worker = "none"
      BY <2>1, <2>4 DEF Outstanding, NoCall
    <3>2. Wait[NoCall.worker] < Wait[call[r].worker]
      BY <3>1 DEF Wait
    <3> QED
      BY <1>3, <2>4, <3>2 DEF Nearer, Below
  <2>5. CASE ~UnderWay(req[r]) /\ todo[r] = <<>> /\ call[r] = NoCall
    BY <1>3, <2>5 DEF AsFar
  <2> QED
    BY <2>2, <2>3, <2>4, <2>5
<1>6. AllKept'
  BY <1>2, <1>3, <1>4 DEF AllKept
<1> QED
  BY <1>2, <1>5, <1>6

LEMMA RunReturns ==
    ASSUME IInv, AllKept,
           StartFails \/ DialFails \/ ShutdownTimeout \/ GracefulStop \/ Panic
    PROVE  /\ AllKept' /\ main' # main /\ RunLeft[main'] < RunLeft[main]
           /\ \A r \in Callers : Nearer(r) \/ AsFar(r)
<1>1. PICK value : Returned(value)
  BY DEF StartFails, DialFails, ShutdownTimeout, GracefulStop, Panic
<1>2. main \in {"start", "dial", "serving", "shutdown", "stopping"}
  BY DEF StartFails, DialFails, ShutdownTimeout, GracefulStop, Panic, IInv, RunOrder
<1>3. /\ AllKept' /\ main' = "returned"
      /\ \A r \in Callers : Nearer(r) \/ AsFar(r)
  BY <1>1, ReturnedEnds
<1> QED
  BY <1>2, <1>3 DEF RunLeft

LEMMA PanicsEnd ==
    ASSUME IInv, AllKept, NEW r \in Callers, ExpandPanics(r)
    PROVE  /\ AllKept' /\ (main' = main \/ RunLeft[main'] < RunLeft[main])
           /\ \A x \in Callers : Nearer(x) \/ AsFar(x)
           /\ Nearer(r)
<1>1. Returned("panic") /\ UnderWay(req[r])
  BY DEF ExpandPanics, UnderWay
<1>2. /\ AllKept' /\ main' = "returned" /\ Nearer(r)
      /\ \A x \in Callers : Nearer(x) \/ AsFar(x)
  BY <1>1, ReturnedEnds
<1>3. main \in {"start", "dial", "serving", "shutdown", "stopping", "returned"}
  BY DEF IInv, RunOrder
<1> QED
  BY <1>2, <1>3 DEF RunLeft

-----------------------------------------------------------------------------
(* The theorems. *)

\* Every step keeps the invariant and descends.
LEMMA NextDescends ==
    ASSUME IInv, AllKept, Next
    PROVE  AllKept' /\ Descends
<1>1. ASSUME NEW r \in Callers, StepOf(r)
      PROVE  /\ AllKept' /\ main' = main
             /\ \A x \in Callers : Nearer(x) \/ AsFar(x)
  BY <1>1, StepOfKeeps
<1>2. ASSUME NEW r \in Callers, RequestStep(r)
      PROVE  Nearer(r)
  BY <1>2, RequestStepOf, StepOfKeeps, PanicsEnd
<1>3. RunStep => main' # main
  BY RunOnward, RunReturns DEF RunStep
<1>4. /\ AllKept' /\ (main' = main \/ RunLeft[main'] < RunLeft[main])
      /\ \A x \in Callers : Nearer(x) \/ AsFar(x)
  <2>1. CASE \E r \in Callers : RequestStep(r)
    BY <1>1, <2>1, RequestStepOf, PanicsEnd
  <2>2. CASE RunStep \/ StartFails
    BY <2>2, RunOnward, RunReturns DEF RunStep
  <2>3. CASE \E r \in Callers : Arrive(r)
    BY <1>1, <2>3, ArriveStep
  <2>4. CASE \E r \in Callers : Abandon(r)
    BY <2>4, AbandonStep
  <2>5. CASE \E r \in Callers : Timeout(r) /\ UNCHANGED <<main, req>>
    BY <1>1, <2>5, TimeoutStep
  <2>6. CASE UNCHANGED <<main, req, todo, call>>
    BY <2>6 DEF AllKept, AsFar
  <2>7. Interrupt => UNCHANGED <<main, req, todo, call>>
    BY DEF Interrupt, breakerVars
  <2>8. BreakerEnvironment /\ UNCHANGED <<main, exit, grpc, http, interrupted, req>> =>
           \/ \E r \in Callers : Timeout(r) /\ UNCHANGED <<main, req>>
           \/ UNCHANGED <<main, req, todo, call>>
    BY DEF BreakerEnvironment, Trip, Heal
  <2> QED
    BY <2>1, <2>2, <2>3, <2>4, <2>5, <2>6, <2>7, <2>8 DEF Next, Environment
<1> QED
  BY <1>2, <1>3, <1>4 DEF Descends

LEMMA InitKept == Init => AllKept
<1>1. <<>> \in Seq(Methods) /\ ~UnderWay(NoRequest)
  BY DEF UnderWay, NoRequest
<1> QED
  BY <1>1 DEF Init, BreakerInit, AllKept, Kept, Carried, Outstanding

\* A request under way names a method and has its message, an HTTP request is
\* waited for, and a call that ended has left its answer.
THEOREM KeptHolds == Spec => [](IInv /\ AllKept)
<1>1. IInv /\ AllKept /\ [Next]_vars => (IInv /\ AllKept)'
  <2> SUFFICES ASSUME IInv, AllKept, [Next]_vars PROVE IInv' /\ AllKept'
    OBVIOUS
  <2>1. CASE UNCHANGED vars
    BY <2>1, NextKeeps DEF vars, breakerVars, AllKept
  <2> QED
    BY <2>1, NextKeeps, NextDescends
<1> QED
  BY <1>1, InitHolds, InitKept, PTL DEF Spec

\* A request that is not answered can go on unless hystrix refused its call or a
\* read of its unary lookup failed, and a Run that was told to stop can go on,
\* or waits for a request that can or for one of those two.
THEOREM ServerNeverStuck == Spec => []NobodyStuck
<1>1. IInv /\ AllKept => NobodyStuck
  <2> SUFFICES ASSUME IInv, AllKept PROVE NobodyStuck
    OBVIOUS
  <2>1. ASSUME NEW r \in Callers, UnderWay(req[r])
        PROVE  CanStep(r) \/ Waits(r)
    <3>1. Kept(req[r], todo[r], call[r], main) /\ req[r].at \in Places /\ CallHonest(call[r])
      BY DEF AllKept, IInv, Good, Shaped
    <3>2. CASE req[r].at \in {"gateway", "stream", "handler"}
      BY <2>1, <3>1, <3>2 DEF Kept, Carried, UnderWay, CanStep
    <3>3. CASE req[r].at = "working" /\ call[r] = NoCall
      <4>1. todo[r] # <<>> => Head(todo[r]) \in Methods
        BY <3>1 DEF Kept
      <4> QED
        BY <3>3, <4>1 DEF CanStep
    <3>4. CASE req[r].at = "working" /\ call[r] # NoCall
      <4>1. CASE call[r].worker \in {"running", "late"}
        BY <4>1 DEF CanStep
      <4>2. CASE call[r].worker = "ended" /\ call[r].output # {}
        BY <3>4, <4>2 DEF CanStep, Selectable
      <4>3. CASE call[r].worker = "refused"
        BY <3>4, <4>3 DEF CanStep, Stranded, Waits
      <4> QED
        BY <3>1, <3>4, <4>1, <4>2, <4>3 DEF Kept, Outstanding
    <3>5. CASE req[r].at = "hung"
      BY <3>5 DEF Waits
    <3> QED
      BY <2>1, <3>1, <3>2, <3>3, <3>4, <3>5 DEF UnderWay, Places
  <2>2. ASSUME interrupted, main # "returned", ~RunCanStep
        PROVE  \E r \in Handling : CanStep(r) \/ Blocking(r)
    <3>1. main = "stopping" /\ Handling # {}
      BY <2>2 DEF RunCanStep, IInv, RunOrder
    <3>2. PICK r \in Handling : TRUE
      BY <3>1
    <3>3. r \in Callers /\ UnderWay(req[r])
      BY <3>2 DEF Handling, UnderWay
    <3>4. ~(req[r].via = "http" /\ req[r].connected)
      BY <3>1, <3>3 DEF AllKept, Kept, Carried
    <3> QED
      BY <2>1, <3>2, <3>3, <3>4 DEF Blocking
  <2> QED
    BY <2>1, <2>2 DEF NobodyStuck, UnderWay
<1> QED
  BY <1>1, KeptHolds, PTL

\* Every step of a request takes it nearer to its answer and every step of Run
\* takes Run nearer to its end, and no step takes any of them back: with the
\* theorem before, a request waits for ever only on the scheduler, on hystrix or
\* on an error that the unary lookup does not hear.
THEOREM ServerDescends == Spec => [][Descends]_vars
<1>1. IInv /\ AllKept /\ [Next]_vars => [Descends]_vars
  BY NextDescends
<1> QED
  BY <1>1, KeptHolds, PTL DEF Spec
=============================================================================
