------------------------------ MODULE Requests ------------------------------
(***************************************************************************)
(* What the generated Validate methods accept of the request messages      *)
(* (pkg/pb/base/v1/*.pb.validate.go), how the HTTP gateway builds them     *)
(* (service.pb.gw.go), and what a handler dereferences.                    *)
(*                                                                         *)
(* A nil message is valid unless a rule says "required".                   *)
(***************************************************************************)
EXTENDS Messages

Bytes(s) == CASE s = "" -> 0
              [] s \in {"t", "*"} -> 1
              [] s = "T1" -> 2
              [] s = "user" -> 4
              [] s = "L65" -> 65
              [] s = "L129" -> 129
              [] OTHER -> 3

TenantPattern == {"t", "T1", "doc", "user", "L65", "L129"}

NamePattern == {"doc", "user", "a_b"}

IdPattern == {"t", "T1", "doc", "user", "a_b", "*", "L65"}

SubjectRelationPattern == NamePattern \cup {"..."}

TenantId(s) == Bytes(s) <= 64 /\ s \in TenantPattern

Name(s) == Bytes(s) <= 64 /\ s \in NamePattern

Id(s) == Bytes(s) <= 128 /\ s \in IdPattern

OptionalName(s) == s # "" => Name(s)

OptionalSubjectRelation(s) == s # "" => Bytes(s) <= 64 /\ s \in SubjectRelationPattern

Required(field) == field # {}

PageSize(n) == n # 0 => n \in 1..100

-----------------------------------------------------------------------------
(* tuple.pb.validate.go *)

Entity(m) == Name(m.type) /\ Id(m.id)

Subject(m) == Name(m.type) /\ Id(m.id) /\ OptionalSubjectRelation(m.relation)

Tuple(m) == /\ Required(m.entity) /\ \A e \in m.entity : Entity(e)
            /\ Name(m.relation)
            /\ Required(m.subject) /\ \A s \in m.subject : Subject(s)

\* EntityFilter has no rules.
SubjectFilter(m) == OptionalSubjectRelation(m.relation)

TupleFilter(m) == /\ Required(m.entity)
                  /\ OptionalName(m.relation)
                  /\ \A s \in m.subject : SubjectFilter(s)

-----------------------------------------------------------------------------
(* service.pb.validate.go: the first rule that fails refuses the message. *)

PermissionCheckRequestMetadata(m) == m.depth >= 3

\* Mutant: the metadata is not required.
PermissionCheckRequestUnrequired(m) ==
    /\ TenantId(m.tenant_id)
    /\ \A d \in m.metadata : PermissionCheckRequestMetadata(d)
    /\ Required(m.entity) /\ \A e \in m.entity : Entity(e)
    /\ Name(m.permission)
    /\ Required(m.subject) /\ \A s \in m.subject : Subject(s)

PermissionCheckRequest(m) ==
    /\ TenantId(m.tenant_id)
    /\ Required(m.metadata) /\ \A d \in m.metadata : PermissionCheckRequestMetadata(d)
    /\ Required(m.entity) /\ \A e \in m.entity : Entity(e)
    /\ Name(m.permission)
    /\ Required(m.subject) /\ \A s \in m.subject : Subject(s)

\* Unlike that of a check, the permission may be empty.
PermissionExpandRequest(m) ==
    /\ TenantId(m.tenant_id)
    /\ Required(m.metadata)
    /\ Required(m.entity) /\ \A e \in m.entity : Entity(e)
    /\ OptionalName(m.permission)

PermissionLookupSchemaRequest(m) ==
    /\ TenantId(m.tenant_id)
    /\ Required(m.metadata)
    /\ Name(m.entity_type)

PermissionLookupEntityRequestMetadata(m) == m.depth >= 3

PermissionLookupEntityRequest(m) ==
    /\ TenantId(m.tenant_id)
    /\ Required(m.metadata) /\ \A d \in m.metadata : PermissionLookupEntityRequestMetadata(d)
    /\ Name(m.entity_type)
    /\ Name(m.permission)
    /\ Required(m.subject) /\ \A s \in m.subject : Subject(s)

\* There is no rule for the schema itself.
SchemaWriteRequest(m) == TenantId(m.tenant_id)

SchemaReadRequest(m) == TenantId(m.tenant_id) /\ Required(m.metadata)

RelationshipWriteRequest(m) ==
    /\ TenantId(m.tenant_id)
    /\ Required(m.metadata)
    /\ Len(m.tuples) \in 1..100
    /\ \A i \in DOMAIN m.tuples : Required(m.tuples[i]) /\ \A t \in m.tuples[i] : Tuple(t)

RelationshipReadRequest(m) ==
    /\ TenantId(m.tenant_id)
    /\ Required(m.metadata)
    /\ \A f \in m.filter : TupleFilter(f)
    /\ PageSize(m.page_size)

RelationshipDeleteRequest(m) == TenantId(m.tenant_id) /\ \A f \in m.filter : TupleFilter(f)

TenantCreateRequest(m) == Bytes(m.id) <= 64 /\ Bytes(m.name) <= 64

TenantListRequest(m) == PageSize(m.page_size)

\* A TenantDeleteRequest has no rules, and neither has the Empty of Hello.
Valid(route, m) ==
    CASE route = "Permission.Check" -> PermissionCheckRequest(m)
      [] route = "Permission.Expand" -> PermissionExpandRequest(m)
      [] route = "Permission.LookupSchema" -> PermissionLookupSchemaRequest(m)
      [] route \in {"Permission.LookupEntity", "Permission.LookupEntityStream"}
            -> PermissionLookupEntityRequest(m)
      [] route = "Schema.Write" -> SchemaWriteRequest(m)
      [] route = "Schema.Read" -> SchemaReadRequest(m)
      [] route = "Relationship.Write" -> RelationshipWriteRequest(m)
      [] route = "Relationship.Read" -> RelationshipReadRequest(m)
      [] route = "Relationship.Delete" -> RelationshipDeleteRequest(m)
      [] route = "Tenancy.Create" -> TenantCreateRequest(m)
      [] route = "Tenancy.List" -> TenantListRequest(m)
      [] OTHER -> TRUE

-----------------------------------------------------------------------------
(* service.pb.gw.go.  An HTTP request is its body, decoded ({}: it cannot  *)
(* be decoded; an empty body is the zero message), and the parameter of    *)
(* its path.  The result is the message sent on, or {} (InvalidArgument).  *)

\* The value of the path replaces whatever the body holds for the field.
TenantFromPath(h) == {[m EXCEPT !.tenant_id = h.path] : m \in h.body}

request_Permission_Check_0(h) == TenantFromPath(h)

request_Permission_Expand_0(h) == TenantFromPath(h)

request_Permission_LookupSchema_0(h) == TenantFromPath(h)

request_Permission_LookupEntity_0(h) == TenantFromPath(h)

request_Permission_LookupEntityStream_0(h) == TenantFromPath(h)

request_Schema_Write_0(h) == TenantFromPath(h)

request_Schema_Read_0(h) == TenantFromPath(h)

request_Relationship_Write_0(h) == TenantFromPath(h)

request_Relationship_Read_0(h) == TenantFromPath(h)

request_Relationship_Delete_0(h) == TenantFromPath(h)

request_Tenancy_Create_0(h) == h.body

\* DELETE /v1/tenants/{id}: there is no body.
request_Tenancy_Delete_0(h) == {[id |-> h.path]}

request_Tenancy_List_0(h) == h.body

request_Welcome_Hello_0(h) == Empties

RegisterPermissionHandlerClient(route, h) ==
    CASE route = "Permission.Check" -> request_Permission_Check_0(h)
      [] route = "Permission.Expand" -> request_Permission_Expand_0(h)
      [] route = "Permission.LookupSchema" -> request_Permission_LookupSchema_0(h)
      [] route = "Permission.LookupEntity" -> request_Permission_LookupEntity_0(h)
      [] route = "Permission.LookupEntityStream" -> request_Permission_LookupEntityStream_0(h)

RegisterSchemaHandlerClient(route, h) ==
    IF route = "Schema.Write" THEN request_Schema_Write_0(h) ELSE request_Schema_Read_0(h)

RegisterRelationshipHandlerClient(route, h) ==
    CASE route = "Relationship.Write" -> request_Relationship_Write_0(h)
      [] route = "Relationship.Read" -> request_Relationship_Read_0(h)
      [] route = "Relationship.Delete" -> request_Relationship_Delete_0(h)

RegisterTenancyHandlerClient(route, h) ==
    CASE route = "Tenancy.Create" -> request_Tenancy_Create_0(h)
      [] route = "Tenancy.Delete" -> request_Tenancy_Delete_0(h)
      [] route = "Tenancy.List" -> request_Tenancy_List_0(h)

RegisterWelcomeHandlerClient(route, h) == request_Welcome_Hello_0(h)

PermissionRoutes == {"Permission.Check", "Permission.Expand", "Permission.LookupSchema",
                     "Permission.LookupEntity", "Permission.LookupEntityStream"}

SchemaRoutes == {"Schema.Write", "Schema.Read"}

RelationshipRoutes == {"Relationship.Write", "Relationship.Read", "Relationship.Delete"}

TenancyRoutes == {"Tenancy.Create", "Tenancy.Delete", "Tenancy.List"}

Routes == PermissionRoutes \cup SchemaRoutes \cup RelationshipRoutes \cup TenancyRoutes
             \cup {"Welcome.Hello"}

\* The handlers that Run registers with the gateway's mux.
Gateway(route, h) ==
    CASE route \in PermissionRoutes -> RegisterPermissionHandlerClient(route, h)
      [] route \in SchemaRoutes -> RegisterSchemaHandlerClient(route, h)
      [] route \in RelationshipRoutes -> RegisterRelationshipHandlerClient(route, h)
      [] route \in TenancyRoutes -> RegisterTenancyHandlerClient(route, h)
      [] OTHER -> RegisterWelcomeHandlerClient(route, h)

-----------------------------------------------------------------------------
\* A handler that assigns to a field of nil metadata, or reads the type of a
\* nil subject, panics.  Everything else is read through nil-safe getters.
Panics(route, m) ==
    \/ /\ route \in PermissionRoutes
       /\ m.metadata = {}
    \/ /\ route \in {"Permission.Check", "Permission.LookupEntity", "Permission.LookupEntityStream"}
       /\ m.subject = {}
    \/ /\ route = "Relationship.Write"
       /\ \E i \in DOMAIN m.tuples : \A t \in m.tuples[i] : t.subject = {}

\* RelationshipServer.Write refuses a user with a relation: a plain error.
UserWithRelation(m) ==
    \E i \in DOMAIN m.tuples : \E t \in m.tuples[i] : \E s \in t.subject :
        s.type = "user" /\ s.relation # ""

\* The tenant a message is about ("" for those without one).
TenantOf(route, m) ==
    IF route \in PermissionRoutes \cup SchemaRoutes \cup RelationshipRoutes
    THEN m.tenant_id ELSE ""
=============================================================================
