------------------------------ MODULE Messages ------------------------------
(***************************************************************************)
(* The request messages of the API (pkg/pb/base/v1/service.pb.go and       *)
(* tuple.pb.go) as the sets of values their structs can hold.  An embedded *)
(* message is a pointer: a set with at most one element, {} is nil.  A     *)
(* string is one of a few samples, one for each class the rules of         *)
(* Requests and the handlers tell apart; "L65" and "L129" stand for lower  *)
(* case strings of 65 and 129 bytes.  Numbers of 32 bits are Int and Nat.  *)
(***************************************************************************)
EXTENDS Integers, Sequences, FiniteSets

Strings == {"", "t", "T1", "doc", "user", "a_b", "...", "*", "a b", "L65", "L129"}

Pointer(S) == {p \in SUBSET S : Cardinality(p) <= 1}

-----------------------------------------------------------------------------
(* tuple.pb.go *)

Entities == [type : Strings, id : Strings]

Subjects == [type : Strings, id : Strings, relation : Strings]

Tuples == [entity : Pointer(Entities), relation : Strings, subject : Pointer(Subjects)]

EntityFilters == [type : Strings, ids : Seq(Strings)]

SubjectFilters == [type : Strings, ids : Seq(Strings), relation : Strings]

TupleFilters == [entity : Pointer(EntityFilters), relation : Strings,
                 subject : Pointer(SubjectFilters)]

-----------------------------------------------------------------------------
(* service.pb.go *)

PermissionCheckRequestMetadatas ==
    [schema_version : Strings, snap_token : Strings, exclusion : BOOLEAN, depth : Int]

PermissionCheckRequests ==
    [tenant_id : Strings, metadata : Pointer(PermissionCheckRequestMetadatas),
     entity : Pointer(Entities), permission : Strings, subject : Pointer(Subjects)]

PermissionExpandRequestMetadatas == [schema_version : Strings, snap_token : Strings]

PermissionExpandRequests ==
    [tenant_id : Strings, metadata : Pointer(PermissionExpandRequestMetadatas),
     entity : Pointer(Entities), permission : Strings]

PermissionLookupSchemaRequestMetadatas == [schema_version : Strings]

PermissionLookupSchemaRequests ==
    [tenant_id : Strings, metadata : Pointer(PermissionLookupSchemaRequestMetadatas),
     entity_type : Strings, relation_names : Seq(Strings)]

PermissionLookupEntityRequestMetadatas ==
    [schema_version : Strings, snap_token : Strings, depth : Int]

PermissionLookupEntityRequests ==
    [tenant_id : Strings, metadata : Pointer(PermissionLookupEntityRequestMetadatas),
     entity_type : Strings, permission : Strings, subject : Pointer(Subjects)]

SchemaWriteRequests == [tenant_id : Strings, schema : Strings]

SchemaReadRequestMetadatas == [schema_version : Strings]

SchemaReadRequests == [tenant_id : Strings, metadata : Pointer(SchemaReadRequestMetadatas)]

RelationshipWriteRequestMetadatas == [schema_version : Strings]

RelationshipWriteRequests ==
    [tenant_id : Strings, metadata : Pointer(RelationshipWriteRequestMetadatas),
     tuples : Seq(Pointer(Tuples))]

RelationshipReadRequestMetadatas == [snap_token : Strings]

RelationshipReadRequests ==
    [tenant_id : Strings, metadata : Pointer(RelationshipReadRequestMetadatas),
     filter : Pointer(TupleFilters), page_size : Nat, continuous_token : Strings]

RelationshipDeleteRequests == [tenant_id : Strings, filter : Pointer(TupleFilters)]

TenantCreateRequests == [id : Strings, name : Strings]

TenantDeleteRequests == [id : Strings]

TenantListRequests == [page_size : Nat, continuous_token : Strings]

\* google.protobuf.Empty, the request of Hello.
Empties == {<<>>}

-----------------------------------------------------------------------------
(* What the getters return: the field, or its zero value when the message  *)
(* is nil.                                                                 *)

GetSchemaVersion(m) == IF m.metadata = {} THEN ""
                       ELSE (CHOOSE d \in m.metadata : TRUE).schema_version

GetSnapToken(m) == IF m.metadata = {} THEN ""
                   ELSE (CHOOSE d \in m.metadata : TRUE).snap_token
=============================================================================
