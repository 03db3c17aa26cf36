------------------------------ MODULE MCServer ------------------------------
(* Sample requests for Server: every route over both transports, with        *)
(* messages on either side of the rules and every kind of bearer token.      *)
EXTENDS Server

MCEntity == {[type |-> "doc", id |-> "t"]}
MCUser == {[type |-> "user", id |-> "*", relation |-> ""]}
MCTuple(e, s) == {[entity |-> e, relation |-> "a_b", subject |-> s]}

MCFilter(e) == {[entity |-> e, relation |-> "", subject |-> {}]}

\* Some of them name a snap token or a schema version, the others do not.
MCCheckMessage == [tenant_id |-> "T1", entity |-> MCEntity, permission |-> "a_b", subject |-> MCUser,
                   metadata |-> {[schema_version |-> "", snap_token |-> "",
                                  exclusion |-> FALSE, depth |-> 3]}]
MCExpandMessage == [tenant_id |-> "T1", metadata |-> {[schema_version |-> "", snap_token |-> "t"]},
                    entity |-> MCEntity, permission |-> ""]
MCLookupSchemaMessage == [tenant_id |-> "T1", metadata |-> {[schema_version |-> ""]},
                          entity_type |-> "doc", relation_names |-> <<>>]
MCLookupMessage == [tenant_id |-> "T1", entity_type |-> "doc", permission |-> "a_b",
                    subject |-> MCUser,
                    metadata |-> {[schema_version |-> "t", snap_token |-> "t", depth |-> 3]}]
MCSchemaWriteMessage == [tenant_id |-> "T1", schema |-> "a b"]
MCSchemaReadMessage == [tenant_id |-> "T1", metadata |-> {[schema_version |-> "t"]}]
MCWriteMessage == [tenant_id |-> "T1", metadata |-> {[schema_version |-> ""]},
                   tuples |-> <<MCTuple(MCEntity, MCUser)>>]
MCReadMessage == [tenant_id |-> "T1", metadata |-> {[snap_token |-> ""]}, page_size |-> 100,
                  continuous_token |-> "", filter |-> MCFilter({[type |-> "doc", ids |-> <<>>]})]
MCDeleteMessage == [tenant_id |-> "T1", filter |-> {}]

\* Messages of a route, on either side of its rules.
MCMessages(route) ==
    CASE route = "Permission.Check" ->
            {MCCheckMessage, [MCCheckMessage EXCEPT !.metadata = {}],
             [MCCheckMessage EXCEPT !.metadata = {[d EXCEPT !.depth = 2] : d \in @}],
             [MCCheckMessage EXCEPT !.subject = {}], [MCCheckMessage EXCEPT !.permission = ""]}
      [] route = "Permission.Expand" ->
            {MCExpandMessage, [MCExpandMessage EXCEPT !.metadata = {}],
             [MCExpandMessage EXCEPT !.entity = {[type |-> "doc", id |-> "L129"]}]}
      [] route = "Permission.LookupSchema" ->
            {MCLookupSchemaMessage, [MCLookupSchemaMessage EXCEPT !.metadata = {}],
             [MCLookupSchemaMessage EXCEPT !.entity_type = "L65"]}
      [] route \in {"Permission.LookupEntity", "Permission.LookupEntityStream"} ->
            {MCLookupMessage, [MCLookupMessage EXCEPT !.subject = {}],
             [MCLookupMessage EXCEPT !.metadata = {}]}
      [] route = "Schema.Write" -> {MCSchemaWriteMessage, [MCSchemaWriteMessage EXCEPT !.tenant_id = "a_b"]}
      [] route = "Schema.Read" -> {MCSchemaReadMessage, [MCSchemaReadMessage EXCEPT !.metadata = {}]}
      [] route = "Relationship.Write" ->
            {MCWriteMessage, [MCWriteMessage EXCEPT !.tuples = <<>>],
             [MCWriteMessage EXCEPT !.tuples = <<{}>>],
             [MCWriteMessage EXCEPT !.tuples = <<MCTuple(MCEntity, {})>>],
             [MCWriteMessage EXCEPT !.tuples = <<MCTuple(MCEntity, {[type |-> "user", id |-> "t", relation |-> "..."]})>>]}
      [] route = "Relationship.Read" ->
            {MCReadMessage, [MCReadMessage EXCEPT !.page_size = 101],
             [MCReadMessage EXCEPT !.filter = MCFilter({})]}
      [] route = "Relationship.Delete" -> {MCDeleteMessage, [MCDeleteMessage EXCEPT !.tenant_id = "L65"]}
      [] route = "Tenancy.Create" -> {[id |-> "t", name |-> ""], [id |-> "t", name |-> "L65"]}
      [] route = "Tenancy.List" -> {[page_size |-> n, continuous_token |-> ""] : n \in {0, 101}}
      [] route = "Tenancy.Delete" -> {[id |-> "t"]}
      [] OTHER -> Empties

MCOverGrpc(x, k, m) == [via |-> "grpc", route |-> x, key |-> k, path |-> "", body |-> m]
MCOverHttp(x, p, b) == [via |-> "http", route |-> x, key |-> "good", path |-> p, body |-> b]

\* Every message over gRPC, and one that is none; the valid ones also with other
\* tokens, and over HTTP with paths that are tenants or not and bodies that are
\* JSON or not.
MCRequests(x) ==
    LET valid == {m \in MCMessages(x) : Valid(x, m)} IN
    {MCOverGrpc(x, "good", {m}) : m \in MCMessages(x)}
    \cup {MCOverGrpc(x, "good", {})}
    \cup {MCOverGrpc(x, k, {m}) : k \in {"bad", "missing"}, m \in valid}
    \cup {MCOverHttp(x, p, {m}) : p \in {"doc", "a b"}, m \in valid}
    \cup {MCOverHttp(x, "doc", {})}

MCAsk == [r1 |-> UNION {MCRequests(x) : x \in Routes},
          r2 |-> {MCOverGrpc("Permission.LookupEntity", "good", {MCLookupMessage})}]
=============================================================================
