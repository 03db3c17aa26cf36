---------------------------- MODULE SchemaStore ----------------------------
(***************************************************************************)
(* Schemas on their way through SchemaServer, SchemaService, the schema    *)
(* repositories, the cache decorator and LookupSchemaCommand.  A schema is *)
(* written as one row per entity, serialized by String(), under a fresh    *)
(* version; every read parses and compiles the rows again.  The language   *)
(* itself is Dsl, which the constants stand for.                           *)
(***************************************************************************)
EXTENDS Naturals, Sequences, SequencesExt, FiniteSets

CONSTANTS Callers,   \* concurrent calls
          Plans,     \* what the calls of a behaviour are: each a function of Callers
          Engines,   \* "postgres", "memory"
          Rank       \* the alphabetical order of the entity types, as numbers

CONSTANTS ParseText(_),           \* Dsl!Parse: a text's entity statements, or an error
          CompilesText(_, _),     \* Dsl!Compiles: whether statements compile, references validated or not
          DefinitionOf(_),        \* Dsl!EntityString: an entity statement written back
          SchemaOf(_),            \* Dsl!Compile: the definitions by entity type
          FromDefinitions(_, _),  \* Dsl!NewSchemaFromStringDefinitions
          ActionsFor(_, _)        \* Dsl!LookupActions: the actions a set of relations grants

Accepts(text) == ParseText(text).err = "" /\ CompilesText(ParseText(text).exp, TRUE)

Entities(text) == Range(ParseText(text).exp)

EngineAssumption == Engines \subseteq {"postgres", "memory"}

RankAssumption ==
    /\ IsFiniteSet(DOMAIN Rank)
    /\ Rank \in [DOMAIN Rank -> 1..Cardinality(DOMAIN Rank)]
    /\ \A s, t \in DOMAIN Rank : Rank[s] = Rank[t] => s = t

\* An accepted text has entities (a user at least), of different names, and
\* is compiled into one definition for each.
LanguageAssumption ==
    \A p \in Plans, c \in Callers : p[c].kind = "write" /\ Accepts(p[c].text) =>
        LET text == p[c].text IN
        /\ ParseText(text).exp \in Seq(Entities(text)) /\ ParseText(text).exp # <<>>
        /\ \A e \in Entities(text) : e.name \in DOMAIN Rank
        /\ \A e, f \in Entities(text) : e.name = f.name => e = f
        /\ DOMAIN SchemaOf(ParseText(text).exp) = {e.name : e \in Entities(text)}

ASSUME SchemaStoreAssumption == EngineAssumption /\ RankAssumption /\ LanguageAssumption

VARIABLES engine,    \* the configured database
          plan,      \* what each call is
          clock,     \* the last xid handed out by this process
          rows,      \* the committed schema_definitions
          cache,     \* the definitions the decorator holds
          call       \* the state of each call

vars == <<engine, plan, clock, rows, cache, call>>

NoReply == [err |-> "", schema |-> <<>>, actions |-> {}]
Refusal(err) == [NoReply EXCEPT !.err = err]

\* at: "new", "insert" (parsed and compiled), "pinned" (has a version), "done".
\* schema: what a write has parsed.  since: the newest version acknowledged to its tenant when it started.
NewCall == [at |-> "new", version |-> 0, schema |-> <<>>, since |-> 0, reply |-> NoReply]

Init == /\ engine \in Engines
        /\ plan \in Plans
        /\ clock = 0
        /\ rows = {}
        /\ cache = {}
        /\ call = [c \in Callers |-> NewCall]

-----------------------------------------------------------------------------
(* Repositories *)

Row(tenant, type, version, definition) ==
    [tenant |-> tenant, type |-> type, version |-> version, definition |-> definition]

RowsOf(tenant, version) == {r \in rows : r.tenant = tenant /\ r.version = version}

\* Memory: rows come in the order of the index, by type.  PostgreSQL: in any.
Orders(set) ==
    {o \in SetToSeqs(set) : engine = "memory" =>
        \A i, j \in DOMAIN o : i < j => Rank[o[i].type] < Rank[o[j].type]}

ReadSchema(definitions) == FromDefinitions(TRUE, definitions)

ReadRows(tenant, version) ==
    {ReadSchema([i \in DOMAIN order |-> order[i].definition]) :
        order \in Orders(RowsOf(tenant, version))}

NotFound == [err |-> "ERROR_CODE_SCHEMA_NOT_FOUND", schema |-> <<>>]

\* ReadSchemaDefinition: one row, compiled without its references.
ReadSchemaDefinition(tenant, type, version) ==
    LET found == {r \in RowsOf(tenant, version) : r.type = type}
    IN IF found = {} THEN NotFound
       ELSE FromDefinitions(FALSE, <<(CHOOSE r \in found : TRUE).definition>>)

Versions(tenant) == {r.version : r \in {s \in rows : s.tenant = tenant}}

Greatest(set) == CHOOSE x \in set : \A y \in set : y <= x

\* Mutant: the rows are ordered ascending.
HeadVersionFirst(tenant) ==
    IF Versions(tenant) = {} THEN 0
    ELSE CHOOSE v \in Versions(tenant) : \A w \in Versions(tenant) : v <= w

\* PostgreSQL orders by version.  Memory takes the last row of the "tenant"
\* index, whose entries are followed by the primary key: tenant, type, version.
HeadVersion(tenant) ==
    LET mine == {r \in rows : r.tenant = tenant}
        last == Greatest({Rank[r.type] : r \in mine})
    IN IF mine = {} THEN 0
       ELSE IF engine = "postgres" THEN Greatest(Versions(tenant))
       ELSE Greatest({r.version : r \in {s \in mine : Rank[s.type] = last}})

-----------------------------------------------------------------------------
(* Calls *)

Acknowledged(tenant) ==
    {call[c].version : c \in {d \in Callers : /\ plan[d].kind = "write"
                                              /\ plan[d].tenant = tenant
                                              /\ call[d].at = "done"
                                              /\ call[d].reply.err = ""}}

Is(c, kind, at) == plan[c].kind = kind /\ call[c].at = at

Reply(c, reply) == call' = [call EXCEPT ![c].at = "done", ![c].reply = reply]

\* SchemaService.WriteSchema until it calls the writer: a text that does not
\* parse or compile is refused, another one gets a version.
WriteSchema(c) ==
    /\ Is(c, "write", "new")
    /\ IF ~Accepts(plan[c].text)
       THEN Reply(c, Refusal("ERROR_CODE_SCHEMA_COMPILE")) /\ UNCHANGED clock
       ELSE /\ clock' = clock + 1
            /\ call' = [call EXCEPT ![c].at = "insert", ![c].version = clock + 1,
                                    ![c].schema = ParseText(plan[c].text).exp]
    /\ UNCHANGED <<engine, plan, rows, cache>>

Serialized(c) ==
    {Row(plan[c].tenant, entity.name, call[c].version, DefinitionOf(entity)) :
        entity \in Range(call[c].schema)}

\* One INSERT of all rows, or one memdb transaction.
Insert(c) ==
    /\ Is(c, "write", "insert")
    /\ rows' = rows \cup Serialized(c)
    /\ Reply(c, NoReply)
    /\ UNCHANGED <<engine, plan, clock, cache>>

\* The statement fails, or PostgreSQL's answer to it is lost.
InsertFails(c) ==
    /\ Is(c, "write", "insert")
    /\ rows' \in {rows} \cup (IF engine = "postgres" THEN {rows \cup Serialized(c)} ELSE {})
    /\ Reply(c, Refusal("ERROR_CODE_EXECUTION"))
    /\ UNCHANGED <<engine, plan, clock, cache>>

\* SchemaService.ReadSchema and LookupSchemaCommand.Execute: without a version
\* in the request the head of now is used from here on.
PinVersion(c) ==
    LET tenant == plan[c].tenant IN
    /\ plan[c].kind \in {"read", "lookup"} /\ call[c].at = "new"
    /\ LET head == HeadVersion(tenant)
           since == Greatest(Acknowledged(tenant) \cup {0})
       IN IF head = 0 THEN Reply(c, Refusal("ERROR_CODE_SCHEMA_NOT_FOUND"))
          ELSE call' = [call EXCEPT ![c].at = "pinned", ![c].version = head, ![c].since = since]
    /\ UNCHANGED <<engine, plan, clock, rows, cache>>

Read(c) ==
    /\ Is(c, "read", "pinned")
    /\ \E r \in ReadRows(plan[c].tenant, call[c].version) :
          Reply(c, [NoReply EXCEPT !.err = r.err, !.schema = r.schema])
    /\ UNCHANGED <<engine, plan, clock, rows, cache>>

\* Mutant: the key leaves out the version.
CacheKeyTypeOnly(tenant, type, version) == <<tenant, type>>

CacheKey(tenant, type, version) == <<tenant, type, version>>

KeyOf(c) == CacheKey(plan[c].tenant, plan[c].type, call[c].version)

Cached(c) == {e \in cache : e.key = KeyOf(c)}

Answer(c, definition) ==
    Reply(c, [NoReply EXCEPT !.actions = ActionsFor(definition, plan[c].names)])

LookupHit(c) ==
    /\ Is(c, "lookup", "pinned")
    /\ \E e \in Cached(c) : Answer(c, e.definition)
    /\ UNCHANGED <<engine, plan, clock, rows, cache>>

\* The decorator reads through and keeps the definition.
LookupMiss(c) ==
    /\ Is(c, "lookup", "pinned") /\ Cached(c) = {}
    /\ \E r \in {ReadSchemaDefinition(plan[c].tenant, plan[c].type, call[c].version)} :
          IF r.err # "" THEN Reply(c, Refusal(r.err)) /\ UNCHANGED cache
          ELSE LET definition == r.schema[plan[c].type]
               IN /\ cache' = cache \cup {[key |-> KeyOf(c), definition |-> definition]}
                  /\ Answer(c, definition)
    /\ UNCHANGED <<engine, plan, clock, rows>>

\* ristretto drops entries.
Evict == /\ cache # {}
         /\ \E e \in cache : cache' = cache \ {e}
         /\ UNCHANGED <<engine, plan, clock, rows, call>>

\* A read fails, or the client's context ends in a lookup's select.
ReadFails(c) ==
    /\ plan[c].kind \in {"read", "lookup"} /\ call[c].at \in {"new", "pinned"}
    /\ \/ engine = "postgres" /\ Reply(c, Refusal("ERROR_CODE_EXECUTION"))
       \/ Is(c, "lookup", "pinned") /\ Reply(c, Refusal("ERROR_CODE_CANCELLED"))
    /\ UNCHANGED <<engine, plan, clock, rows, cache>>

Step(c) == \/ WriteSchema(c)
           \/ Insert(c)
           \/ InsertFails(c)
           \/ PinVersion(c)
           \/ Read(c)
           \/ LookupHit(c)
           \/ LookupMiss(c)
           \/ ReadFails(c)

Next == Evict \/ \E c \in Callers : Step(c)

Spec == Init /\ [][Next]_vars

-----------------------------------------------------------------------------
\* What the language must promise: an accepted text, serialized and put
\* together again in any order, is compiled to the same definitions, and so
\* is each entity alone.
RoundTrip ==
    \A p \in Plans, c \in Callers : p[c].kind = "write" /\ Accepts(p[c].text) =>
        LET entities == Entities(p[c].text)
            schema == SchemaOf(ParseText(p[c].text).exp)
        IN /\ \A o \in SetToSeqs(entities) :
                 FromDefinitions(TRUE, [i \in DOMAIN o |-> DefinitionOf(o[i])])
                     = [err |-> "", schema |-> schema]
           /\ \A e \in entities :
                 LET r == FromDefinitions(FALSE, <<DefinitionOf(e)>>)
                 IN r.err = "" /\ r.schema[e.name] = schema[e.name]

\* The schema a write was accepted for.
Written(c) == SchemaOf(call[c].schema)

\* Whoever sees a version, in whatever order its rows come, reads back the
\* schema that was compiled when it was written, whole: serializing and
\* parsing again changes nothing, and no version is visible in part.
Readable ==
    \A c \in Callers :
        LET tenant == plan[c].tenant
            version == call[c].version
            schema == Written(c)
        IN plan[c].kind = "write" /\ RowsOf(tenant, version) # {} =>
             /\ ReadRows(tenant, version) = {[err |-> "", schema |-> schema]}
             /\ \A type \in DOMAIN schema :
                   ReadSchemaDefinition(tenant, type, version).schema[type] = schema[type]

\* A lookup answers for the schema of its version, whatever the cache held.
LookupSound ==
    \A c, d \in Callers :
        /\ plan[c].kind = "lookup" /\ call[c].at = "done" /\ call[c].reply.err = ""
        /\ plan[d].kind = "write" /\ call[d].version = call[c].version
        => call[c].reply.actions = ActionsFor(Written(d)[plan[c].type], plan[c].names)

\* A call without a version sees a schema at least as new as every one that
\* was acknowledged to its tenant before it began, as SchemaReader.HeadVersion
\* promises ("the latest version of the schema").
HeadFresh ==
    \A c \in Callers : call[c].at = "pinned" \/ (call[c].at = "done" /\ call[c].reply.err = "") =>
        call[c].version >= call[c].since

\* PostgreSQL's HeadVersion keeps that promise, with any number of schemas
\* written meanwhile.  The memory repository's does not: its index is ordered
\* by type before version.
PostgresHeadFresh == engine = "postgres" => HeadFresh
=============================================================================
