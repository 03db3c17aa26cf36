--------------------------- MODULE Relationships ---------------------------
(***************************************************************************)
(* RelationshipServer and RelationshipService over the relationship        *)
(* repositories, next to the tenants.  A write pins a schema version,      *)
(* validates its tuples against it and hands them to the writer; a client  *)
(* reads the tuples of a filter in pages.                                  *)
(*                                                                         *)
(* Schemas appear as what SchemaStore shows of them: a tenant's versions   *)
(* are numbered in their order and never change; they define the same      *)
(* types, so that the head is the newest in both engines.  Row ids start   *)
(* at 1, a page token is an id and 0 is no token.  The retries and the     *)
(* failures of the PostgreSQL writer are those of SnapshotStore; here a    *)
(* write is two steps, the insert that takes ids from the sequence and the *)
(* commit that shows the rows.                                             *)
(***************************************************************************)
EXTENDS Tenancy

CONSTANTS Tenants,    \* numbers, ordered as the ids are
          Schemas     \* Schemas[t]: the successive schemas of t, of each
                      \* type and relation the references [type, relation]

TupleFields == {"type", "id", "relation", "stype", "sid", "srel"}

\* What the clients send; a client that reads after another has its snap token.
ASSUME RelationAssumption ==
    /\ Tenants \subseteq Nat
    /\ \A p \in Plans : \A c \in Callers :
          /\ p[c].tenant \in Tenants /\ p[c].version \in Nat
          /\ Len(p[c].tuples) \in Nat /\ DOMAIN p[c].tuples = 1..Len(p[c].tuples)
          /\ \A i \in DOMAIN p[c].tuples : DOMAIN p[c].tuples[i] = TupleFields
          /\ p[c].kind = "read" /\ p[c].after \in Callers => p[p[c].after].kind = "write"

VARIABLES versions,   \* how many schemas each tenant has
          rows,       \* relation_tuples, or the memdb table
          nextId,     \* the sequence of row ids
          nextXid,    \* the next transaction id
          txs         \* the transactions table: tenant and snapshot by id

relationVars == <<versions, rows, nextId, nextXid, txs>>
vars == <<engine, plan, call, tenants, relationVars>>

ELLIPSIS == "..."
USER == "user"

Init == /\ TenancyInit
        /\ versions = [t \in Tenants |-> 0]
        /\ rows = {}
        /\ nextId = 1
        /\ nextXid = 1
        /\ txs = [x \in {} |-> 0]

-----------------------------------------------------------------------------
(* Filters *)

\* "" and {} stand for a field that is not set.
FilterQuery(f, t) ==
    /\ f.type # "" => t.type = f.type
    /\ f.ids # {} => t.id \in f.ids
    /\ f.relation # "" => t.relation = f.relation
    /\ f.stype # "" => t.stype = f.stype
    /\ f.sids # {} => t.sid \in f.sids
    /\ f.srel # "" => t.srel = f.srel

Matching(f) == {r \in rows : FilterQuery(f, r.tuple)}

\* Without an entity type the index is "id" and has no tenant in its arguments.
IndexRows(tenant, f) ==
    {r \in Matching(f) : f.type = "" \/ r.tenant = tenant}

\* LowerBound has no upper end: the rows of later tenants come too.
LowerBoundRows(tenant, f) ==
    {r \in Matching(f) : f.type = "" \/ r.tenant >= tenant}

SnapshotQuery(r, x) ==
    LET seen == IF x \in DOMAIN txs THEN txs[x].snapshot ELSE {}
    IN /\ r.created \in seen \cup {x}
       /\ r.expired \notin seen \cup {x}

View(tenant, f, x) == {r \in Matching(f) : r.tenant = tenant /\ SnapshotQuery(r, x)}

Selected(tenant, f, x) ==
    IF engine = "memory" THEN LowerBoundRows(tenant, f) ELSE View(tenant, f, x)

HeadSnapshot(tenant) ==
    LET mine == {x \in DOMAIN txs : txs[x].tenant = tenant}
    IN IF mine = {} THEN 0 ELSE CHOOSE x \in mine : \A y \in mine : y <= x

-----------------------------------------------------------------------------
(* Writing *)

\* Another part of the system writes a schema.
WriteSchema(t) ==
    /\ versions[t] < Len(Schemas[t])
    /\ versions' = [versions EXCEPT ![t] = @ + 1]
    /\ UNCHANGED <<engine, plan, call, tenants, rows, nextId, nextXid, txs>>

IsSubjectUser(t) == t.stype = USER

\* Mutant: the empty relation of a subject is stored as it is.
NormalizedNever(t) == t

\* A subject that is not a user and names no relation gets the ellipsis.
Normalized(t) ==
    IF ~IsSubjectUser(t) /\ t.srel = "" THEN [t EXCEPT !.srel = ELLIPSIS] ELSE t

IsEntityAndSubjectEquals(t) == t.type = t.stype /\ t.id = t.sid /\ t.relation = t.srel

SubjectKey(t) == [type |-> t.stype,
                  relation |-> IF IsSubjectUser(t) \/ t.srel = ELLIPSIS THEN "" ELSE t.srel]

ValidateSubjectType(t, references) ==
    IF SubjectKey(t) \in references THEN "" ELSE "ERROR_CODE_SUBJECT_TYPE_NOT_FOUND"

\* The error of one normalized tuple, "" when it may be stored.
TupleError(schema, t) ==
    IF t.type \notin DOMAIN schema THEN "ERROR_CODE_SCHEMA_NOT_FOUND"
    ELSE IF IsEntityAndSubjectEquals(t) THEN "ERROR_CODE_ENTITY_AND_SUBJECT_CANNOT_BE_EQUAL"
    ELSE IF t.relation \notin DOMAIN schema[t.type] THEN "ERROR_CODE_RELATION_DEFINITION_NOT_FOUND"
    ELSE ValidateSubjectType(t, schema[t.type][t.relation])

\* The first tuple that fails refuses the call.
WriteError(schema, tuples) ==
    LET bad == {i \in DOMAIN tuples : TupleError(schema, tuples[i]) # ""}
    IN IF bad = {} THEN ""
       ELSE TupleError(schema, tuples[CHOOSE i \in bad : \A j \in bad : i <= j])

\* RelationshipServer.Write and the start of the service: the version of the
\* request, or the head of now.
PinVersion(c) ==
    LET head == versions[plan[c].tenant]
        tuples == plan[c].tuples
    IN /\ Is(c, "write", "new")
       /\ IF \E i \in DOMAIN tuples : IsSubjectUser(tuples[i]) /\ tuples[i].srel # ""
          THEN End(c, "ERROR_CODE_SUBJECT_RELATION_MUST_BE_EMPTY")
          ELSE IF plan[c].version = 0 /\ head = 0 THEN End(c, "ERROR_CODE_SCHEMA_NOT_FOUND")
          ELSE call' = [call EXCEPT ![c].at = "pinned", ![c].since = head,
                                    ![c].version = IF plan[c].version = 0 THEN head
                                                   ELSE plan[c].version]
       /\ UNCHANGED <<engine, plan, tenants, relationVars>>

\* What the service hands to the writer.
Tuples(c) == [i \in DOMAIN plan[c].tuples |-> Normalized(plan[c].tuples[i])]

\* Definitions never change under a version: the reads of the loop are one step.
Validate(c) ==
    /\ Is(c, "write", "pinned")
    /\ LET known == call[c].version <= versions[plan[c].tenant]
           err == IF known THEN WriteError(Schemas[plan[c].tenant][call[c].version], Tuples(c))
                  ELSE "ERROR_CODE_SCHEMA_NOT_FOUND"
       IN IF err # "" THEN End(c, err)
          ELSE call' = [call EXCEPT ![c].at = "insert"]
    /\ UNCHANGED <<engine, plan, tenants, relationVars>>

Row(c, i, created) ==
    [id |-> nextId + i - 1, tenant |-> plan[c].tenant, tuple |-> Tuples(c)[i],
     created |-> created, expired |-> 0, by |-> c]

SameTuple(r, c) == r.tenant = plan[c].tenant /\ r.tuple \in ToSet(Tuples(c))

\* The rows of a transaction that has not committed.
Pending(r) == r.created \notin DOMAIN txs

\* PostgreSQL: the unique index on live rows makes the insert wait for an
\* uncommitted rival, and refuses it when a live row has the same tuple.
Insert(c) ==
    LET tuples == Tuples(c) IN
    /\ Is(c, "write", "insert") /\ engine = "postgres"
    /\ ~\E r \in rows : SameTuple(r, c) /\ Pending(r)
    /\ nextId' = nextId + Len(tuples)
    /\ nextXid' = nextXid + 1
    /\ IF \/ \E r \in rows : SameTuple(r, c) /\ r.expired = 0
          \/ Cardinality(ToSet(tuples)) < Len(tuples)
       THEN End(c, "ERROR_CODE_UNIQUE_CONSTRAINT") /\ UNCHANGED rows
       ELSE /\ rows' = rows \cup {Row(c, i, nextXid) : i \in DOMAIN tuples}
            /\ call' = [call EXCEPT ![c].at = "commit", ![c].snap = nextXid,
                                    ![c].snapshot = DOMAIN txs]
    /\ UNCHANGED <<engine, plan, tenants, versions, txs>>

Logged(c, x, snapshot) ==
    [y \in DOMAIN txs \cup {x} |->
        IF y = x THEN [tenant |-> plan[c].tenant, snapshot |-> snapshot] ELSE txs[y]]

Commit(c) ==
    /\ Is(c, "write", "commit")
    /\ txs' = Logged(c, call[c].snap, call[c].snapshot)
    /\ End(c, "")
    /\ UNCHANGED <<engine, plan, tenants, versions, rows, nextId, nextXid>>

Rollback(c) ==
    /\ Is(c, "write", "commit")
    /\ rows' = {r \in rows : r.created # call[c].snap}
    /\ End(c, "ERROR_CODE_EXECUTION")
    /\ UNCHANGED <<engine, plan, tenants, versions, nextId, nextXid, txs>>

\* Memory: one transaction; a tuple that is there is replaced by a row with a new id.
MemoryWrite(c) ==
    LET tuples == Tuples(c)
        last(i) == \A j \in DOMAIN tuples : tuples[j] = tuples[i] => j <= i
    IN /\ Is(c, "write", "insert") /\ engine = "memory"
       /\ rows' = {r \in rows : ~SameTuple(r, c)}
                  \cup {Row(c, i, 0) : i \in {j \in DOMAIN tuples : last(j)}}
       /\ nextId' = nextId + Len(tuples)
       /\ End(c, "")
       /\ UNCHANGED <<engine, plan, tenants, versions, nextXid, txs>>

\* PostgreSQL expires the matching live rows of every tenant.
DeleteRelationships(c) ==
    LET f == plan[c].filter
        gone == {r \in Matching(f) : r.expired = 0 /\ ~Pending(r)}
    IN /\ Is(c, "delete", "new")
       /\ IF engine = "memory"
          THEN rows' = rows \ IndexRows(plan[c].tenant, f) /\ UNCHANGED <<nextXid, txs>>
          ELSE /\ rows' = (rows \ gone) \cup {[r EXCEPT !.expired = nextXid] : r \in gone}
               /\ txs' = Logged(c, nextXid, DOMAIN txs)
               /\ nextXid' = nextXid + 1
       /\ End(c, "")
       /\ UNCHANGED <<engine, plan, tenants, versions, nextId>>

-----------------------------------------------------------------------------
(* Reading *)

\* A client may send the snap token it got for a write with each page;
\* without one every page asks for the head again.
Pinned(c) == plan[c].after \in Callers

SnapToken(c) ==
    IF Pinned(c) THEN call[plan[c].after].snap ELSE HeadSnapshot(plan[c].tenant)

Ids(set) == {r.id : r \in set}

SelectedIds(c) == Ids(Selected(plan[c].tenant, plan[c].filter, SnapToken(c)))

\* What a snap token shows does not change, so finding the head and reading
\* at it are one step.
ReadRelationships(c) ==
    /\ plan[c].kind = "read" /\ call[c].at \in {"new", "paging"}
    /\ Pinned(c) => call[plan[c].after].at = "done" /\ call[plan[c].after].err = ""
    /\ TakePage(c, SelectedIds(c), Page(SelectedIds(c), call[c].token, plan[c].size))
    /\ UNCHANGED <<engine, plan, tenants, relationVars>>

\* A page fails: the client gives up.
ReadFails(c) ==
    /\ plan[c].kind = "read" /\ call[c].at \in {"new", "paging"} /\ engine = "postgres"
    /\ End(c, "ERROR_CODE_EXECUTION")
    /\ UNCHANGED <<engine, plan, tenants, relationVars>>

Step(c) == \/ PinVersion(c)
           \/ Validate(c)
           \/ Insert(c)
           \/ Commit(c)
           \/ Rollback(c)
           \/ MemoryWrite(c)
           \/ DeleteRelationships(c)
           \/ ReadRelationships(c)
           \/ ReadFails(c)
           \/ TenancyStep(c) /\ UNCHANGED relationVars

Next == \/ \E t \in Tenants : WriteSchema(t)
        \/ \E c \in Callers : Step(c)

Spec == Init /\ [][Next]_vars

-----------------------------------------------------------------------------
RowsOf(ids) == {r \in rows : r.id \in ids}

\* Pages of tenants and of stored relationships, written, replaced and deleted
\* in between: no row is repeated, every row is one the filter asks for (in
\* PostgreSQL of the tenant), and none is left out that was there for every
\* page.  (A relationship that is written again is another row, and a later
\* page may show it again.)  At one snap token of PostgreSQL the pages are
\* exactly the relationships the token shows, then and ever after, each once.
PagesWhole ==
    \A c \in Callers :
        /\ plan[c].kind \in {"list", "read"} => Whole(c)
        /\ plan[c].kind = "read" =>
              LET got == ToSet(call[c].got)
              IN /\ \A r \in RowsOf(got) : /\ FilterQuery(plan[c].filter, r.tuple)
                                           /\ engine = "postgres" => r.tenant = plan[c].tenant
                 /\ Pinned(c) /\ engine = "postgres" /\ call[c].at = "done" /\ call[c].err = ""
                    => /\ got = Ids(View(plan[c].tenant, plan[c].filter, call[plan[c].after].snap))
                       /\ \A r, s \in RowsOf(got) : r.tuple = s.tuple => r = s

\* Relationships belong to the tenant of the request: a read returns no
\* relationship of another tenant, and no other tenant's delete ends one.
\* Neither holds: DeleteRelationships of PostgreSQL and the page reads of the
\* memory repository leave the tenant out.
TenantsApart ==
    /\ \A r \in rows : r.expired \in DOMAIN txs => txs[r.expired].tenant = r.tenant
    /\ \A c \in Callers : plan[c].kind = "read" =>
          \A r \in RowsOf(ToSet(call[c].got)) : r.tenant = plan[c].tenant

\* What a schema allows: a relation holds the subjects that one of its
\* references names, users without a relation, other direct subjects with the ellipsis.
Allows(schema, t) ==
    /\ t.type \in DOMAIN schema /\ t.relation \in DOMAIN schema[t.type]
    /\ \E ref \in schema[t.type][t.relation] :
          /\ t.stype = ref.type
          /\ t.srel = IF ref.relation # "" THEN ref.relation
                      ELSE IF ref.type = USER THEN "" ELSE ELLIPSIS
    /\ <<t.type, t.id, t.relation>> # <<t.stype, t.sid, t.srel>>

\* Schemas change while tuples are validated and written: every stored tuple
\* is allowed by one schema of its tenant, the one its writer named or one no
\* older than the head when it asked.
StoredValid ==
    \A r \in rows :
        LET v == call[r.by].version
        IN /\ v \in 1..versions[r.tenant] /\ Allows(Schemas[r.tenant][v], r.tuple)
           /\ v = plan[r.by].version \/ v >= call[r.by].since
=============================================================================
