------------------------------ MODULE Tenancy ------------------------------
(***************************************************************************)
(* TenancyServer, TenancyService and the tenant repositories: tenants are  *)
(* created, deleted and listed in pages by concurrent calls.  Each call of *)
(* a repository is one statement or one memdb transaction.                 *)
(***************************************************************************)
EXTENDS Naturals, FiniteSets, Sequences, SequencesExt

CONSTANTS Callers,   \* concurrent clients
          Plans,     \* what the clients of a behaviour do: each a function of Callers
          Engines,   \* "postgres", "memory"
          DefaultTenant  \* the id "t1"

VARIABLES engine,    \* the configured database
          plan,      \* what each client does
          call,      \* how far it is
          tenants    \* the rows of the tenants table; an id is a number, ordered as the strings are

Absent == 0

\* A page has room for a key, and no tenant's id is the empty token.
ASSUME PlanAssumption ==
    /\ IsFiniteSet(Callers) /\ DefaultTenant \in Nat \ {Absent}
    /\ \A p \in Plans : \A c \in Callers :
          /\ p[c].size \in Nat \ {0}
          /\ p[c].kind = "create" => p[c].id \in Nat \ {Absent}

\* at: "new", "pinned", "insert", "commit", "paging", "done".  token: the page token
\* ("" is 0).  got: the rows of the pages so far.  stay: those that every page selected from.
NewCall == [at |-> "new", err |-> "", token |-> Absent, got |-> <<>>, stay |-> {},
            version |-> 0, since |-> 0, snap |-> 0, snapshot |-> {}]

\* PostgreSQL's migration inserts a tenant; the memory database starts empty.
Migrated == IF engine = "postgres" THEN {DefaultTenant} ELSE {}

TenancyInit == /\ engine \in Engines
               /\ plan \in Plans
               /\ call = [c \in Callers |-> NewCall]
               /\ tenants = Migrated

Is(c, kind, at) == plan[c].kind = kind /\ call[c].at = at

End(c, err) == call' = [call EXCEPT ![c].at = "done", ![c].err = err]

\* Mutant: an existing tenant is replaced.
CreateAlways(c) ==
    /\ Is(c, "create", "new")
    /\ tenants' = tenants \cup {plan[c].id}
    /\ End(c, "")

\* PostgreSQL refuses an id that exists; memdb's Insert replaces the row.
CreateTenant(c) ==
    /\ Is(c, "create", "new")
    /\ IF engine = "postgres" /\ plan[c].id \in tenants
       THEN End(c, "ERROR_CODE_UNIQUE_CONSTRAINT") /\ UNCHANGED tenants
       ELSE End(c, "") /\ tenants' = tenants \cup {plan[c].id}

\* Without a row, DELETE ... RETURNING has nothing to scan, and the memory
\* writer's type assertion panics, which the recovery interceptor answers.
DeleteTenant(c) ==
    /\ Is(c, "deleteTenant", "new")
    /\ End(c, IF plan[c].id \in tenants THEN ""
              ELSE IF engine = "postgres" THEN "ERROR_CODE_EXECUTION" ELSE "panic")
    /\ tenants' = tenants \ {plan[c].id}

\* The statement fails, or was executed and its answer is lost.
TenantFails(c) ==
    /\ engine = "postgres"
    /\ \/ /\ Is(c, "create", "new")
          /\ tenants' \in {tenants, tenants \cup {plan[c].id}}
       \/ /\ Is(c, "deleteTenant", "new")
          /\ tenants' \in {tenants, tenants \ {plan[c].id}}
    /\ End(c, "ERROR_CODE_EXECUTION")

-----------------------------------------------------------------------------
(* Pages: at most PageSize of the selected keys from the token on; the     *)
(* token for the next page is the key after them, if there is one.         *)

\* The n-th key is the one with n keys up to it.
Ascending(keys) == [n \in 1..Cardinality(keys) |->
                       CHOOSE k \in keys : Cardinality({j \in keys : j <= k}) = n]

\* Mutant: the row of the token is taken to have been on the page before.
PageSkipping(selected, token, size) ==
    LET rest == Ascending({k \in selected : k > token})
    IN [keys |-> SubSeq(rest, 1, IF size < Len(rest) THEN size ELSE Len(rest)),
        token |-> IF Len(rest) > size THEN rest[size + 1] ELSE Absent]

Page(selected, token, size) ==
    LET rest == Ascending({k \in selected : k >= token})
    IN [keys |-> SubSeq(rest, 1, IF size < Len(rest) THEN size ELSE Len(rest)),
        token |-> IF Len(rest) > size THEN rest[size + 1] ELSE Absent]

\* A client takes the page and goes on with its token until there is none.
TakePage(c, selected, page) ==
    call' = [call EXCEPT ![c].at = IF page.token = Absent THEN "done" ELSE "paging",
                         ![c].got = @ \o page.keys,
                         ![c].token = page.token,
                         ![c].stay = IF call[c].at = "paging" THEN @ \cap selected ELSE selected]

ListTenants(c) ==
    /\ plan[c].kind = "list" /\ call[c].at \in {"new", "paging"}
    /\ TakePage(c, tenants, Page(tenants, call[c].token, plan[c].size))
    /\ UNCHANGED tenants

TenancyStep(c) == /\ \/ CreateTenant(c)
                     \/ DeleteTenant(c)
                     \/ TenantFails(c)
                     \/ ListTenants(c)
                  /\ UNCHANGED <<engine, plan>>

-----------------------------------------------------------------------------
\* No row is repeated and none is left out that was there for every page.
Whole(c) ==
    /\ \A i, j \in DOMAIN call[c].got : i < j => call[c].got[i] < call[c].got[j]
    /\ call[c].at = "done" /\ call[c].err = "" => call[c].stay \subseteq ToSet(call[c].got)

\* Deletes and creations of a tenant pair off, with the tenant the migration
\* inserted counted as one creation: of several deletes of one tenant, or
\* creations in PostgreSQL, only one is told that it was the one.
TenantsBalanced ==
    \A id \in {plan[c].id : c \in Callers} :
        LET told(kind, errs) == Cardinality({c \in Callers : /\ plan[c].kind = kind /\ plan[c].id = id
                                                            /\ call[c].at = "done" /\ call[c].err \in errs})
            lost == {"", "ERROR_CODE_EXECUTION"}
            present == IF id \in tenants THEN 1 ELSE 0
            migrated == IF id \in Migrated THEN 1 ELSE 0
        IN /\ told("deleteTenant", {""}) + present <= told("create", lost) + migrated
           /\ engine = "postgres" =>
                told("create", {""}) + migrated <= told("deleteTenant", lost) + present
=============================================================================
