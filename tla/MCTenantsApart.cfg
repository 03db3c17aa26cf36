CONSTANTS
    Callers = {"c1", "c2", "c3", "c4"}
    Plans <- MCPlans
    Engines = {"postgres", "memory"}
    DefaultTenant = 1
    Tenants <- MCTenants
    Schemas <- MCSchemas
SPECIFICATION Spec
INVARIANT TenantsApart
CHECK_DEADLOCK FALSE
