CONSTANTS
    Callers = {"c1", "c2", "c3", "c4"}
    Plans <- MCPlans
    Engines = {"postgres", "memory"}
    Rank <- MCRank
    ParseText <- Parse
    CompilesText <- Compiles
    DefinitionOf <- EntityString
    SchemaOf <- Compile
    FromDefinitions <- NewSchemaFromStringDefinitions
    ActionsFor <- LookupActions
    MaxLeaves = 4
SPECIFICATION Spec
INVARIANTS Readable MeansWritten LookupSound PostgresHeadFresh
CHECK_DEADLOCK FALSE
