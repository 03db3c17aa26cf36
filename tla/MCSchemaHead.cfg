CONSTANTS
    Callers = {"c1", "c2", "c3", "c4"}
    Plans <- HeadPlans
    Engines = {"postgres", "memory"}
    Rank <- MCRank
    ParseText <- Parse
    CompilesText <- Compiles
    DefinitionOf <- EntityString
    SchemaOf <- Compile
    FromDefinitions <- NewSchemaFromStringDefinitions
    ActionsFor <- LookupActions
    MaxLeaves = 4
SPECIFICATION Spec
INVARIANT HeadFresh
CHECK_DEADLOCK FALSE
