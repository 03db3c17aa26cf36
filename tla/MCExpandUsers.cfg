CONSTANTS
    Entity <- MCEntity
    TypeOf <- MCTypeOf
    Schema <- MCSchema
    Children <- MCChildren
    Tree <- MCTree
    Worlds <- MCWorlds
    Requests <- MCRequests
    Engines = {"postgres", "memory"}
    Flaky = {}
    MaxPath = 6
SPECIFICATION Spec
INVARIANT AllSubjects
CHECK_DEADLOCK FALSE
