CONSTANTS
    Entity <- MCEntity
    TypeOf <- MCTypeOf
    Schema <- MCSchema
    Children <- MCChildren
    Tree <- MCTree
    Worlds <- MCWorlds
    Requests <- MCRequests
    Engines = {"postgres", "memory"}
    Flaky = {"o1", "r"}
    MaxPath = 6
SPECIFICATION Spec
INVARIANTS TypeOK CancelHonest InOrder
PROPERTIES Returns Drains
CHECK_DEADLOCK FALSE
