SPECIFICATION Spec
CONSTANTS
    u1 = u1
    u2 = u2
    r1 = r1
    o1 = o1
    o2 = o2
    w1 = w1
    w2 = w2
    w3 = w3
    c1 = c1
    c2 = c2
    c3 = c3
    Request = {c1}
    World = {w3}
    Entity <- MCEntity
    User <- MCUser
    Name <- MCName
    Tuples <- MCTuples
    Kind <- MCKind
    Node <- NotOwnerNode
    NodeDef <- MCNodeDef
    Root <- MCRoot
    Requester <- MCRequester
    Asks <- EditAsks
    Limit = 2
    Flaky = {}
    Volatile = {}
    Impatient = {}
    Granted <- MCGranted
    Satisfied <- MCSatisfied
INVARIANTS AnswersSound
CHECK_DEADLOCK FALSE
