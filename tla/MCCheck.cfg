SPECIFICATION FairSpec
CONSTANTS
    u1 = u1
    u2 = u2
    r1 = r1
    o1 = o1
    o2 = o2
    w1 = w1
    w2 = w2
    w3 = w3
    c1 = c1
    c2 = c2
    c3 = c3
    Request = {c1, c2, c3}
    World = {w1, w2}
    Entity <- MCEntity
    User <- MCUser
    Name <- MCName
    Tuples <- MCTuples
    Kind <- MCKind
    Node <- MCNode
    NodeDef <- MCNodeDef
    Root <- MCRoot
    Requester <- MCRequester
    Asks <- CheckAsks
    Limit = 2
    Flaky = {o2}
    Volatile = {o1}
    Impatient = {c2}
    Granted <- MCGranted
    Satisfied <- MCSatisfied
INVARIANTS TypeOK AnswersSound DepthHonest NoOrphans CacheSound CancelHonest
PROPERTIES Responds
CHECK_DEADLOCK FALSE
