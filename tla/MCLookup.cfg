SPECIFICATION FairSpec
CONSTANTS
    e1 = e1
    e2 = e2
    e3 = e3
    e4 = e4
    s1 = s1
    s2 = s2
    v1 = v1
    v2 = v2
    Id <- MCId
    Snap = {s1, s2}
    Version = {v1, v2}
    Listed <- MCListed
    Granted <- MCGranted
    Asks <- MCAsks
    Workers = 2
    Buffer = 1
    Flaky = {"snapshot", "version", "list", e1, e4}
    Fragile = TRUE
INVARIANTS TypeOK ReceivedSound Complete
PROPERTIES StreamReturns ReturnsUnlessFailed Released
CHECK_DEADLOCK FALSE
