CONSTANTS
    Callers = {"r1", "r2"}
    Failures = {"ERROR_CODE_EXECUTION"}
    MaxConcurrent = 1
    Tripping = {"QueryRelationships"}
    Ask <- MCAsk
    AuthMethod = "preshared"
    HttpEnabled = TRUE
    MayNotStart = TRUE
SPECIFICATION Spec
INVARIANTS Admitted HandlerSafe CleanStop
PROPERTIES DelegateHeard Stops Answered
CHECK_DEADLOCK FALSE
