SPECIFICATION FairSpec
CONSTANTS
    Calls = {c1, c2}
    FallbackCalls = {c1}
    MaxConcurrent = 1
    MaxQpm = 2
    Window = 1
    Pauses = {1, 2}
    Jitters = {0, 1}
    Attempts = 2
    BackoffBase = 1
    BackoffCap = 1
INVARIANTS TypeOK RetryAfterRespected
PROPERTIES ImplementsCallQuota CallsEnd
CHECK_DEADLOCK FALSE
