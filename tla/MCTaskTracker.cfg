SPECIFICATION FairSpec
CONSTANTS
    Keys = {k1}
    Runs = {r1, r2}
    Subs = {s1, s2}
    BufCap = 1
    MaxEvents = 2
    NoRun = NoRun
    NoKey = NoKey
    Sentinel = Sentinel
CHECK_DEADLOCK FALSE
INVARIANTS
    TypeOK
    NoStrandedSubscriber
    GapFreeStream
PROPERTIES
    ImplementsRunRegistry
    IdleRunIsCancelled
    CancelReleasesSubscribers
