SPECIFICATION FairSpec
CONSTANTS
    Keys = {k1, k2}
    QObjs = {q1, q2, q3}
    Msgs = {m1, m2, m3}
    MaxSize = 1
    IdleKeys = {k1}
    SwallowsCancel = TRUE
    NoQueue = NoQueue
    NoKey = NoKey
CHECK_DEADLOCK FALSE
INVARIANTS
    TypeOK
    RegisteredConsumerLive
PROPERTIES
    ImplementsMailbox
    QueuedIsTaken
    StopTerminates
