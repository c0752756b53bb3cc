SPECIFICATION Spec
CONSTANTS
    Keys = {k1}
    QObjs = {q1, q2, q3}
    Msgs = {m1, m2, m3}
    MaxSize = 1
    IdleKeys = {k1}
    SwallowsCancel = FALSE
    NoQueue = NoQueue
    NoKey = NoKey
CHECK_DEADLOCK FALSE
INVARIANTS
    StrictSerialization
