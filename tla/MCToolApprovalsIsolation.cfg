SPECIFICATION Spec
CONSTANTS
    a = a
    b = b
    d = d
    f = f
    Sessions = {s1, s2}
    Turns = {t1, t2, t3}
    Calls = {a, f}
    Tool <- MCTool
    Input <- MCInput
    Guarded = {"shell"}
    Denied = {"wipe"}
    Flagged = {a}
    MaxBatch = 2
    MaxRequests = 3
    NoSession = NoSession
    NoQueue = NoQueue
    NoAgent = NoAgent

INVARIANTS SessionIsolation
CHECK_DEADLOCK FALSE
