SPECIFICATION FairSpec
CONSTANTS
    a = a
    b = b
    c = c
    d = d
    e = e
    f = f
    Steps = {a, b, c, d, e, f}
    DependsOn <- MCDependsOn
    MaxConcurrency = 2
CHECK_DEADLOCK FALSE
INVARIANTS
    TypeOK
    DoneMeansDone
    MonitorAgrees
    EntryTruthful
PROPERTIES
    ImplementsContract
