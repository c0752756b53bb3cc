SPECIFICATION FairSpec
CONSTANTS
    Insts = {i1, i2, i3}
    Reloads = {r1, r2}
    Clients = {c1}
    None = None
INVARIANTS TypeOK ReusableLive
PROPERTIES ImplementsAgentService ReloadEnds ReplacedStops
CHECK_DEADLOCK FALSE
