SPECIFICATION Spec
CONSTANTS
    a1 = a1
    t1 = t1
    m1 = m1
    Steps = {t1, m1}
    AgentSteps = {}
    ToolSteps = {t1}
    GatedSteps = {}
    PlanGated = FALSE
    MaxEdits = 0
    NoStep = NoStep
CHECK_DEADLOCK FALSE
INVARIANTS
    AllDone
