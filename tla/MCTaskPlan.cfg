SPECIFICATION FairSpec
CONSTANTS
    a1 = a1
    t1 = t1
    m1 = m1
    Steps = {a1, t1, m1}
    AgentSteps = {a1}
    ToolSteps = {t1}
    GatedSteps = {a1, t1}
    PlanGated = TRUE
    MaxEdits = 1
    NoStep = NoStep
CHECK_DEADLOCK FALSE
INVARIANTS
    TypeOK
    RiskGate
    StatusesTruthful
PROPERTIES
    CancelledNotResumed
    ImplementsGatedPlan
    PlanProgresses
    CancelCompletes
