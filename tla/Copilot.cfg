SPECIFICATION Spec
CONSTANTS
    t1 = t1
    t2 = t2
    a = a
    n1 = n1
    Turns = {t1, t2}
    Existing = {a}
    Created = {n1}
    Failures = {"good"}
    Gui = TRUE
    Pillars <- Routes
    MaxTools <- Limits
CONSTRAINT FewTasks
INVARIANTS
    AgentTypeOK
    RollbackLeavesNothing
    CommitsOnlyWhatItKnows
    NothingLeftOpen
    AgentIInv
    TurnIInv
CHECK_DEADLOCK FALSE
