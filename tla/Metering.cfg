SPECIFICATION LiveSpec
CONSTANTS
    q = q
    s = s
    r = r
    h = h
    w = w
    v = v
    Jobs = {q}
    Queued = {q}
    Handlers = {}
    Sweeps = {w, v}
    FreeLimit = 1
    PlanLimit = 1
    Retries = 1
    MaxPeriods = 0
    MaxEvents = 0
    MaxAccidents = 1
CHECK_DEADLOCK FALSE
INVARIANTS
    CompletedIsCharged
    ChargedOncePerRun
    MarkedIsInvoiced
    InvoicedOnce
    BillingIInv
PROPERTIES
    EveryChargeInvoiced
    QueuedJobEnds
