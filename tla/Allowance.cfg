SPECIFICATION Spec
CONSTANTS
    q = q
    s = s
    r = r
    h = h
    w = w
    v = v
    Jobs = {s, r}
    Queued = {}
    Handlers = {h}
    Sweeps = {}
    FreeLimit = 1
    PlanLimit = 1
    Retries = 0
    MaxPeriods = 1
    MaxEvents = 4
    MaxAccidents = 0
SYMMETRY Symmetry
CHECK_DEADLOCK FALSE
INVARIANTS
    BillingTypeOK
    MirrorsStripe
    CounterIsExact
    OvershootIsExcused
    ChargeHasItsHistory
