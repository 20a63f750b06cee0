SPECIFICATION RSpec
CONSTANTS
    r1 = r1
    r2 = r2
    Requests = {r1, r2}
    Streams = {}
    Operations = {"revise", "approve", "reject", "accept", "cancel", "build", "rebuild", "get"}
    Overlap = TRUE
    Local = FALSE
    MaxRequests = 5
    MaxCrashes = 1
SYMMETRY Symmetry
CHECK_DEADLOCK FALSE
INVARIANTS
    RaceIInv
    PendingIsCurrent
    BuiltByTheKernel
    BuildingCanEnd
    ChargedOnceAsShown
PROPERTIES
    BuiltStaysBuilt
    ImplementsLifecycle
