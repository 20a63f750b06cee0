SPECIFICATION Spec
CONSTANTS
    r1 = r1
    r2 = r2
    s1 = s1
    Requests = {r1, r2}
    Streams = {}
    Operations = {"revise", "approve", "reject", "accept", "cancel", "build", "rebuild", "get"}
    Overlap = TRUE
    Local = FALSE
    MaxRequests = 5
    MaxCrashes = 0
SYMMETRY Symmetry
CHECK_DEADLOCK FALSE
INVARIANTS
    SessionIInv
    TypeOK
    EventLogGapFree
    BuiltOnlyIfApproved
    ResultIsOwn
PROPERTIES
    ImplementsRecord
