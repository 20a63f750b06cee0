SPECIFICATION LiveSpec
CONSTANTS
    r1 = r1
    r2 = r2
    s1 = s1
    Requests = {r1}
    Streams = {s1}
    Operations = {"revise", "approve", "cancel", "accept", "build"}
    Overlap = TRUE
    Local = TRUE
    MaxRequests = 3
    MaxCrashes = 1
CHECK_DEADLOCK FALSE
INVARIANTS
    StreamDeliversLog
    StreamEndsInformed
PROPERTIES
    StreamCatchesUp
