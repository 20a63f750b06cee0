SPECIFICATION LiveSpec
CONSTANTS
    r1 = r1
    r2 = r2
    s1 = s1
    Requests = {r1}
    Streams = {s1}
    Operations = {"revise", "approve", "cancel", "build"}
    Overlap = FALSE
    Local = TRUE
    MaxRequests = 3
    MaxCrashes = 2
CHECK_DEADLOCK FALSE
PROPERTIES
    BuildingIsLeft
