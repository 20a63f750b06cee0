SPECIFICATION LiveSpec
CONSTANTS
    r1 = r1
    r2 = r2
    s1 = s1
    Requests = {r1, r2}
    Streams = {s1}
    Operations = {"approve", "build", "revise"}
    Overlap = TRUE
    Local = FALSE
    MaxRequests = 3
    MaxCrashes = 0
CHECK_DEADLOCK FALSE
PROPERTIES
    BuildingIsLeft
