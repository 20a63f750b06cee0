SPECIFICATION Spec
CONSTANTS
    r1 = r1
    r2 = r2
    s1 = s1
    Requests = {r1, r2}
    Streams = {}
    Operations = {"revise", "approve", "build", "get"}
    Overlap = FALSE
    Local = FALSE
    MaxRequests = 6
    MaxCrashes = 0
SYMMETRY Symmetry
CHECK_DEADLOCK FALSE
INVARIANTS
    BuiltHasGeometry
