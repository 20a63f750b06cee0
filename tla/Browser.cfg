SPECIFICATION Spec
CONSTANTS
    A = A
    B = B
    Sessions = {A, B}
    Left = {A}
    MaxActs = 3
CHECK_DEADLOCK FALSE
INVARIANTS
    StoreTypeOK
    TimelineIsTheLog
    AgreesWhenQuiet
    StoreIInv
PROPERTIES
    BuildIsSeen
