CONSTANTS
    n1 = n1
    n2 = n2
    n3 = n3
    None = None
    Node <- Nodes3
    MaxTerm = 1
    MaxLogLen = 1
    UintWidth = 16
    SyncRetry = TRUE
    AckModeNone = FALSE
SPECIFICATION Spec
CONSTRAINT NetworkBound
SYMMETRY NodeSymmetry
INVARIANT NoPanic
CHECK_DEADLOCK FALSE
