CONSTANTS
    n1 = n1
    n2 = n2
    n3 = n3
    None = None
    Node <- Nodes3
    MaxTerm = 2
    MaxLogLen = 1
    UintWidth = 16
    SyncRetry = FALSE
    AckModeNone = FALSE
SPECIFICATION Spec
CONSTRAINT NetworkBound
SYMMETRY NodeSymmetry
INVARIANT CommittedLogsAgree
CHECK_DEADLOCK FALSE
