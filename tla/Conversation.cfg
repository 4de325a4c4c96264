CONSTANTS
    ch1 = ch1
    ch2 = ch2
    c1 = c1
    c2 = c2
    Channel <- Channels2
    MaxId = 4
    MaxTime = 3
    MaxCalls = 5
    Caller <- OneCaller
    DistinctInput = TRUE
    CommitMayFail = FALSE
    NowMayAdvance = TRUE
SPECIFICATION Spec
CHECK_DEADLOCK FALSE
INVARIANTS
    TypeOK
    CountMatches
    ChannelIndexMatchesRows
    ReadsReturnEveryRow
