\* Two callers add and delete the same two channels: both may create a row
\* for one new channel.
CONSTANTS
    ch1 = ch1
    ch2 = ch2
    c1 = c1
    c2 = c2
    Channel <- Channels2
    MaxId = 3
    MaxTime = 3
    MaxCalls = 4
    Caller <- TwoCallers
    DistinctInput = TRUE
    CommitMayFail = FALSE
    NowMayAdvance = FALSE
SPECIFICATION Spec
CHECK_DEADLOCK FALSE
INVARIANTS
    OneRowPerChannel
