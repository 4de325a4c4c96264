\* Two replicas and a learner: every proposal is eventually committed, and
\* the learner is eventually asked to become a follower.
CONSTANTS
    f1 = f1
    f2 = f2
    f3 = f3
    f4 = f4
    Follower <- TwoReplicas
    MaxIndex = 2
    UintWidth = 16
    AckModeNone = FALSE
    l1 = l1
    Learner <- OneLearner
    LearnerToFollowerMinLogGap = 1
    AutoRoleSwitch = TRUE
    MigrateFromLeader = FALSE
SPECIFICATION FairSpec
INVARIANT TypeOK
PROPERTIES
    EveryLogCommitted
    LearnerEventuallySwitched
