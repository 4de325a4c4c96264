\* Five replicas: a follower known only from a Pong (LastSyncIndex 0) is
\* counted as holding every index, because LastSyncIndex-1 wraps.
CONSTANTS
    f1 = f1
    f2 = f2
    f3 = f3
    f4 = f4
    l1 = l1
    Follower <- FiveReplicas
    MaxIndex = 1
    UintWidth = 16
    AckModeNone = FALSE
    Learner <- NoLearner
    LearnerToFollowerMinLogGap = 1
    AutoRoleSwitch = FALSE
    MigrateFromLeader = FALSE
SPECIFICATION Spec
INVARIANT CommitBackedByQuorum
SYMMETRY FollowerSymmetry
