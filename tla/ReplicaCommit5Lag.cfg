\* Five replicas, two proposals: the leader's commit search skips the
\* candidate of a follower one entry behind the highest one, and leaves an
\* index a quorum holds uncommitted.
CONSTANTS
    f1 = f1
    f2 = f2
    f3 = f3
    f4 = f4
    l1 = l1
    Follower <- FiveReplicas
    MaxIndex = 2
    UintWidth = 16
    AckModeNone = FALSE
    Learner <- NoLearner
    LearnerToFollowerMinLogGap = 1
    AutoRoleSwitch = FALSE
    MigrateFromLeader = FALSE
SPECIFICATION Spec
PROPERTY CommitNotBehind
SYMMETRY FollowerSymmetry
