CONSTANTS
    t1 = t1
    t2 = t2
    t3 = t3
    u1 = u1
    c1 = c1
    Topic <- Topics3
    User <- Users1
    Chan <- Chans1
    NumSlots = 2
    TopicsOf <- TopicsBySlot
    SkipTopic <- Skipped
    Pages <- PageCount
    StartStep = "message"
    MaxFails = 3
    MaxCrashes = 2
SPECIFICATION Spec
INVARIANTS
    TypeOK
    StepsComplete
PROPERTIES
    EventuallyDone
