\* One user handler on a two-node cluster: one device connected through
\* the other node, receive messages queued, one role change.  hasReady and
\* ready() agree; every received message is delivered unless the handler is
\* closed; a silent proxy node is dropped.
CONSTANTS
    s1 = s1
    n2 = n2
    d1 = d1
    d2 = d2
    none = none
    Node <- Nodes2
    Self = s1
    NoNode = none
    DeviceId <- Devices1
    ConnNode <- ProxyConnNodes
    ProcessIntervalTick = 1
    CheckLeaderIntervalTick = 3
    NodePingTick = 2
    NodePongTimeoutTick = 2
    MaxQueued = 1
    MaxRoleChanges = 1
    MaxInFlight = 5
    ClientQueue <- RecvOnly
SPECIFICATION FairSpec
INVARIANTS
    TypeOK
    ReadyMakesProgress
PROPERTIES
    RecvDelivered
    SilentProxyDropped
