CONSTANTS
    Hosts = {h1, h2, h3}
    Macs = {m1, m2}
    None = None
    TableSize = 2
    QueueLen = 2
    PoolSize = 4
    MaxAge = 3
    Rerequest = 1
    MaxPending = 2
    MaxPackets = 3
    MaxChecks = 1
    FollowRaced = FALSE
SPECIFICATION FairSpec
INVARIANTS
    OneEntryPerHost
    QueueOnlyWhilePending
    ResolvedIsFresh
    RightHostInOrder
    QueuePoolConserved
PROPERTY
    NoPacketWaits
