SPECIFICATION MCSpec
CONSTANTS
    Parts = {"lru", "queries", "cache", "streams"}
    NONE = NONE
    Key = {k1, k2, k3}
    Value = {x, y}
    Capacity = 2
    TTL = 1
    Thread = {x, y}
    MaxTime = 2
    StaticFiles <- MCStaticFiles
    AccessFiles <- MCAccessFiles
    MaxWrites = 1
    NoModel = NoModel
    NoPolicy <- MCNoPolicy
    Torn = Torn
    Absent = Absent
    Objects <- MCObjects
    Callers <- MCCallers
    Requests <- MCRequests
    MaxChanges = 1
    n1 = n1
    n2 = n2
    c1 = c1
    c2 = c2
    Node = {n1, n2}
    Client = {c1, c2}
    Configs <- MCConfigs
    CacheRequests <- MCCacheRequests
    Groups <- MCGroups
    ACL <- MCACL
    OverviewTTL = 0
    OverviewTime = 1
    MaxPublish = 2
    NodeId = {n1, n2}
    MaxStreams = 2
SYMMETRY Symmetry
CONSTRAINT Bounded
INVARIANTS
    ListAndMapAgree
    HitsAreFresh
    
    
    PublishedSecretsIntact
    OverviewConsistent
    RegistryFollowsStreams
PROPERTY
    ImplementsTTLCache
CHECK_DEADLOCK FALSE
