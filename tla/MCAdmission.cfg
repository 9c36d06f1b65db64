CONSTANTS
    n1 = n1  n2 = n2  d1 = d1  d2 = d2  a1 = a1  x = x
    STAR = STAR  NONE = NONE  MALFORMED = MALFORMED
    VS <- MCVS
    Node = {n1, n2}
    Domain = {d1, d2}
    Listener <- MCListener
    Template <- MCTemplate
    Cluster <- MCCluster
    Secret <- MCSecret
    Part <- MCPart
    Addr = {a1}
    Content <- MCContent
    Eds = {}
    VSSpecs <- MCVSSpecs
    ListenerSpecs = {}
    InitStores <- MCInitStores
    Loads <- MCLoads
    MaxVersion = 9
    Modes = {"heavy", "light", "indices"}
    Changes <- MCChanges
    Listed <- MCListed
    MaxChanges = 2

SPECIFICATION AdmissionSpec
CONSTRAINT Undoubted

INVARIANTS
    AdmittedBuilds
    LightAgreesWithHeavy

CHECK_DEADLOCK FALSE
