SPECIFICATION MCSpec
CONSTANTS
    Parts = {"reconcilers", "files", "certificate"}
    Object <- MCObject
    KindMaps <- MCKindMaps
    Refs <- MCRefs
    Specs <- MCSpecs
    InitObjects <- MCInitObjects
    MaxChanges = 2
    MaxFaults = 1
    NONE = NONE
    StaticFiles <- MCStaticFiles
    AccessFiles <- MCAccessFiles
    MaxWrites = 2
    NoModel = NoModel
    NoPolicy = NoPolicy
    Torn = Torn
    Absent = Absent
    Replica = {a, b}
    MaxCertFaults = 1
    MaxTime = 2
    InitThreshold = 2
    InitValidity = 3
    Threshold = 1
    Validity = 2
INVARIANTS
    QuiescentAgreement
    TrustedAtRest
    NeverExpires
PROPERTIES
    StatusMatchesSpec
    Converges
    ReloadSettles
    CertificateSettles
CHECK_DEADLOCK FALSE
