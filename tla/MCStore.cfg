SPECIFICATION MCSpec
CONSTANTS
    Subjects = {"indices", "copies", "templates", "building", "management"}
    NONE = NONE
    Service = {service}
    Name = {p, q}
    Inc = {p, q}
    Template = {p, q}
    SpecName = {p, q}
    VSName = {v1, v2}
    Rev = {r1, r2}
    KindUID = {u1, u2}
    Node = {n1}
    Domain = {d1, d2}
    MaxRef = 4
    tns = tns  other = other  l1 = l1  a1 = a1  a2 = a2  r1 = r1
    env = env  tier = tier  envMark = envMark  tierMark = tierMark
    dev = dev  prod = prod  quoted = quoted  x1 = x1  y1 = y1
    EMPTY = EMPTY
    NOVALUE = NOVALUE
    TemplateNs = tns
    Tracings = {"zipkin"}
    Breaking = {quoted}
    ObjUid <- MCObjUid
    ObjKey <- MCObjKey
    Mark <- MCMark
    TemplateSpecs <- MCTemplateSpecs
    OwnSpecs <- MCOwnSpecs
    Requests <- MCRequests
    MaxDepth = 8
    Inputs <- MCInputs
    service = service  template1 = template1  lst = lst  denied = denied  r2 = r2
    n1 = n1  n2 = n2  h1 = h1  badHost = badHost  opt = opt  remote = remote
    Client = {p, q}
    Creations <- MCCreations
    Updates <- MCUpdates
    Foreign <- MCForeign
    Resource <- MCResource
    Allowed <- MCAllowed
    Unbuildable = {badHost}
    MaxRequests = 2
    MaxChanges = 2
SYMMETRY Symmetry
VIEW MCView
CONSTRAINT OneAtATime
CHECK_DEADLOCK FALSE
INVARIANTS
    IndicesExact
    SharedSafely
    IndicesAgree
    
    TemplateFits
    RootAnswersLast
    DomainGetsItsSecret
    
PROPERTIES
    CopyIsolated
    UpdatesKeep
    
