CONSTANTS
    Parts = {"placement", "shared", "tls"}
    n1 = n1  n2 = n2  d1 = d1  d2 = d2
    l1 = l1  l2 = l2  t1 = t1  c1 = c1  c2 = c2  s1 = s1  s2 = s2
    p1 = p1  a1 = a1  a2 = a2  x = x  e = e
    STAR = STAR  NONE = NONE
    VS = {v1, v2}
    Node = {n1, n2}
    Domain = {d1, d2}
    Listener = {l1, l2}
    Template = {t1}
    Cluster = {c1, c2}
    Secret = {s1, s2}
    Part = {p1}
    Addr = {a1, a2}
    Content = {x, e}
    Eds = {e}
    VSSpecs <- MCVSSpecs
    ListenerSpecs <- MCListenerSpecs
    InitStores <- MCInitStores
    MaxVersion = 2

SYMMETRY Symmetry

SPECIFICATION MCSpec

INVARIANTS
    ServedWithoutClash
    ServedSnapshotsCoherent
    AccurateAfterSuccess
    WebhooksSeeServed
    StatusTellsFailure

PROPERTY
    ChangeRaisesVersion

CHECK_DEADLOCK FALSE
