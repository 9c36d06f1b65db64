SPECIFICATION MCSpec
CONSTANTS
    Parts = {"filters"}
    Policies = {p, q}
    Filters = {f, g}
    Cluster = {c1}
    ClusterSpecs = {p, q}
    Referrers = {named, silent}
    Names <- MCNames
    c1 = c1
    named = named
    silent = silent
    TTL = 1
    BuildTime = 1
    MaxGenerations = 2
    MaxTime = 3
    NONE = NONE
INVARIANT
    PolicyServed
SYMMETRY Contents
