------------------------------ MODULE MCCaches ------------------------------
(* The two caches of the builders, each in behaviours of its own: "part"   *)
(* says which one a behaviour is about.  There is one cluster; one content *)
(* of the tracing names it, the other does not.                            *)
EXTENDS FilterCaching, ClusterCaching, FiniteSets, TLC

CONSTANTS
    Parts,      \* what the run is about: "filters", "clusters"
    c1, named, silent

VARIABLE part

MCNames == [r \in {named, silent} |-> IF r = named THEN {c1} ELSE {}]

MCInit ==
    /\ part \in Parts
    /\ FilterInit
    /\ part # "filters" => filterStore = [policy |-> NONE, filter |-> NONE]
    /\ ClusterInit
    /\ part # "clusters" => clusterStore.content = silent

MCNext ==
    \/ /\ part = "filters"
       /\ FilterNext
       /\ UNCHANGED <<part, clusterVars>>
    \/ /\ part = "clusters"
       /\ ClusterNext
       /\ UNCHANGED <<part, filterVars>>

MCSpec == MCInit /\ [][MCNext]_<<part, filterVars, clusterVars>>

(* One entry of the clusters' cache at a time: those of different keys do  *)
(* not affect one another.                                                 *)
Bounded == Cardinality(DOMAIN clusterCache) <= 1

(* Contents and specs are only compared, so they may be exchanged for one  *)
(* another.                                                                *)
Contents == Permutations(Policies) \cup Permutations(Filters)

=============================================================================
