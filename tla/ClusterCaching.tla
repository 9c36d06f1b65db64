--------------------------- MODULE ClusterCaching ---------------------------
(***************************************************************************)
(* The global cache of clusters: the clusters that a tracing configuration *)
(* or an OAuth2 filter names.  The key is made from the content that names *)
(* them and the generation of each one that is stored.  Kubernetes raises  *)
(* the generation with every change of a cluster's spec and starts from 1  *)
(* again for a cluster that is created anew, so a key can return.          *)
(***************************************************************************)
EXTENDS CacheTimes

CONSTANTS
    Cluster,
    ClusterSpecs,
    Referrers,       \* contents of the Tracing or of the OAuth2 filter
    Names,           \* the clusters that a content names
    MaxGenerations   \* bound: generations and creations of a cluster

ASSUME WritesAssumption == MaxGenerations \in Nat
ASSUME NamesAssumption == Names \in [Referrers -> SUBSET Cluster]

VARIABLES
    api,           \* the clusters in Kubernetes
    created,       \* how often each cluster was created
    clusterStore,  \* the clusters in the updater's store, and the content
    clusterCache, clusterRun, clustersServed, clusterOutcome,
    replaced,      \* history: when the store last lost one of a cluster's lives
    clusterClock

clusterVars == <<api, created, clusterStore, clusterCache, clusterRun, clustersServed,
                 clusterOutcome, replaced, clusterClock>>

Object == [spec : ClusterSpecs, generation : 1 .. MaxGenerations, uid : 1 .. MaxGenerations]

ASSUME ClustersAssumption ==
    /\ NONE \notin Object \cup Nat
    /\ \A r \in Referrers : NONE \notin [Names[r] -> ClusterSpecs]

ClusterBuilds == INSTANCE CachedBuilds
    WITH store <- clusterStore, cache <- clusterCache, run <- clusterRun,
         served <- clustersServed, outcome <- clusterOutcome, now <- clusterClock

ClusterInit ==
    /\ api = [c \in Cluster |-> NONE]
    /\ created = [c \in Cluster |-> 0]
    /\ \E r \in Referrers : clusterStore = [clusters |-> api, content |-> r]
    /\ replaced = [c \in Cluster |-> NONE]
    /\ ClusterBuilds!Init

-----------------------------------------------------------------------------
Stored(view) == {c \in Names[view.content] : view.clusters[c] # NONE}

(* Faulty variant: the generations are not in the key.                     *)
NoGenerations(view) == [c \in {} |-> 0]

WriteClusterGenerations(view) ==
    [c \in Stored(view) |-> view.clusters[c].generation]

ClusterKey(view) == <<view.content, WriteClusterGenerations(view)>>

GetClustersByNames(view) ==
    IF Stored(view) # Names[view.content] THEN NONE
    ELSE [c \in Names[view.content] |-> view.clusters[c].spec]

ClusterLookUp(b) ==
    /\ ClusterBuilds!LookUp(b, ClusterKey(clusterRun[b].view))
    /\ UNCHANGED <<api, created, replaced>>

ClusterBuild(b) ==
    /\ ClusterBuilds!Build(b, ClusterKey(clusterRun[b].view),
                           GetClustersByNames(clusterRun[b].view))
    /\ UNCHANGED <<api, created, replaced>>

-----------------------------------------------------------------------------
CreateCluster(c, s) ==
    /\ api[c] = NONE
    /\ created[c] < MaxGenerations
    /\ created' = [created EXCEPT ![c] = @ + 1]
    /\ api' = [api EXCEPT ![c] = [spec |-> s, generation |-> 1, uid |-> created[c] + 1]]
    /\ UNCHANGED <<clusterStore, clusterCache, clusterRun, clustersServed, clusterOutcome,
                   replaced, clusterClock>>

UpdateCluster(c, s) ==
    /\ api[c] # NONE
    /\ api[c].spec # s
    /\ api[c].generation < MaxGenerations
    /\ api' = [api EXCEPT ![c] = [spec |-> s, generation |-> api[c].generation + 1,
                                  uid |-> api[c].uid]]
    /\ UNCHANGED <<created, clusterStore, clusterCache, clusterRun, clustersServed,
                   clusterOutcome, replaced, clusterClock>>

RemoveCluster(c) ==
    /\ api[c] # NONE
    /\ api' = [api EXCEPT ![c] = NONE]
    /\ UNCHANGED <<created, clusterStore, clusterCache, clusterRun, clustersServed,
                   clusterOutcome, replaced, clusterClock>>

(* An equal spec is skipped, whatever its generation and UID.              *)
IsEqual(x, y) == IF NONE \in {x, y} THEN x = y ELSE x.spec = y.spec

ReconcileCluster(c) ==
    LET old == clusterStore.clusters[c]
    IN  /\ ~IsEqual(old, api[c])
        /\ ClusterBuilds!Change([clusters |-> [clusterStore.clusters EXCEPT ![c] = api[c]],
                                 content  |-> clusterStore.content])
        /\ replaced' =
             IF old # NONE /\ (api[c] = NONE \/ old.uid # api[c].uid)
             THEN [replaced EXCEPT ![c] = clusterClock]
             ELSE replaced
        /\ UNCHANGED <<api, created>>

ChangeContent(r) ==
    /\ clusterStore.content # r
    /\ ClusterBuilds!Change([clusters |-> clusterStore.clusters, content |-> r])
    /\ UNCHANGED <<api, created, replaced>>

ClusterNext ==
    \/ \E b \in ClusterBuilds!Builder : ClusterLookUp(b) \/ ClusterBuild(b)
    \/ \E c \in Cluster :
          \/ \E s \in ClusterSpecs : CreateCluster(c, s) \/ UpdateCluster(c, s)
          \/ RemoveCluster(c)
          \/ ReconcileCluster(c)
    \/ \E r \in Referrers : ChangeContent(r)
    \/ ClusterBuilds!DryBuild /\ UNCHANGED <<api, created, replaced>>
    \/ ClusterBuilds!Evict /\ UNCHANGED <<api, created, replaced>>
    \/ ClusterBuilds!Tick /\ UNCHANGED <<api, created, replaced>>

ClusterSpec == ClusterInit /\ [][ClusterNext]_clusterVars

-----------------------------------------------------------------------------
(* After a rebuild that succeeded, exactly the clusters that the stored    *)
(* content names were found, whatever the cache still has.                 *)
NamedClustersServed ==
    ClusterBuilds!Built => DOMAIN clustersServed.result = Names[clusterStore.content]

(* A rebuild finds an earlier spec of a cluster only when the cluster was  *)
(* deleted and created anew, and no later than the time to live and the    *)
(* length of one build after the store lost its former life.               *)
GenerationsTellSpecs ==
    ClusterBuilds!Built => \A c \in DOMAIN clustersServed.result :
        \/ /\ clusterStore.clusters[c] # NONE
           /\ clustersServed.result[c] = clusterStore.clusters[c].spec
        \/ /\ replaced[c] # NONE
           /\ clustersServed.at <= replaced[c] + TTL + BuildTime

(* A rebuild finds the clusters that are named, and of one that was        *)
(* created anew a former spec for a while only (generateTracingRefCacheKey,*)
(* writeClusterGenerations).                                               *)
ClustersCurrent == NamedClustersServed /\ GenerationsTellSpecs

=============================================================================
