------------------------- MODULE CacheUpdaterProofs ------------------------
(***************************************************************************)
(* Safety of the CacheUpdater for any number of resources and nodes.       *)
(*                                                                         *)
(* The served snapshots are right because of what a build stages, and a    *)
(* build relies on the served snapshots it compares with; so the inductive *)
(* invariant speaks of both, and of the commit phase in between.           *)
(***************************************************************************)
EXTENDS CacheUpdater, FiniteSetTheorems, TLAPS

(* Steps are first-order reasoning unless they name another prover.        *)
USE Zenon

-----------------------------------------------------------------------------
(***************************************************************************)
(* Facts about one build, for every store and any number of                *)
(* VirtualServices, nodes and listeners.                                   *)
(***************************************************************************)

(* The resources of s are those that the mixer has for node n.             *)
HoldsMix(s, st, n, ord) == \A t \in Type : s[t].resources = Mix(st, n, ord)[t]

(* What the four types of the mixer's result are.                          *)
LEMMA MixTypes ==
    ASSUME NEW st, NEW n, NEW ord
    PROVE  /\ Mix(st, n, ord)["Listener"] = ListenersOn(st, n, ord)
           /\ Mix(st, n, ord)["Route"] = RoutesOn(st, n)
           /\ Mix(st, n, ord)["Cluster"] = ClustersOn(st, n)
           /\ Mix(st, n, ord)["Secret"] = SecretsOn(st, n)
BY DEF Mix, Type

(* A VirtualService that is placed on a node is stored and builds, so its  *)
(* listener is known.                                                      *)
LEMMA OnFacts ==
    ASSUME NEW st \in Store, NEW n \in Node, NEW v \in On(st, n)
    PROVE  /\ v \in VS
           /\ st.vs[v] \in VSSpec
           /\ Builds(st, v)
           /\ ListenerOf(st, v) \in Listener
           /\ st.listeners[ListenerOf(st, v)] \in ListenerSpec
<1>1. v \in VS /\ st.vs[v] # NONE /\ Builds(st, v)
  BY DEF On, Specific, Common, Stored
<1>2. st.vs[v] \in VSSpec
  BY <1>1 DEF Store
<1>3. ListenerOf(st, v) # NONE /\ st.listeners[ListenerOf(st, v)] # NONE
  BY <1>1 DEF Builds
<1>4. ListenerOf(st, v) \in Listener
  BY <1>2, <1>3 DEF ListenerOf, Store, VSSpec
<1>5. st.listeners[ListenerOf(st, v)] \in ListenerSpec
  BY <1>3, <1>4 DEF Store
<1> QED BY <1>1, <1>2, <1>4, <1>5

(* A build without a clash gives a node route configurations with disjoint *)
(* domains.                                                                *)
LEMMA MixDisjoint ==
    ASSUME NEW st \in Store, NEW n \in Node, NEW ord, NEW s,
           ~Clash(st, Stored(st)), HoldsMix(s, st, n, ord)
    PROVE  DisjointDomains(s)
<1>1. s["Route"].resources = RoutesOn(st, n)
  BY MixTypes DEF HoldsMix, Type
<1> SUFFICES ASSUME NEW v \in DOMAIN RoutesOn(st, n), NEW w \in DOMAIN RoutesOn(st, n), v # w
             PROVE  RoutesOn(st, n)[v].domains \cap RoutesOn(st, n)[w].domains = {}
  BY <1>1 DEF DisjointDomains
<1>2. v \in On(st, n) /\ w \in On(st, n)
  BY DEF RoutesOn
<1>3. v \in Stored(st) /\ w \in Stored(st)
  BY <1>2 DEF On, Specific, Common
<1>4. st.vs[v].domains \cap st.vs[w].domains = {}
  BY <1>2, <1>3 DEF Clash
<1>5. /\ RoutesOn(st, n)[v].domains = st.vs[v].domains
      /\ RoutesOn(st, n)[w].domains = st.vs[w].domains
  BY DEF RoutesOn
<1> QED BY <1>4, <1>5

(* The types that a node has no entry for are empty in the mixer's result. *)
LEMMA MixOutsideTypes ==
    ASSUME NEW st \in Store, NEW n \in Node, NEW ord, NEW t \in Type \ TypesOn(st, n)
    PROVE  Mix(st, n, ord)[t] = EmptyResources
<1>1. t # "Listener" /\ \A v \in On(st, n) : ~HasRoute(st, v) /\ ClustersOf(st, v) = {}
  BY DEF TypesOn, Type
<1>2. \A v \in On(st, n) : st.vs[v].secrets = {}
  <2> SUFFICES ASSUME NEW v \in On(st, n) PROVE st.vs[v].secrets = {}
    OBVIOUS
  <2>1. KindOf(st, v) = "own" /\ Builds(st, v)
    BY <1>1, OnFacts DEF HasRoute
  <2> QED BY <2>1 DEF Builds, BuildsOnOwnChains
<1>3. RoutesOn(st, n) = EmptyResources
  BY <1>1 DEF RoutesOn, EmptyResources
<1>4. UNION {ClustersOf(st, v) : v \in On(st, n)} = {}
  BY <1>1
<1>5. ClustersOn(st, n) = EmptyResources
  BY <1>4 DEF ClustersOn, EmptyResources
<1>6. UNION {st.vs[v].secrets : v \in On(st, n)} = {}
  BY <1>2
<1>7. SecretsOn(st, n) = EmptyResources
  BY <1>6 DEF SecretsOn, EmptyResources
<1> QED BY <1>1, <1>3, <1>5, <1>7, MixTypes DEF Type

(* Both ways of making a snapshot put the mixer's result into it.          *)
LEMMA SnapshotsHoldMix ==
    ASSUME NEW st \in Store, NEW n \in Node, NEW ord
    PROVE  /\ HoldsMix(NewSnapshot(st, n, ord), st, n, ord)
           /\ \A prev : HoldsMix(UpdateSnapshot(st, n, ord, prev), st, n, ord)
<1>1. \A t \in Type \ TypesOn(st, n) : EmptySnapshot[t].resources = Mix(st, n, ord)[t]
  BY MixOutsideTypes DEF EmptySnapshot
<1>2. HoldsMix(NewSnapshot(st, n, ord), st, n, ord)
  BY <1>1 DEF HoldsMix, NewSnapshot
<1>3. \A prev : HoldsMix(UpdateSnapshot(st, n, ord, prev), st, n, ord)
  BY <1>1 DEF HoldsMix, UpdateSnapshot
<1> QED BY <1>2, <1>3

(* The mixer's resources are maps from names of the right type.            *)
LEMMA MixNames ==
    ASSUME NEW st \in Store, NEW n \in Node, NEW ord, NEW t \in Type
    PROVE  IsMap(Mix(st, n, ord)[t]) /\ DOMAIN Mix(st, n, ord)[t] \subseteq Names(t)
<1>1. IsMap(ListenersOn(st, n, ord)) /\ DOMAIN ListenersOn(st, n, ord) \subseteq Listener
  BY OnFacts DEF ListenersOn, IsMap
<1>2. IsMap(RoutesOn(st, n)) /\ DOMAIN RoutesOn(st, n) \subseteq VS
  BY OnFacts DEF RoutesOn, IsMap
<1>3. \A v \in On(st, n) : ClustersOf(st, v) \subseteq Cluster
  BY OnFacts DEF ClustersOf, VSSpec, ListenerSpec
<1>4. IsMap(ClustersOn(st, n)) /\ DOMAIN ClustersOn(st, n) \subseteq Cluster
  BY <1>3 DEF ClustersOn, IsMap
<1>5. \A v \in On(st, n) : st.vs[v].secrets \subseteq Secret
  BY OnFacts DEF VSSpec
<1>6. IsMap(SecretsOn(st, n)) /\ DOMAIN SecretsOn(st, n) \subseteq Secret
  BY <1>5 DEF SecretsOn, IsMap
<1> QED BY <1>1, <1>2, <1>4, <1>6, MixTypes DEF Names, Type

(* A build never stages anything but snapshots.                            *)
LEMMA SnapshotsTyped ==
    ASSUME NEW st \in Store, NEW n \in Node, NEW ord
    PROVE  /\ IsSnapshot(NewSnapshot(st, n, ord))
           /\ \A prev : IsSnapshot(prev) => IsSnapshot(UpdateSnapshot(st, n, ord, prev))
<1> DEFINE Good(s) == \A t \in Type : IsMap(s[t].resources)
                                      /\ DOMAIN s[t].resources \subseteq Names(t)
<1>1. \A s : HoldsMix(s, st, n, ord) => Good(s)
  BY MixNames DEF HoldsMix
<1>2. Good(NewSnapshot(st, n, ord))
  BY <1>1, SnapshotsHoldMix
<1>3. \A prev : Good(UpdateSnapshot(st, n, ord, prev))
  BY <1>1, SnapshotsHoldMix
<1>4. \A t \in Type : NewSnapshot(st, n, ord)[t].version \in Nat \cup {NONE}
  BY DEF NewSnapshot, EmptySnapshot
<1>5. ASSUME NEW prev, IsSnapshot(prev), NEW t \in Type
      PROVE  UpdateSnapshot(st, n, ord, prev)[t].version \in Nat \cup {NONE}
  <2>1. prev[t].version \in Nat \cup {NONE}
    BY <1>5 DEF IsSnapshot
  <2>2. NextVersion(prev[t].version, ResourcesChanged(st, n, ord, prev, t)) \in Nat
    BY <2>1, SMT DEF NextVersion
  <2> QED BY <2>2 DEF UpdateSnapshot, EmptySnapshot
<1>6. DOMAIN NewSnapshot(st, n, ord) = Type
  BY DEF NewSnapshot
<1>7. \A prev : DOMAIN UpdateSnapshot(st, n, ord, prev) = Type
  BY DEF UpdateSnapshot
<1>8. IsSnapshot(NewSnapshot(st, n, ord))
  BY <1>2, <1>4, <1>6 DEF IsSnapshot
<1> HIDE DEF Good
<1>9. ASSUME NEW prev, IsSnapshot(prev) PROVE IsSnapshot(UpdateSnapshot(st, n, ord, prev))
  BY <1>3, <1>5, <1>7, <1>9 DEF IsSnapshot, Good
<1> QED BY <1>8, <1>9

(* The secrets in the chains of a VirtualService are its secrets.          *)
LEMMA OrderRange ==
    ASSUME NEW st \in Store, NEW n \in Node, NEW ord \in ChainOrders(st), NEW v \in On(st, n)
    PROVE  Range(ord[v]) = st.vs[v].secrets
<1>1. v \in VS /\ st.vs[v] # NONE
  BY DEF On, Specific, Common, Stored
<1> QED BY <1>1 DEF ChainOrders, SecretsOf, Orders

(* The mixer's result is closed under references.                          *)
LEMMA MixCoherent ==
    ASSUME NEW st \in Store, NEW n \in Node, NEW ord \in ChainOrders(st), NEW s,
           HoldsMix(s, st, n, ord)
    PROVE  Coherent(s)
<1> DEFINE V == On(st, n)
           L == ListenersOn(st, n, ord)
<1>1. /\ s["Listener"].resources = L
      /\ s["Route"].resources = RoutesOn(st, n)
      /\ s["Cluster"].resources = ClustersOn(st, n)
      /\ s["Secret"].resources = SecretsOn(st, n)
  BY MixTypes DEF HoldsMix, Type
<1>2. DOMAIN L = {ListenerOf(st, v) : v \in V}
  BY DEF ListenersOn
<1>3. \A l \in DOMAIN L : /\ L[l].spec = st.listeners[l]
                          /\ DOMAIN L[l].chains = {v \in V : ListenerOf(st, v) = l}
                          /\ \A v \in DOMAIN L[l].chains : L[l].chains[v].secrets = ord[v]
  BY DEF ListenersOn, ChainOf
<1>4. DOMAIN RoutesOn(st, n) = {v \in V : HasRoute(st, v)}
  BY DEF RoutesOn
<1>5. \A v \in DOMAIN RoutesOn(st, n) : RoutesOn(st, n)[v].clusters = st.vs[v].clusters
  BY DEF RoutesOn
<1> HIDE DEF L
<1>6. DOMAIN RoutesOn(st, n) = ReferencedRoutes(s)
  <2>1. ASSUME NEW v \in V, HasRoute(st, v) PROVE v \in ReferencedRoutes(s)
    <3>1. ListenerOf(st, v) \in DOMAIN L
      BY <1>2
    <3>2. L[ListenerOf(st, v)].spec.kind # "own"
      BY <1>3, <3>1, <2>1 DEF HasRoute, KindOf
    <3>3. v \in DOMAIN L[ListenerOf(st, v)].chains
      BY <1>3, <3>1
    <3> QED BY <1>1, <3>1, <3>2, <3>3 DEF ReferencedRoutes
  <2>2. ASSUME NEW v \in ReferencedRoutes(s) PROVE v \in V /\ HasRoute(st, v)
    <3>1. PICK l \in DOMAIN L : L[l].spec.kind # "own" /\ v \in DOMAIN L[l].chains
      BY <1>1 DEF ReferencedRoutes
    <3>2. v \in V /\ ListenerOf(st, v) = l /\ st.listeners[l].kind # "own"
      BY <1>3, <3>1, SMT
    <3> QED BY <3>2 DEF HasRoute, KindOf
  <2> QED BY <1>4, <2>1, <2>2
<1>7. DOMAIN ClustersOn(st, n) = ReferencedClusters(s)
  <2>1. DOMAIN ClustersOn(st, n) = UNION {ClustersOf(st, v) : v \in V}
    BY DEF ClustersOn
  <2>2. ASSUME NEW v \in V, NEW c \in ClustersOf(st, v) PROVE c \in ReferencedClusters(s)
    <3>1. CASE HasRoute(st, v)
      <4>1. v \in DOMAIN RoutesOn(st, n) /\ c \in RoutesOn(st, n)[v].clusters
        BY <1>4, <1>5, <2>2, <3>1 DEF ClustersOf
      <4> QED BY <1>1, <4>1 DEF ReferencedClusters
    <3>2. CASE ~HasRoute(st, v)
      <4>1. ListenerOf(st, v) \in DOMAIN L /\ c \in L[ListenerOf(st, v)].spec.clusters
        BY <1>2, <1>3, <2>2, <3>2 DEF ClustersOf
      <4> QED BY <1>1, <4>1 DEF ReferencedClusters
    <3> QED BY <3>1, <3>2
  <2>3. ASSUME NEW c \in ReferencedClusters(s) PROVE \E v \in V : c \in ClustersOf(st, v)
    <3>1. CASE \E l \in DOMAIN L : c \in L[l].spec.clusters
      <4>1. PICK l \in DOMAIN L : c \in L[l].spec.clusters
        BY <3>1
      <4>2. PICK v \in V : l = ListenerOf(st, v)
        BY <1>2
      <4>3. c \in st.listeners[l].clusters
        BY <1>3, <4>1
      <4>4. st.listeners[l].kind = "own"
        BY <4>2, <4>3, OnFacts DEF ListenerSpec
      <4> QED BY <4>2, <4>3, <4>4 DEF ClustersOf, HasRoute, KindOf
    <3>2. CASE \E v \in DOMAIN RoutesOn(st, n) : c \in RoutesOn(st, n)[v].clusters
      BY <1>4, <1>5, <3>2 DEF ClustersOf
    <3> QED BY <1>1, <3>1, <3>2 DEF ReferencedClusters
  <2> QED BY <2>1, <2>2, <2>3
<1>8. DOMAIN SecretsOn(st, n) = ReferencedSecrets(s)
  <2>1. DOMAIN SecretsOn(st, n) = UNION {st.vs[v].secrets : v \in V}
    BY DEF SecretsOn
  <2>2. \A v \in V : Range(ord[v]) = st.vs[v].secrets
    BY OrderRange
  <2>3. ASSUME NEW v \in V, NEW x \in st.vs[v].secrets PROVE x \in ReferencedSecrets(s)
    <3>1. /\ ListenerOf(st, v) \in DOMAIN L
          /\ v \in DOMAIN L[ListenerOf(st, v)].chains
          /\ L[ListenerOf(st, v)].chains[v].secrets = ord[v]
      BY <1>2, <1>3
    <3> QED BY <1>1, <2>2, <3>1, SMT DEF ReferencedSecrets
  <2>4. ASSUME NEW x \in ReferencedSecrets(s) PROVE \E v \in V : x \in st.vs[v].secrets
    <3>1. PICK l \in DOMAIN L : \E v \in DOMAIN L[l].chains : x \in Range(L[l].chains[v].secrets)
      BY <1>1, SMT DEF ReferencedSecrets
    <3> QED BY <1>3, <2>2, <3>1, SMT
  <2> QED BY <2>1, <2>3, <2>4
<1> QED BY <1>1, <1>6, <1>7, <1>8 DEF Coherent

(* Two maps with the same domain and the same entries are equal.           *)
LEMMA MapsEqual ==
    ASSUME NEW f, NEW g, IsMap(f), IsMap(g), DOMAIN f = DOMAIN g,
           \A x \in DOMAIN g : f[x] = g[x]
    PROVE  f = g
BY DEF IsMap

(* Listeners and routes that compare equal to the mixer's result are equal:*)
(* their lists have no repeated names.                                     *)
LEMMA UnchangedType ==
    ASSUME NEW st \in Store, NEW n \in Node, NEW ord, NEW s, IsSnapshot(s),
           NEW t \in {"Listener", "Route"}, ~ResourcesChanged(st, n, ord, s, t)
    PROVE  s[t].resources = Mix(st, n, ord)[t]
<1> DEFINE new == Mix(st, n, ord)[t]
           old == s[t].resources
<1>1. /\ Cardinality(DOMAIN old) = MixLength(st, n, t)
      /\ \A x \in DOMAIN new : x \in DOMAIN old /\ old[x] = new[x]
  BY DEF ResourcesChanged
<1>2. /\ IsMap(old) /\ DOMAIN old \subseteq Names(t)
      /\ IsMap(new) /\ DOMAIN new \subseteq Names(t)
  BY MixNames DEF IsSnapshot, Type
<1>3. IsFiniteSet(Names(t))
  BY FiniteAssumption DEF Names
<1>4. IsFiniteSet(DOMAIN old)
  BY <1>2, <1>3, FS_Subset
<1>5. MixLength(st, n, t) = Cardinality(DOMAIN new)
  <2>1. CASE t = "Listener"
    <3>1. new = ListenersOn(st, n, ord)
      BY <2>1, MixTypes
    <3>2. DOMAIN ListenersOn(st, n, ord) = {ListenerOf(st, v) : v \in On(st, n)}
      BY DEF ListenersOn
    <3> QED BY <2>1, <3>1, <3>2 DEF MixLength
  <2>2. CASE t = "Route"
    <3>1. new = RoutesOn(st, n)
      BY <2>2, MixTypes
    <3>2. DOMAIN RoutesOn(st, n) = {v \in On(st, n) : HasRoute(st, v)}
      BY DEF RoutesOn
    <3> QED BY <2>2, <3>1, <3>2 DEF MixLength
  <2> QED BY <2>1, <2>2
<1> HIDE DEF old, new
<1>6. DOMAIN new \subseteq DOMAIN old
  BY <1>1
<1>7. DOMAIN new = DOMAIN old
  BY <1>1, <1>4, <1>5, <1>6, FS_Subset
<1>8. old = new
  BY <1>1, <1>2, <1>7, MapsEqual
<1> QED BY <1>8 DEF old, new

(* A snapshot that compares equal to the mixer's result, type by type,     *)
(* holds that result.  The comparison of clusters and secrets alone would  *)
(* not show it (a list with repeated names may be as long as a larger set);*)
(* equal listeners and routes, and closed snapshots, do.                   *)
LEMMA UnchangedHoldsMix ==
    ASSUME NEW st \in Store, NEW n \in Node, NEW ord \in ChainOrders(st), NEW s,
           IsSnapshot(s), Coherent(s), ~HasChanges(st, n, ord, s)
    PROVE  HoldsMix(s, st, n, ord)
<1> DEFINE new(t) == Mix(st, n, ord)[t]
           old(t) == s[t].resources
           M == NewSnapshot(st, n, ord)
<1>1. \A t \in TypesOn(st, n) :
        /\ Cardinality(DOMAIN old(t)) = MixLength(st, n, t)
        /\ \A x \in DOMAIN new(t) : x \in DOMAIN old(t) /\ old(t)[x] = new(t)[x]
  BY DEF HasChanges, ResourcesChanged
<1>2. \A t \in Type : IsMap(old(t)) /\ DOMAIN old(t) \subseteq Names(t)
  BY DEF IsSnapshot
<1>3. \A t \in Type : IsMap(new(t)) /\ DOMAIN new(t) \subseteq Names(t)
  BY MixNames
<1>4. HoldsMix(M, st, n, ord)
  BY SnapshotsHoldMix
<1>5. Coherent(M)
  BY <1>4, MixCoherent
<1>6. "Listener" \in TypesOn(st, n) /\ TypesOn(st, n) \subseteq Type
  BY DEF TypesOn, Type
<1>7. old("Listener") = new("Listener")
  BY <1>6, UnchangedType, SMT DEF HasChanges
<1>8. old("Route") = new("Route")
  <2>1. CASE "Route" \in TypesOn(st, n)
    BY <2>1, UnchangedType, SMT DEF HasChanges
  <2>2. CASE "Route" \notin TypesOn(st, n)
    <3>1. new("Route") = EmptyResources
      BY <2>2, MixOutsideTypes DEF Type
    <3>2. M["Listener"].resources = s["Listener"].resources
      BY <1>4, <1>7 DEF HoldsMix, Type
    <3>3. DOMAIN old("Route") = ReferencedRoutes(M)
      BY <3>2 DEF Coherent, ReferencedRoutes
    <3>4. ReferencedRoutes(M) = DOMAIN new("Route")
      BY <1>4, <1>5 DEF Coherent, HoldsMix, Type
    <3> QED BY <1>2, <3>1, <3>3, <3>4 DEF IsMap, EmptyResources, Type
  <2> QED BY <2>1, <2>2
<1>9. /\ M["Listener"].resources = s["Listener"].resources
      /\ M["Route"].resources = s["Route"].resources
  BY <1>4, <1>7, <1>8 DEF HoldsMix, Type
<1>10. ASSUME NEW t \in {"Cluster", "Secret"} PROVE old(t) = new(t)
  <2>1. DOMAIN old(t) = DOMAIN new(t)
    <3>1. /\ DOMAIN s["Cluster"].resources = DOMAIN M["Cluster"].resources
          /\ DOMAIN s["Secret"].resources = DOMAIN M["Secret"].resources
      <4>1. ReferencedClusters(s) = ReferencedClusters(M) /\ ReferencedSecrets(s) = ReferencedSecrets(M)
        BY <1>9, SMT DEF ReferencedClusters, ReferencedSecrets
      <4> QED BY <1>5, <4>1 DEF Coherent
    <3> QED BY <1>4, <1>10, <3>1 DEF HoldsMix, Type
  <2>2. CASE t \in TypesOn(st, n)
    <3>1. \A x \in DOMAIN new(t) : old(t)[x] = new(t)[x]
      BY <1>1, <2>2
    <3>2. IsMap(old(t)) /\ IsMap(new(t))
      BY <1>2, <1>3, <1>6, <2>2
    <3> HIDE DEF old, new
    <3> QED BY <2>1, <3>1, <3>2, MapsEqual
  <2>3. CASE t \notin TypesOn(st, n)
    <3>1. new(t) = EmptyResources
      BY <1>10, <2>3, MixOutsideTypes DEF Type
    <3> QED BY <1>2, <1>10, <2>1, <3>1 DEF IsMap, EmptyResources, Type
  <2> QED BY <2>2, <2>3
<1> QED BY <1>7, <1>8, <1>10 DEF HoldsMix, Type

-----------------------------------------------------------------------------
(* The updater.                                                            *)

(* What is staged and not yet set is the result of a build of the current  *)
(* store, and nodes to be emptied are not among the active ones.           *)
StagedFromStore ==
    mx = "commit" =>
        /\ ~Clash(store, Stored(store))
        /\ cleanup \cap ActiveNodes(store) = {}
        /\ DOMAIN staged \subseteq ActiveNodes(store)
        /\ \A n \in DOMAIN staged :
            \E ord \in ChainOrders(store) : HoldsMix(staged[n], store, n, ord)

(* While no SetSnapshot has failed, the nodes that the commit is done with *)
(* are in sync, and known nodes have a snapshot.                           *)
CommittedInSync ==
    (mx = "commit" /\ ~failed) =>
        \A n \in Node \ (DOMAIN staged \cup cleanup) :
            NodeInSync(n) /\ (n \in nodeIDs => n \in DOMAIN snap)

Inv ==
    /\ TypeOK
    /\ ServedDomainsDisjoint
    /\ ServedAddressesDistinct
    /\ ServedSnapshotsCoherent
    /\ StagedFromStore
    /\ CommittedInSync
    /\ InSyncAfterSuccess
    /\ KnownNodesServed

-----------------------------------------------------------------------------
(* The empty snapshot is a good one.                                       *)
LEMMA EmptySnapshotGood ==
    /\ IsSnapshot(EmptySnapshot)
    /\ DisjointDomains(EmptySnapshot)
    /\ Coherent(EmptySnapshot)
    /\ ValidCache(EmptySnapshot)
    /\ \A t \in Type : EmptySnapshot[t].resources = EmptyResources
<1>1. \A t \in Type : EmptySnapshot[t].resources = EmptyResources
  BY DEF EmptySnapshot
<1>2. DOMAIN EmptyResources = {}
  BY DEF EmptyResources
<1>3. IsSnapshot(EmptySnapshot)
  <2>1. DOMAIN EmptySnapshot = Type /\ \A t \in Type : EmptySnapshot[t].version = NONE
    BY DEF EmptySnapshot
  <2>2. IsMap(EmptyResources)
    BY DEF IsMap, EmptyResources
  <2> QED BY <1>1, <1>2, <2>1, <2>2 DEF IsSnapshot
<1>4. /\ EmptySnapshot["Listener"].resources = EmptyResources
      /\ EmptySnapshot["Route"].resources = EmptyResources
      /\ EmptySnapshot["Cluster"].resources = EmptyResources
      /\ EmptySnapshot["Secret"].resources = EmptyResources
  BY <1>1 DEF Type
<1>5. DisjointDomains(EmptySnapshot) /\ ValidCache(EmptySnapshot)
  BY <1>2, <1>4 DEF DisjointDomains, ValidCache
<1>6. Coherent(EmptySnapshot)
  BY <1>2, <1>4 DEF Coherent, ReferencedRoutes, ReferencedClusters, ReferencedSecrets
<1> QED BY <1>1, <1>3, <1>5, <1>6

(* Statuses stay statuses.                                                 *)
LEMMA StatusesTyped ==
    ASSUME NEW st, NEW base \in [VS -> Statuses], NEW P
    PROVE  SetStatuses(st, base, P) \in [VS -> Statuses]
BY DEF SetStatuses, StatusOf, Statuses

(* Every change of a resource is an update to some store.                  *)
SomeUpdate == \E st \in Store : \E base \in [VS -> Statuses] : Update(st, base)

(* A change of any kind of resource is an Update of the store.             *)
LEMMA ChangesAreUpdates ==
    ASSUME TypeOK,
           \/ ChangeVirtualService \/ ChangeTemplate \/ ChangeListener
           \/ ChangeCluster \/ ChangeSecret \/ ChangePart \/ RebuildSnapshots
    PROVE  SomeUpdate
<1>1. store \in Store /\ status \in [VS -> Statuses]
  BY DEF TypeOK
<1>2. \A v \in VS : [status EXCEPT ![v] = "none"] \in [VS -> Statuses]
  BY <1>1 DEF Statuses
<1>3. ASSUME ChangeVirtualService PROVE SomeUpdate
  <2>1. \A v \in VS, spec \in VSSpecs \cup {NONE} : [store EXCEPT !.vs[v] = spec] \in Store
    BY <1>1, InputAssumption DEF Store
  <2> QED BY <1>1, <1>2, <1>3, <2>1 DEF ChangeVirtualService, ApplyVirtualService,
                                        DeleteVirtualService, SomeUpdate
<1>4. ASSUME ChangeTemplate PROVE SomeUpdate
  <2>1. \A t \in Template, l \in Listener \cup {NONE} :
            [store EXCEPT !.templates[t] = l] \in Store
    BY <1>1 DEF Store
  <2> QED BY <1>1, <1>4, <2>1 DEF ChangeTemplate, ApplyVirtualServiceTemplate,
                                  DeleteVirtualServiceTemplate, SomeUpdate
<1>5. ASSUME ChangeListener PROVE SomeUpdate
  <2>1. \A l \in Listener, spec \in ListenerSpecs \cup {NONE} :
            [store EXCEPT !.listeners[l] = spec] \in Store
    BY <1>1, InputAssumption DEF Store
  <2> QED BY <1>1, <1>5, <2>1 DEF ChangeListener, ApplyListener, DeleteListener, SomeUpdate
<1>6. ASSUME ChangeCluster PROVE SomeUpdate
  <2>1. \A c \in Cluster, x \in Content \cup {NONE} :
            [store EXCEPT !.clusters[c] = x] \in Store
    BY <1>1 DEF Store
  <2> QED BY <1>1, <1>6, <2>1 DEF ChangeCluster, ApplyCluster, DeleteCluster, SomeUpdate
<1>7. ASSUME ChangeSecret PROVE SomeUpdate
  <2>1. \A s \in Secret, x \in Content \cup {NONE} :
            [store EXCEPT !.secrets[s] = x] \in Store
    BY <1>1 DEF Store
  <2> QED BY <1>1, <1>7, <2>1 DEF ChangeSecret, ApplySecret, DeleteSecret, SomeUpdate
<1>8. ASSUME ChangePart PROVE SomeUpdate
  <2>1. \A p \in Part, x \in Content \cup {NONE} :
            [store EXCEPT !.parts[p] = x] \in Store
    BY <1>1 DEF Store
  <2> QED BY <1>1, <1>8, <2>1 DEF ChangePart, ApplyPart, DeletePart, SomeUpdate
<1>9. ASSUME RebuildSnapshots PROVE SomeUpdate
  BY <1>1, <1>9 DEF RebuildSnapshots, SomeUpdate
<1> QED BY <1>3, <1>4, <1>5, <1>6, <1>7, <1>8, <1>9

-----------------------------------------------------------------------------
(* A rebuild that ends before the commit changes no snapshot and does not  *)
(* report success.                                                         *)
LEMMA EndPreservesInv ==
    ASSUME Inv, NEW st \in Store, NEW base \in [VS -> Statuses], NEW P,
           NEW how \in {"cancelled", "duplicate", "staging"},
           mx = "free", store' = st, ctxDone' \in BOOLEAN,
           EndWithoutCommit(st, base, P, how)
    PROVE  Inv'
<1> USE DEF Inv, EndWithoutCommit, cacheVars, commitVars, indexVars
<1>1. TypeOK'
  <2>1. status' \in [VS -> Statuses]
    BY StatusesTyped
  <2> QED BY <2>1 DEF TypeOK, Outcomes
<1>2. ServedDomainsDisjoint' /\ ServedAddressesDistinct' /\ ServedSnapshotsCoherent'
  BY SMT DEF ServedDomainsDisjoint, ServedAddressesDistinct, ServedSnapshotsCoherent
<1>3. StagedFromStore' /\ CommittedInSync'
  BY DEF StagedFromStore, CommittedInSync
<1>4. InSyncAfterSuccess' /\ KnownNodesServed'
  BY DEF InSyncAfterSuccess, KnownNodesServed, Settled
<1> QED BY <1>1, <1>2, <1>3, <1>4

(* What a build stages for a node holds the mixer's result for that node.  *)
LEMMA StageHoldsMix ==
    ASSUME NEW st \in Store, NEW ord, NEW n \in StageNodes(st, ord)
    PROVE  HoldsMix(Stage(st, ord)[n], st, n, ord)
<1>1. n \in Node
  BY DEF StageNodes, ActiveNodes
<1>2. \/ Stage(st, ord)[n] = UpdateSnapshot(st, n, ord, snap[n])
      \/ Stage(st, ord)[n] = NewSnapshot(st, n, ord)
  BY DEF Stage
<1> QED BY <1>1, <1>2, SnapshotsHoldMix

(* What a build stages are snapshots of the right type.                    *)
LEMMA StageTyped ==
    ASSUME TypeOK, NEW st \in Store, NEW ord, NEW n \in StageNodes(st, ord)
    PROVE  IsSnapshot(Stage(st, ord)[n])
<1>1. n \in Node
  BY DEF StageNodes, ActiveNodes
<1>2. CASE n \in DOMAIN snap
  BY <1>1, <1>2, SnapshotsTyped DEF TypeOK, Stage
<1>3. CASE n \notin DOMAIN snap
  BY <1>1, <1>3, SnapshotsTyped DEF Stage
<1> QED BY <1>2, <1>3

(* When the commit begins, a node that is neither staged nor to be emptied *)
(* is in sync with the store already: it compared equal, or it is unknown. *)
LEMMA UnstagedInSync ==
    ASSUME Inv, NEW st \in Store, NEW ord \in ChainOrders(st),
           NEW n \in Node \ (StageNodes(st, ord) \cup (nodeIDs \ ActiveNodes(st)))
    PROVE  IF n \in ActiveNodes(st)
           THEN n \in DOMAIN snap /\ HoldsMix(snap[n], st, n, ord)
           ELSE n \notin nodeIDs /\ n \notin DOMAIN snap
<1>1. CASE n \in ActiveNodes(st)
  <2>1. n \in DOMAIN snap /\ ~HasChanges(st, n, ord, snap[n])
    BY <1>1 DEF StageNodes
  <2>2. IsSnapshot(snap[n]) /\ Coherent(snap[n])
    BY <2>1 DEF Inv, TypeOK, ServedSnapshotsCoherent
  <2>3. HoldsMix(snap[n], st, n, ord)
    BY <2>1, <2>2, UnchangedHoldsMix
  <2> QED BY <1>1, <2>1, <2>3
<1>2. CASE n \notin ActiveNodes(st)
  BY <1>2 DEF Inv, TypeOK
<1> QED BY <1>1, <1>2

(* A build that stages its snapshots (BuildStaged) keeps the invariant.    *)
LEMMA StagedPreservesInv ==
    ASSUME Inv, NEW st \in Store, NEW base \in [VS -> Statuses],
           mx = "free", store' = st, ctxDone' \in BOOLEAN, BuildStaged(st, base)
    PROVE  Inv'
<1> USE DEF cacheVars, indexVars
<1>1. PICK ord \in ChainOrders(st) : staged' = Stage(st, ord)
  BY DEF BuildStaged
<1>2. DOMAIN staged' = StageNodes(st, ord)
  BY <1>1 DEF Stage
<1>3. /\ snap' = snap /\ nodeIDs' = nodeIDs /\ outcome' = outcome
      /\ cleanup' = nodeIDs \ ActiveNodes(st)
      /\ touched' = DOMAIN staged' \cup cleanup'
      /\ failed' = FALSE /\ mx' = "commit"
      /\ status' = SetStatuses(st, base, Stored(st))
      /\ usedSecrets' = usedSecrets /\ nodeDomains' = nodeDomains
      /\ ~Clash(st, Stored(st))
  BY DEF BuildStaged
<1>4. StageNodes(st, ord) \subseteq ActiveNodes(st) /\ ActiveNodes(st) \subseteq Node
  BY DEF StageNodes, ActiveNodes
<1>5. TypeOK'
  <2>1. status' \in [VS -> Statuses]
    BY <1>3, StatusesTyped
  <2>2. \A n \in DOMAIN staged' : IsSnapshot(staged'[n])
    BY <1>1, <1>2, StageTyped DEF Inv
  <2>3. DOMAIN snap \subseteq Node
    BY DEF Inv, TypeOK
  <2> QED BY <1>2, <1>3, <1>4, <2>1, <2>2, <2>3 DEF Inv, TypeOK
<1>6. ServedDomainsDisjoint' /\ ServedAddressesDistinct' /\ ServedSnapshotsCoherent'
  BY <1>3, SMT DEF Inv, ServedDomainsDisjoint, ServedAddressesDistinct, ServedSnapshotsCoherent
<1>7. StagedFromStore'
  <2>1. \A n \in DOMAIN staged' : HoldsMix(staged'[n], st, n, ord)
    BY <1>1, <1>2, StageHoldsMix
  <2> QED BY <1>2, <1>3, <1>4, <2>1 DEF StagedFromStore
<1>8. CommittedInSync'
  <2> SUFFICES ASSUME NEW n \in Node \ (DOMAIN staged' \cup cleanup')
               PROVE  NodeInSync(n)' /\ (n \in nodeIDs' => n \in DOMAIN snap')
    BY DEF CommittedInSync
  <2>1. IF n \in ActiveNodes(st)
        THEN n \in DOMAIN snap /\ HoldsMix(snap[n], st, n, ord)
        ELSE n \notin nodeIDs /\ n \notin DOMAIN snap
    BY <1>2, <1>3, UnstagedInSync
  <2> QED BY <1>3, <2>1 DEF NodeInSync, HoldsMix
<1>9. InSyncAfterSuccess' /\ KnownNodesServed'
  BY <1>3 DEF InSyncAfterSuccess, KnownNodesServed, Settled
<1> QED BY <1>5, <1>6, <1>7, <1>8, <1>9 DEF Inv

(* Every Apply and Delete, and the first rebuild, keeps the invariant.     *)
LEMMA UpdatePreservesInv ==
    ASSUME Inv, SomeUpdate
    PROVE  Inv'
<1>1. PICK st \in Store : \E base \in [VS -> Statuses] : Update(st, base)
  BY DEF SomeUpdate
<1>2. PICK base \in [VS -> Statuses] : Update(st, base)
  BY <1>1
<1>3. mx = "free" /\ store' = st /\ ctxDone \in BOOLEAN
  BY <1>2 DEF Update, Inv, TypeOK
<1>4. CASE BuildCancelled(st, base)
  <2>1. ctxDone' \in BOOLEAN
    BY <1>4 DEF BuildCancelled
  <2>2. PICK P : \/ EndWithoutCommit(st, base, P, "cancelled")
                 \/ \E v \in P : /\ v \in VS
                                 /\ EndWithoutCommit(st, [base EXCEPT ![v] = "valid"],
                                                     P \ {v}, "cancelled")
    BY <1>4 DEF BuildCancelled, Stored
  <2>3. \A v \in VS : [base EXCEPT ![v] = "valid"] \in [VS -> Statuses]
    BY DEF Statuses
  <2> QED BY <1>3, <2>1, <2>2, <2>3, EndPreservesInv
<1>5. CASE ctxDone' = ctxDone /\ BuildDuplicate(st, base)
  BY <1>3, <1>5, EndPreservesInv DEF BuildDuplicate
<1>6. CASE ctxDone' = ctxDone /\ BuildFails(st, base)
  BY <1>3, <1>6, EndPreservesInv DEF BuildFails
<1>7. CASE ctxDone' = ctxDone /\ BuildStaged(st, base)
  BY <1>3, <1>7, StagedPreservesInv
<1> QED BY <1>2, <1>4, <1>5, <1>6, <1>7 DEF Update, Rebuild

-----------------------------------------------------------------------------
(* Setting a good snapshot for a node that the commit has yet to deal with *)
(* keeps every served snapshot good, and puts that node in sync unless the *)
(* snapshot is refused.                                                    *)
LEMMA SetSnapshotServes ==
    ASSUME Inv, NEW n \in Node, NEW s, SetSnapshot(n, s), mx = "commit",
           IsSnapshot(s), DisjointDomains(s), Coherent(s)
    PROVE  /\ nodeIDs' = nodeIDs \cup {n}
           /\ failed' \in BOOLEAN
           /\ ~failed' => ~failed /\ n \in DOMAIN snap' /\ snap'[n] = s
           /\ DOMAIN snap \subseteq DOMAIN snap'
           /\ DOMAIN snap' \subseteq nodeIDs'
           /\ \A m \in DOMAIN snap' : m # n => m \in DOMAIN snap /\ snap'[m] = snap[m]
           /\ \A m \in DOMAIN snap' : IsSnapshot(snap'[m])
           /\ ServedDomainsDisjoint' /\ ServedAddressesDistinct' /\ ServedSnapshotsCoherent'
<1>1. /\ DOMAIN snap \subseteq nodeIDs
      /\ failed \in BOOLEAN
      /\ \A m \in DOMAIN snap : IsSnapshot(snap[m])
  BY DEF Inv, TypeOK
<1>2. nodeIDs' = nodeIDs \cup {n}
  BY DEF SetSnapshot
<1>3. CASE ValidCache(s)
  <2>1. snap' = Put(snap, n, s) /\ failed' = failed
    BY <1>3 DEF SetSnapshot
  <2>2. DOMAIN snap' = DOMAIN snap \cup {n} /\ snap'[n] = s
    BY <2>1 DEF Put
  <2>3. \A m \in DOMAIN snap \ {n} : snap'[m] = snap[m]
    BY <2>1 DEF Put
  <2>4. \A m \in DOMAIN snap' : IsSnapshot(snap'[m])
    BY <1>1, <2>2, <2>3
  <2>5. ServedDomainsDisjoint' /\ ServedSnapshotsCoherent'
    BY <2>2, <2>3 DEF Inv, ServedDomainsDisjoint, ServedSnapshotsCoherent
  <2>6. ServedAddressesDistinct'
    BY <1>3, <2>2, <2>3, SMT DEF Inv, ServedAddressesDistinct, ValidCache
  <2> QED BY <1>1, <1>2, <2>1, <2>2, <2>3, <2>4, <2>5, <2>6
<1>4. CASE ~ValidCache(s)
  <2>1. snap' = snap /\ failed' = TRUE
    BY <1>4 DEF SetSnapshot
  <2>2. ServedDomainsDisjoint' /\ ServedAddressesDistinct' /\ ServedSnapshotsCoherent'
    BY <2>1, SMT DEF Inv, ServedDomainsDisjoint, ServedAddressesDistinct, ServedSnapshotsCoherent
  <2> QED BY <1>1, <1>2, <2>1, <2>2
<1> QED BY <1>3, <1>4

(* A node that is not written stays in sync while the store does not change.*)
LEMMA OthersStayInSync ==
    ASSUME NEW n, NEW m \in Node, m # n, store' = store, NodeInSync(m),
           DOMAIN snap \subseteq DOMAIN snap',
           \A k \in DOMAIN snap' : k # n => k \in DOMAIN snap /\ snap'[k] = snap[k]
    PROVE  NodeInSync(m)'
<1>1. m \in DOMAIN snap' <=> m \in DOMAIN snap
  OBVIOUS
<1>2. m \in DOMAIN snap => snap'[m] = snap[m]
  OBVIOUS
<1> QED BY <1>1, <1>2 DEF NodeInSync

(* Setting one staged snapshot, or failing to, keeps the invariant.        *)
LEMMA CommitNodePreservesInv ==
    ASSUME Inv, NEW n \in Node, CommitNode(n)
    PROVE  Inv'
<1> USE DEF indexVars
<1>1. /\ mx = "commit" /\ n \in DOMAIN staged
      /\ SetSnapshot(n, staged[n])
      /\ staged' = Drop(staged, n)
      /\ store' = store /\ status' = status /\ usedSecrets' = usedSecrets
      /\ nodeDomains' = nodeDomains /\ cleanup' = cleanup /\ touched' = touched
      /\ mx' = mx /\ ctxDone' = ctxDone /\ outcome' = outcome
  BY DEF CommitNode
<1>2. PICK ord \in ChainOrders(store) : HoldsMix(staged[n], store, n, ord)
  BY <1>1 DEF Inv, StagedFromStore
<1>3. store \in Store /\ ~Clash(store, Stored(store)) /\ n \in ActiveNodes(store)
  BY <1>1 DEF Inv, TypeOK, StagedFromStore
<1>4. IsSnapshot(staged[n]) /\ DisjointDomains(staged[n]) /\ Coherent(staged[n])
  BY <1>1, <1>2, <1>3, MixDisjoint, MixCoherent DEF Inv, TypeOK
<1>5. /\ nodeIDs' = nodeIDs \cup {n}
      /\ failed' \in BOOLEAN
      /\ ~failed' => ~failed /\ n \in DOMAIN snap' /\ snap'[n] = staged[n]
      /\ DOMAIN snap \subseteq DOMAIN snap'
      /\ DOMAIN snap' \subseteq nodeIDs'
      /\ \A m \in DOMAIN snap' : m # n => m \in DOMAIN snap /\ snap'[m] = snap[m]
      /\ \A m \in DOMAIN snap' : IsSnapshot(snap'[m])
      /\ ServedDomainsDisjoint' /\ ServedAddressesDistinct' /\ ServedSnapshotsCoherent'
  BY <1>1, <1>4, SetSnapshotServes
<1>6. DOMAIN staged' = DOMAIN staged \ {n} /\ \A m \in DOMAIN staged' : staged'[m] = staged[m]
  BY <1>1 DEF Drop
<1>7. TypeOK'
  BY <1>1, <1>5, <1>6 DEF Inv, TypeOK
<1>8. StagedFromStore'
  BY <1>1, <1>6 DEF Inv, StagedFromStore
<1>9. CommittedInSync'
  <2> SUFFICES ASSUME ~failed', NEW m \in Node \ (DOMAIN staged' \cup cleanup')
               PROVE  NodeInSync(m)' /\ (m \in nodeIDs' => m \in DOMAIN snap')
    BY DEF CommittedInSync
  <2>1. CASE m = n
    BY <1>1, <1>2, <1>3, <1>5, <2>1, SMT DEF NodeInSync, HoldsMix
  <2>2. CASE m # n
    <3>1. NodeInSync(m) /\ (m \in nodeIDs => m \in DOMAIN snap)
      BY <1>1, <1>5, <1>6, <2>2 DEF Inv, CommittedInSync
    <3>2. NodeInSync(m)'
      BY <1>1, <1>5, <2>2, <3>1, OthersStayInSync
    <3> QED BY <1>5, <2>2, <3>1, <3>2
  <2> QED BY <2>1, <2>2
<1>10. InSyncAfterSuccess' /\ KnownNodesServed'
  BY <1>1 DEF InSyncAfterSuccess, KnownNodesServed, Settled
<1> QED BY <1>5, <1>7, <1>8, <1>9, <1>10 DEF Inv

(* Emptying a node that no VirtualService mentions keeps the invariant.    *)
LEMMA CleanNodePreservesInv ==
    ASSUME Inv, NEW n \in Node, CleanNode(n)
    PROVE  Inv'
<1> USE DEF indexVars
<1>1. /\ mx = "commit" /\ staged = EmptyMap /\ n \in cleanup
      /\ SetSnapshot(n, EmptySnapshot)
      /\ cleanup' = cleanup \ {n}
      /\ store' = store /\ status' = status /\ usedSecrets' = usedSecrets
      /\ nodeDomains' = nodeDomains /\ staged' = staged /\ touched' = touched
      /\ mx' = mx /\ ctxDone' = ctxDone /\ outcome' = outcome
  BY DEF CleanNode
<1>2. n \notin ActiveNodes(store)
  BY <1>1 DEF Inv, StagedFromStore
<1>3. /\ nodeIDs' = nodeIDs \cup {n}
      /\ failed' \in BOOLEAN
      /\ ~failed' => ~failed /\ n \in DOMAIN snap' /\ snap'[n] = EmptySnapshot
      /\ DOMAIN snap \subseteq DOMAIN snap'
      /\ DOMAIN snap' \subseteq nodeIDs'
      /\ \A m \in DOMAIN snap' : m # n => m \in DOMAIN snap /\ snap'[m] = snap[m]
      /\ \A m \in DOMAIN snap' : IsSnapshot(snap'[m])
      /\ ServedDomainsDisjoint' /\ ServedAddressesDistinct' /\ ServedSnapshotsCoherent'
  BY <1>1, EmptySnapshotGood, SetSnapshotServes
<1>4. TypeOK'
  BY <1>1, <1>3 DEF Inv, TypeOK
<1>5. StagedFromStore'
  BY <1>1 DEF Inv, StagedFromStore
<1>6. CommittedInSync'
  <2> SUFFICES ASSUME ~failed', NEW m \in Node \ (DOMAIN staged' \cup cleanup')
               PROVE  NodeInSync(m)' /\ (m \in nodeIDs' => m \in DOMAIN snap')
    BY DEF CommittedInSync
  <2>1. CASE m = n
    BY <1>1, <1>2, <1>3, <2>1, EmptySnapshotGood DEF NodeInSync
  <2>2. CASE m # n
    <3>1. NodeInSync(m) /\ (m \in nodeIDs => m \in DOMAIN snap)
      BY <1>1, <1>3, <2>2 DEF Inv, CommittedInSync
    <3>2. NodeInSync(m)'
      BY <1>1, <1>3, <2>2, <3>1, OthersStayInSync
    <3> QED BY <1>3, <2>2, <3>1, <3>2
  <2> QED BY <2>1, <2>2
<1>7. InSyncAfterSuccess' /\ KnownNodesServed'
  BY <1>1 DEF InSyncAfterSuccess, KnownNodesServed, Settled
<1> QED BY <1>3, <1>4, <1>5, <1>6, <1>7 DEF Inv

(* A commit that ends without a failure has put every node in sync.        *)
LEMMA FinishPreservesInv ==
    ASSUME Inv, FinishRebuild
    PROVE  Inv'
<1> USE DEF cacheVars, indexVars
<1>1. /\ mx = "commit" /\ staged = EmptyMap /\ cleanup = {}
      /\ outcome' = CommitOutcome
      /\ mx' = "free" /\ touched' = {} /\ failed' = FALSE
      /\ store' = store /\ status' = status /\ snap' = snap /\ nodeIDs' = nodeIDs
      /\ staged' = staged /\ cleanup' = cleanup /\ ctxDone' = ctxDone
  BY DEF FinishRebuild
<1>2. store \in Store /\ DOMAIN EmptyMap = {}
  BY DEF Inv, TypeOK, EmptyMap
<1>3. TypeOK'
  <2>1. UsedSecrets(store) \subseteq Secret
    <3>1. \A v \in Stored(store) : store.vs[v].secrets \subseteq Secret
      BY <1>2 DEF Stored, Store, VSSpec
    <3> QED BY <3>1 DEF UsedSecrets
  <2>2. \A n \in Node : DomainsOn(store, n) \subseteq Domain
    <3> SUFFICES ASSUME NEW n \in Node, NEW v \in On(store, n)
                 PROVE  store.vs[v].domains \subseteq Domain
      BY DEF DomainsOn
    <3> QED BY <1>2, OnFacts DEF VSSpec
  <2>3. usedSecrets' \subseteq Secret
    BY <2>1 DEF FinishRebuild, Inv, TypeOK
  <2>4. DOMAIN nodeDomains' \subseteq Node /\ \A n \in DOMAIN nodeDomains' : nodeDomains'[n] \subseteq Domain
    <3>1. CASE outcome' = "commit"
      BY <3>1 DEF FinishRebuild, Inv, TypeOK
    <3>2. CASE outcome' # "commit"
      <4>1. nodeDomains' = NodeDomainsIndex(store, touched)
        BY <3>2 DEF FinishRebuild
      <4>2. touched \subseteq Node
        BY DEF Inv, TypeOK
      <4> QED BY <2>2, <4>1, <4>2 DEF NodeDomainsIndex
    <3> QED BY <3>1, <3>2
  <2> QED BY <1>1, <1>2, <2>3, <2>4 DEF Inv, TypeOK, CommitOutcome, Outcomes
<1>4. ServedDomainsDisjoint' /\ ServedAddressesDistinct' /\ ServedSnapshotsCoherent'
  BY <1>1, SMT DEF Inv, ServedDomainsDisjoint, ServedAddressesDistinct, ServedSnapshotsCoherent
<1>5. StagedFromStore' /\ CommittedInSync'
  BY <1>1 DEF StagedFromStore, CommittedInSync
<1>6. ASSUME outcome' = "ok"
      PROVE  \A n \in Node : NodeInSync(n) /\ (n \in nodeIDs => n \in DOMAIN snap)
  BY <1>1, <1>2, <1>6 DEF Inv, CommittedInSync, CommitOutcome
<1>7. InSyncAfterSuccess'
  BY <1>1, <1>6 DEF InSyncAfterSuccess, NodeInSync, Settled
<1>8. KnownNodesServed'
  BY <1>1, <1>6 DEF KnownNodesServed, Settled, Inv, TypeOK
<1> QED BY <1>3, <1>4, <1>5, <1>7, <1>8 DEF Inv

(* A step that changes no variable keeps the invariant.                    *)
LEMMA UnchangedPreservesInv ==
    ASSUME Inv, Shutdown \/ UNCHANGED vars
    PROVE  Inv'
<1> USE DEF cacheVars, commitVars, indexVars
<1>1. /\ store' = store /\ status' = status /\ usedSecrets' = usedSecrets
      /\ nodeDomains' = nodeDomains /\ snap' = snap /\ nodeIDs' = nodeIDs
      /\ staged' = staged /\ cleanup' = cleanup /\ touched' = touched
      /\ failed' = failed /\ mx' = mx /\ outcome' = outcome
      /\ ctxDone' \in BOOLEAN
  BY DEF Shutdown, vars, Inv, TypeOK
<1>2. TypeOK'
  BY <1>1 DEF Inv, TypeOK
<1>3. ServedDomainsDisjoint' /\ ServedAddressesDistinct' /\ ServedSnapshotsCoherent'
  BY <1>1, SMT DEF Inv, ServedDomainsDisjoint, ServedAddressesDistinct, ServedSnapshotsCoherent
<1>4. StagedFromStore'
  BY <1>1 DEF Inv, StagedFromStore
<1>5. \A n \in Node : NodeInSync(n)' <=> NodeInSync(n)
  BY <1>1 DEF NodeInSync
<1>6. CommittedInSync'
  BY <1>1, <1>5 DEF Inv, CommittedInSync
<1>7. InSyncAfterSuccess' /\ KnownNodesServed'
  BY <1>1, <1>5 DEF Inv, InSyncAfterSuccess, KnownNodesServed, Settled
<1> QED BY <1>2, <1>3, <1>4, <1>6, <1>7 DEF Inv

(* The invariant holds when the store is loaded and nothing is served.     *)
LEMMA InitInv == Init => Inv
<1> SUFFICES ASSUME Init PROVE Inv
  OBVIOUS
<1>1. DOMAIN EmptyMap = {}
  BY DEF EmptyMap
<1>2. TypeOK
  BY <1>1, InputAssumption DEF Init, TypeOK, Statuses, Outcomes
<1>3. ServedDomainsDisjoint /\ ServedAddressesDistinct /\ ServedSnapshotsCoherent
  BY <1>1 DEF Init, ServedDomainsDisjoint, ServedAddressesDistinct, ServedSnapshotsCoherent
<1>4. StagedFromStore /\ CommittedInSync /\ InSyncAfterSuccess /\ KnownNodesServed
  BY DEF Init, StagedFromStore, CommittedInSync, InSyncAfterSuccess, KnownNodesServed, Settled
<1> QED BY <1>2, <1>3, <1>4 DEF Inv

(* Every step of the updater keeps the invariant.                          *)
LEMMA NextInv == Inv /\ [Next]_vars => Inv'
<1> SUFFICES ASSUME Inv, [Next]_vars PROVE Inv'
  OBVIOUS
<1>1. CASE \/ ChangeVirtualService \/ ChangeTemplate \/ ChangeListener
           \/ ChangeCluster \/ ChangeSecret \/ ChangePart \/ RebuildSnapshots
  BY <1>1, ChangesAreUpdates, UpdatePreservesInv DEF Inv
<1>2. ASSUME NEW n \in Node, CommitNode(n) PROVE Inv'
  BY <1>2, CommitNodePreservesInv
<1>3. ASSUME NEW n \in Node, CleanNode(n) PROVE Inv'
  BY <1>3, CleanNodePreservesInv
<1>4. CASE FinishRebuild
  BY <1>4, FinishPreservesInv
<1>5. CASE Shutdown \/ UNCHANGED vars
  BY <1>5, UnchangedPreservesInv
<1> QED BY <1>1, <1>2, <1>3, <1>4, <1>5 DEF Next

(* The inductive invariant holds throughout.                               *)
THEOREM InductiveInvariant == Spec => []Inv
<1>1. Init => Inv
  BY InitInv
<1>2. Inv /\ [Next]_vars => Inv'
  BY NextInv
<1> QED BY <1>1, <1>2, PTL DEF Spec

(* The store, the cache and the commit's variables always hold values of   *)
(* their types.                                                            *)
THEOREM TypesCorrect == Spec => []TypeOK
<1>1. Inv => TypeOK
  BY DEF Inv
<1> QED BY <1>1, InductiveInvariant, PTL

(* For any number of VirtualServices and nodes, no node is ever served two *)
(* route configurations with a common domain.                              *)
THEOREM DomainsDisjoint == Spec => []ServedDomainsDisjoint
<1>1. Inv => ServedDomainsDisjoint
  BY DEF Inv
<1> QED BY <1>1, InductiveInvariant, PTL

(* No node is ever served two listeners with one address.                  *)
THEOREM AddressesDistinct == Spec => []ServedAddressesDistinct
<1>1. Inv => ServedAddressesDistinct
  BY DEF Inv
<1> QED BY <1>1, InductiveInvariant, PTL

(* No two things a node is served claim the same traffic.                  *)
THEOREM ClashFree == Spec => []ServedWithoutClash
BY DomainsDisjoint, AddressesDistinct, PTL DEF ServedWithoutClash

(* No served snapshot refers to a route, cluster or secret that it lacks,  *)
(* or holds one that nothing refers to.                                    *)
THEOREM SnapshotsCoherent == Spec => []ServedSnapshotsCoherent
<1>1. Inv => ServedSnapshotsCoherent
  BY DEF Inv
<1> QED BY <1>1, InductiveInvariant, PTL

(* A rebuild that reports success leaves every node served with what the   *)
(* store asks for, although nodes that compare equal are skipped.          *)
THEOREM SuccessMeansInSync == Spec => []InSyncAfterSuccess
<1>1. Inv => InSyncAfterSuccess
  BY DEF Inv
<1> QED BY <1>1, InductiveInvariant, PTL

(* A rebuild that reports success leaves no known node without a snapshot. *)
THEOREM SuccessMeansServed == Spec => []KnownNodesServed
<1>1. Inv => KnownNodesServed
  BY DEF Inv
<1> QED BY <1>1, InductiveInvariant, PTL

(* A rebuild that reports success leaves every node in sync and known.     *)
THEOREM SuccessIsAccurate == Spec => []AccurateAfterSuccess
BY SuccessMeansInSync, SuccessMeansServed, PTL DEF AccurateAfterSuccess

-----------------------------------------------------------------------------
(* What a rebuild records beside the snapshots: the statuses before the    *)
(* commit, the protected secrets and the domains of the nodes after it.    *)
Recorded ==
    /\ (mx = "commit" \/ outcome \in {"ok", "staging", "commit"}) =>
           \A v \in Stored(store) : status[v] = StatusOf(store, v)
    /\ Settled("ok") =>
           /\ usedSecrets = UsedSecrets(store)
           /\ \A n \in Node : DomainsOn(store, n) =
                IF n \in DOMAIN nodeDomains THEN nodeDomains[n] ELSE {}

(* An Apply or Delete leaves statuses that are those of its own build,     *)
(* whichever way the build ends.                                           *)
LEMMA UpdateRecords ==
    ASSUME SomeUpdate
    PROVE  Recorded'
<1>1. PICK st \in Store : \E base \in [VS -> Statuses] : Update(st, base)
  BY DEF SomeUpdate
<1>2. PICK base \in [VS -> Statuses] : Update(st, base)
  BY <1>1
<1>3. mx = "free" /\ store' = st
  BY <1>2 DEF Update
<1>4. \A v \in Stored(st) : SetStatuses(st, base, Stored(st))[v] = StatusOf(st, v)
  BY DEF SetStatuses, Stored
<1>5. CASE BuildCancelled(st, base) \/ BuildDuplicate(st, base)
  <2>1. mx' = "free" /\ outcome' \in {"cancelled", "duplicate"}
    BY <1>3, <1>5 DEF BuildCancelled, BuildDuplicate, EndWithoutCommit
  <2> QED BY <2>1 DEF Recorded, Settled
<1>6. CASE BuildFails(st, base)
  <2>1. outcome' = "staging" /\ status' = SetStatuses(st, base, Stored(st))
    BY <1>6 DEF BuildFails, EndWithoutCommit
  <2> QED BY <1>3, <1>4, <2>1 DEF Recorded, Settled
<1>7. CASE BuildStaged(st, base)
  <2>1. mx' = "commit" /\ status' = SetStatuses(st, base, Stored(st))
    BY <1>7 DEF BuildStaged
  <2> QED BY <1>3, <1>4, <2>1 DEF Recorded, Settled
<1> QED BY <1>2, <1>5, <1>6, <1>7 DEF Update, Rebuild

(* The end of a commit changes no status and reports no more than the      *)
(* build did.                                                              *)
LEMMA FinishRecords ==
    ASSUME Recorded, FinishRebuild
    PROVE  Recorded'
<1>1. \A v \in Stored(store) : status[v] = StatusOf(store, v)
  BY DEF Recorded, FinishRebuild
<1>2. UNCHANGED <<store, status>>
  BY DEF FinishRebuild
<1>3. CASE outcome' = "commit"
  BY <1>1, <1>2, <1>3 DEF Recorded, Settled
<1>4. CASE outcome' # "commit"
  <2>1. usedSecrets' = UsedSecrets(store) /\ nodeDomains' = NodeDomainsIndex(store, touched)
    BY <1>4 DEF FinishRebuild
  <2>2. \A n \in Node : DomainsOn(store, n) =
          IF n \in DOMAIN nodeDomains' THEN nodeDomains'[n] ELSE {}
    BY <2>1 DEF NodeDomainsIndex
  <2> QED BY <1>1, <1>2, <2>1, <2>2 DEF Recorded, Settled
<1> QED BY <1>3, <1>4

(* Every step keeps the statuses those of the last build.                  *)
LEMMA NextRecords ==
    ASSUME Inv, Recorded, [Next]_vars
    PROVE  Recorded'
<1>1. CASE /\ outcome # "none"
           /\ \/ ChangeVirtualService \/ ChangeTemplate \/ ChangeListener
              \/ ChangeCluster \/ ChangeSecret \/ ChangePart
  BY <1>1, ChangesAreUpdates, UpdateRecords DEF Inv
<1>2. CASE RebuildSnapshots
  BY <1>2, ChangesAreUpdates, UpdateRecords DEF Inv
<1>3. CASE \/ \E n \in Node : CommitNode(n) \/ CleanNode(n)
           \/ Shutdown \/ UNCHANGED vars
  <2>1. UNCHANGED <<store, status, usedSecrets, nodeDomains, mx, outcome>>
    BY <1>3 DEF CommitNode, CleanNode, Shutdown, vars, indexVars
  <2> QED BY <2>1 DEF Recorded, Settled
<1>4. CASE FinishRebuild
  BY <1>4, FinishRecords
<1> QED BY <1>1, <1>2, <1>3, <1>4 DEF Next

(* In every reachable state the statuses are those of the last build.      *)
LEMMA AlwaysRecorded == Spec => [](Inv /\ Recorded)
<1>1. Init => Recorded
  BY DEF Init, Recorded, Settled
<1>2. Inv /\ Recorded /\ [Next]_vars => Recorded'
  BY NextRecords
<1> QED BY <1>1, <1>2, InductiveInvariant, PTL DEF Spec

(* A node that is in sync is served the domains of its VirtualServices.    *)
LEMMA DomainsServed ==
    ASSUME store \in Store, NEW n \in Node, n \in DOMAIN snap, NodeInSync(n)
    PROVE  ServedDomains(n) = DomainsOn(store, n)
<1>1. CASE n \in ActiveNodes(store)
  <2>1. snap[n]["Route"].resources = RoutesOn(store, n)
    BY <1>1, MixTypes DEF NodeInSync, Type
  <2>2. \A v \in On(store, n) : ~HasRoute(store, v) => store.vs[v].domains = {}
    BY OnFacts DEF HasRoute, Builds, BuildsOnOwnChains
  <2>3. DOMAIN RoutesOn(store, n) = {w \in On(store, n) : HasRoute(store, w)}
    BY DEF RoutesOn
  <2>4. \A v \in DOMAIN RoutesOn(store, n) :
          RoutesOn(store, n)[v].domains = store.vs[v].domains
    BY DEF RoutesOn
  <2> QED BY <2>1, <2>2, <2>3, <2>4, SMT DEF ServedDomains, DomainsOn
<1>2. CASE n \notin ActiveNodes(store)
  <2>1. On(store, n) = {}
    BY <1>2 DEF On, ActiveNodes
  <2>2. snap[n]["Route"].resources = EmptyResources
    BY <1>2 DEF NodeInSync, Type
  <2> QED BY <2>1, <2>2 DEF ServedDomains, DomainsOn, EmptyResources
<1> QED BY <1>1, <1>2

(* The index by which the light validator finds clashes, after a rebuild   *)
(* that succeeded, has the domains every node is served.                   *)
THEOREM DomainIndexServed == Spec => []DomainIndexAgrees
<1>1. Inv /\ Recorded => DomainIndexAgrees
  <2> SUFFICES ASSUME Inv, Recorded, Settled("ok"), NEW n \in DOMAIN snap
               PROVE  ServedDomains(n) =
                        IF n \in DOMAIN nodeDomains THEN nodeDomains[n] ELSE {}
    BY DEF DomainIndexAgrees
  <2>1. n \in Node /\ store \in Store /\ NodeInSync(n)
    BY DEF Inv, TypeOK, InSyncAfterSuccess
  <2>2. ServedDomains(n) = DomainsOn(store, n)
    BY <2>1, DomainsServed
  <2> QED BY <2>1, <2>2 DEF Recorded
<1> QED BY <1>1, AlwaysRecorded, PTL

(* After a rebuild that succeeded every secret in a snapshot is among the  *)
(* ones that the webhook refuses to delete.                                *)
THEOREM SecretsProtected == Spec => []ServedSecretsProtected
<1>1. Inv /\ Recorded => ServedSecretsProtected
  <2> SUFFICES ASSUME Inv, Recorded, Settled("ok"), NEW n \in DOMAIN snap
               PROVE  DOMAIN snap[n]["Secret"].resources \subseteq usedSecrets
    BY DEF ServedSecretsProtected
  <2>1. n \in Node /\ NodeInSync(n) /\ usedSecrets = UsedSecrets(store)
    BY DEF Inv, TypeOK, InSyncAfterSuccess, Recorded
  <2>2. \/ snap[n]["Secret"].resources = SecretsOn(store, n)
        \/ snap[n]["Secret"].resources = EmptyResources
    BY <2>1, MixTypes DEF NodeInSync, Type
  <2>3. On(store, n) \subseteq Stored(store)
    BY DEF On, Specific, Common
  <2>4. DOMAIN SecretsOn(store, n) \subseteq UsedSecrets(store)
    BY <2>3 DEF SecretsOn, UsedSecrets
  <2> QED BY <2>1, <2>2, <2>4 DEF EmptyResources
<1> QED BY <1>1, AlwaysRecorded, PTL

(* After a rebuild that succeeded, for any nodes and resources, the        *)
(* webhooks decide by what Envoy is served.                                *)
THEOREM WebhooksInformed == Spec => []WebhooksSeeServed
BY SecretsProtected, DomainIndexServed, PTL DEF WebhooksSeeServed

(* Once a rebuild got past the duplicate check, the statuses of the        *)
(* VirtualServices for specific nodes tell which of them cannot be built.  *)
THEOREM StatusExact == Spec => []StatusTellsFailure
<1>1. Inv /\ Recorded => StatusTellsFailure
  <2> SUFFICES ASSUME Inv, Recorded, mx = "free", outcome \in {"ok", "staging", "commit"},
                      NEW v \in Stored(store), ~IsCommon(store.vs[v].nodes)
               PROVE  status[v] = "invalid" <=> store.vs[v].nodes = {} \/ ~Builds(store, v)
    BY DEF StatusTellsFailure
  <2>1. status[v] = StatusOf(store, v)
    BY DEF Recorded
  <2> QED BY <2>1 DEF StatusOf, Specific
<1> QED BY <1>1, AlwaysRecorded, PTL

-----------------------------------------------------------------------------
(* Versions.  A staged snapshot was numbered after the one that its node   *)
(* is served still, and a type without a version has no resources.         *)
HasNumber(s) == \A t \in Type : s[t].version = NONE => s[t].resources = EmptyResources

Raises(new, old) ==
    \A t \in {"Listener", "Route"} :
        new[t].resources # old[t].resources => new[t].version # old[t].version

Versioned ==
    /\ \A n \in DOMAIN snap : HasNumber(snap[n])
    /\ \A n \in DOMAIN staged : HasNumber(staged[n])
    /\ \A n \in DOMAIN staged \cap DOMAIN snap : Raises(staged[n], snap[n])

(* The empty snapshot that cleans a node has a version in each type, and   *)
(* no type of it changes under the same version.                           *)
LEMMA EmptyVersioned ==
    ASSUME NEW s, HasNumber(s)
    PROVE  HasNumber(EmptySnapshot) /\ Raises(EmptySnapshot, s)
BY DEF HasNumber, Raises, EmptySnapshot, Type

(* updateSnapshot gives numbers for versions and raises the one of a type  *)
(* whose listeners or routes change.                                       *)
LEMMA UpdateVersioned ==
    ASSUME NONE \notin Nat, NEW st \in Store, NEW n \in Node, NEW ord, NEW prev,
           IsSnapshot(prev), HasNumber(prev)
    PROVE  /\ HasNumber(UpdateSnapshot(st, n, ord, prev))
           /\ Raises(UpdateSnapshot(st, n, ord, prev), prev)
<1> DEFINE new == UpdateSnapshot(st, n, ord, prev)
           changed(t) == ResourcesChanged(st, n, ord, prev, t)
<1>1. \A t \in Type : prev[t].version \in Nat \cup {NONE}
  BY DEF IsSnapshot
<1>2. \A t \in TypesOn(st, n) :
        /\ t \in Type
        /\ new[t].version = NextVersion(prev[t].version, changed(t))
        /\ new[t].resources = Mix(st, n, ord)[t]
  BY DEF UpdateSnapshot, TypesOn, Type
<1>3. \A t \in Type \ TypesOn(st, n) :
        new[t].version = NONE /\ new[t].resources = EmptyResources
  BY DEF UpdateSnapshot, EmptySnapshot
<1> HIDE DEF new
<1>4. ASSUME NEW t \in TypesOn(st, n)
      PROVE  new[t].version \in Nat /\ (changed(t) => new[t].version # prev[t].version)
  <2>1. prev[t].version \in Nat \cup {NONE}
    BY <1>1, <1>2
  <2>2. new[t].version = NextVersion(prev[t].version, changed(t))
    BY <1>2
  <2>3. CASE prev[t].version = NONE
    BY <2>2, <2>3, SMT DEF NextVersion
  <2>4. CASE prev[t].version \in Nat
    BY <2>2, <2>4, SMT DEF NextVersion
  <2> QED BY <2>1, <2>3, <2>4
<1>5. HasNumber(new)
  BY <1>3, <1>4 DEF HasNumber
<1>6. ASSUME NEW t \in {"Listener", "Route"}, new[t].resources # prev[t].resources
      PROVE  new[t].version # prev[t].version
  <2>1. CASE t \in TypesOn(st, n)
    <3>1. changed(t)
      BY <1>2, <1>6, <2>1, UnchangedType, SMT
    <3> QED BY <1>4, <2>1, <3>1
  <2>2. CASE t \notin TypesOn(st, n)
    <3>1. t \in Type /\ new[t].version = NONE /\ new[t].resources = EmptyResources
      BY <1>3, <2>2 DEF Type
    <3> QED BY <1>6, <3>1 DEF HasNumber
  <2> QED BY <2>1, <2>2
<1>7. Raises(new, prev)
  BY <1>6 DEF Raises
<1> QED BY <1>5, <1>7 DEF new

(* The first snapshot of a node has a number for each of its versions.     *)
LEMMA NewVersioned ==
    ASSUME NONE \notin Nat, NEW st, NEW n, NEW ord
    PROVE  HasNumber(NewSnapshot(st, n, ord))
BY SMT DEF HasNumber, NewSnapshot, EmptySnapshot

(* A rebuild stages snapshots that raise the versions of the served ones,  *)
(* and serves none yet.                                                    *)
LEMMA UpdateVersions ==
    ASSUME NONE \notin Nat, Inv, Versioned, SomeUpdate
    PROVE  Versioned' /\ UNCHANGED snap
<1>1. PICK st \in Store : \E base \in [VS -> Statuses] : Update(st, base)
  BY DEF SomeUpdate
<1>2. PICK base \in [VS -> Statuses] : Update(st, base)
  BY <1>1
<1>3. CASE BuildCancelled(st, base) \/ BuildDuplicate(st, base) \/ BuildFails(st, base)
  <2>1. UNCHANGED <<snap, staged>>
    BY <1>3 DEF BuildCancelled, BuildDuplicate, BuildFails, EndWithoutCommit,
       cacheVars, commitVars
  <2> QED BY <2>1 DEF Versioned
<1>4. CASE BuildStaged(st, base)
  <2>1. PICK ord \in ChainOrders(st) : staged' = Stage(st, ord)
    BY <1>4 DEF BuildStaged
  <2>2. UNCHANGED snap
    BY <1>4 DEF BuildStaged, cacheVars
  <2>3. ASSUME NEW n \in DOMAIN staged'
        PROVE  /\ HasNumber(staged'[n])
               /\ n \in DOMAIN snap => Raises(staged'[n], snap[n])
    <3>1. n \in Node
      BY <2>1 DEF Stage, StageNodes, ActiveNodes
    <3>2. CASE n \in DOMAIN snap
      <4>1. staged'[n] = UpdateSnapshot(st, n, ord, snap[n])
        BY <2>1, <2>3, <3>2 DEF Stage
      <4>2. IsSnapshot(snap[n]) /\ HasNumber(snap[n])
        BY <3>2 DEF Inv, TypeOK, Versioned
      <4> QED BY <3>1, <4>1, <4>2, UpdateVersioned
    <3>3. CASE n \notin DOMAIN snap
      <4>1. staged'[n] = NewSnapshot(st, n, ord)
        BY <2>1, <2>3, <3>3 DEF Stage
      <4> QED BY <3>3, <4>1, NewVersioned
    <3> QED BY <3>2, <3>3
  <2> QED BY <2>2, <2>3 DEF Versioned
<1> QED BY <1>2, <1>3, <1>4 DEF Update, Rebuild

(* Writing one node raises its versions and leaves the others alone.       *)
LEMMA WriteVersions ==
    ASSUME Versioned, NEW n \in Node, NEW s, SetSnapshot(n, s), HasNumber(s),
           n \in DOMAIN snap => Raises(s, snap[n])
    PROVE  /\ \A m \in DOMAIN snap' : HasNumber(snap'[m])
           /\ \A m \in DOMAIN snap : m \in DOMAIN snap' /\ Raises(snap'[m], snap[m])
           /\ \A m \in DOMAIN snap' \ {n} : m \in DOMAIN snap /\ snap'[m] = snap[m]
<1>1. CASE snap' = Put(snap, n, s)
  <2>1. /\ DOMAIN snap' = DOMAIN snap \cup {n} /\ snap'[n] = s
        /\ \A m \in DOMAIN snap \ {n} : snap'[m] = snap[m]
    BY <1>1 DEF Put
  <2> QED BY <2>1 DEF Versioned, Raises
<1>2. CASE snap' = snap
  BY <1>2 DEF Versioned, Raises
<1> QED BY <1>1, <1>2 DEF SetSnapshot

(* Every step keeps the versions comparable and raises those of what it    *)
(* changes.                                                                *)
LEMMA NextVersions ==
    ASSUME NONE \notin Nat, Inv, Versioned, [Next]_vars
    PROVE  /\ Versioned'
           /\ \A n \in DOMAIN snap : Raises(snap'[n], snap[n])
<1>1. CASE \/ ChangeVirtualService \/ ChangeTemplate \/ ChangeListener
           \/ ChangeCluster \/ ChangeSecret \/ ChangePart \/ RebuildSnapshots
  BY <1>1, ChangesAreUpdates, UpdateVersions DEF Inv, Raises
<1>2. ASSUME NEW n \in Node, CommitNode(n)
      PROVE  /\ Versioned'
             /\ \A m \in DOMAIN snap : Raises(snap'[m], snap[m])
  <2>1. /\ n \in DOMAIN staged /\ SetSnapshot(n, staged[n])
        /\ staged' = Drop(staged, n)
    BY <1>2 DEF CommitNode
  <2>2. /\ \A m \in DOMAIN snap' : HasNumber(snap'[m])
        /\ \A m \in DOMAIN snap : m \in DOMAIN snap' /\ Raises(snap'[m], snap[m])
        /\ \A m \in DOMAIN snap' \ {n} : m \in DOMAIN snap /\ snap'[m] = snap[m]
    BY <2>1, WriteVersions DEF Versioned
  <2>3. /\ DOMAIN staged' = DOMAIN staged \ {n}
        /\ \A m \in DOMAIN staged \ {n} : staged'[m] = staged[m]
    BY <2>1 DEF Drop
  <2> QED BY <2>2, <2>3 DEF Versioned
<1>3. ASSUME NEW n \in Node, CleanNode(n)
      PROVE  /\ Versioned'
             /\ \A m \in DOMAIN snap : Raises(snap'[m], snap[m])
  <2>1. SetSnapshot(n, EmptySnapshot) /\ staged' = staged /\ DOMAIN staged = {}
    BY <1>3 DEF CleanNode, EmptyMap
  <2>2. /\ HasNumber(EmptySnapshot)
        /\ n \in DOMAIN snap => Raises(EmptySnapshot, snap[n])
    BY EmptyVersioned DEF Versioned, HasNumber, EmptySnapshot
  <2>3. /\ \A m \in DOMAIN snap' : HasNumber(snap'[m])
        /\ \A m \in DOMAIN snap : m \in DOMAIN snap' /\ Raises(snap'[m], snap[m])
    BY <2>1, <2>2, WriteVersions
  <2> QED BY <2>1, <2>3 DEF Versioned
<1>4. CASE FinishRebuild \/ Shutdown \/ UNCHANGED vars
  <2>1. UNCHANGED <<snap, staged>>
    BY <1>4 DEF FinishRebuild, Shutdown, vars, cacheVars, commitVars
  <2> QED BY <2>1 DEF Versioned, Raises
<1> QED BY <1>1, <1>2, <1>3, <1>4 DEF Next

(* A listener or a route configuration that a node is served never changes *)
(* without its version, through failed and repeated rebuilds.              *)
THEOREM VersionsRaised ==
    ASSUME NONE \notin Nat
    PROVE  Spec => ChangeRaisesVersion
<1>1. Init => Versioned
  BY DEF Init, Versioned, EmptyMap
<1>2. Inv /\ Versioned /\ [Next]_vars => Versioned'
  BY NextVersions
<1>3. Inv /\ Versioned /\ [Next]_vars =>
        [\A n \in DOMAIN snap : \A t \in {"Listener", "Route"} :
            snap'[n][t].resources # snap[n][t].resources
                => snap'[n][t].version # snap[n][t].version]_vars
  BY NextVersions DEF Raises
<1> QED BY <1>1, <1>2, <1>3, InductiveInvariant, PTL DEF Spec, ChangeRaisesVersion

=============================================================================
