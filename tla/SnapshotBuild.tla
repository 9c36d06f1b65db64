--------------------------- MODULE SnapshotBuild ---------------------------
(***************************************************************************)
(* What one call of buildSnapshots computes from the resource store, before *)
(* anything is written: which VirtualServices can be built, which of them   *)
(* land on which node, the resources every node gets, and the snapshot     *)
(* (resources with a version per type) that is staged for it.              *)
(*                                                                         *)
(* A store is a record of partial maps (NONE where the map has no entry):  *)
(*   vs         the VirtualServices                                        *)
(*   templates  VirtualServiceTemplates, reduced to the listener they give *)
(*   listeners  Listeners: address, kind, and the clusters that the filter *)
(*              chains of an "own" listener refer to                       *)
(*   clusters, secrets, parts                                              *)
(*              the content of what VirtualServices refer to; a part is an *)
(*              HttpFilter or AccessLogConfig, which ends up in the filter *)
(*              chain.                                                     *)
(* A resource that is stored but does not unmarshal or validate fails the  *)
(* same builds in the same way as one that is absent, and is not told apart.*)
(***************************************************************************)
EXTENDS Naturals, FiniteSets, Functions

CONSTANTS
    VS,        \* names of VirtualServices
    Node,      \* Envoy node ids
    Domain,    \* domains of virtual hosts
    Listener,  \* names of Listeners
    Template,  \* names of VirtualServiceTemplates
    Cluster,   \* cluster names
    Secret,    \* names of TLS secrets
    Part,      \* names of the other resources a VirtualService refers to
    Addr,      \* host:port pairs
    Content,   \* contents of clusters, secrets and parts
    Eds,       \* the cluster contents that need endpoints from an EDS
    STAR,      \* the node id "*"
    NONE       \* no entry

ASSUME FiniteAssumption == IsFiniteSet(VS) /\ IsFiniteSet(Listener)

Type == {"Listener", "Route", "Cluster", "Secret"}

Kind == {"http", "tls", "own"}

(* The annotation lists node ids, or is a lone "*"; a "*" listed with      *)
(* others is a node id like them.                                          *)
VSSpec ==
    [nodes    : (SUBSET Node) \cup {{STAR}},
     domains  : SUBSET Domain,
     template : Template \cup {NONE},
     listener : Listener \cup {NONE},
     clusters : SUBSET Cluster,
     secrets  : SUBSET Secret,
     parts    : SUBSET Part]

(* Only filter chains of the listener's own refer to clusters.             *)
ListenerSpec ==
    {l \in [addr : Addr, kind : Kind, clusters : SUBSET Cluster] :
        l.kind # "own" => l.clusters = {}}

Store ==
    [vs        : [VS -> VSSpec \cup {NONE}],
     templates : [Template -> Listener \cup {NONE}],
     listeners : [Listener -> ListenerSpec \cup {NONE}],
     clusters  : [Cluster -> Content \cup {NONE}],
     secrets   : [Secret -> Content \cup {NONE}],
     parts     : [Part -> Content \cup {NONE}]]

-----------------------------------------------------------------------------
(* One VirtualService: buildVSResources.                                   *)

Stored(st) == {v \in VS : st.vs[v] # NONE}

Present(map, names) == \A x \in names : map[x] # NONE

(* FillFromTemplate: what the VirtualService sets itself wins.             *)
ListenerOf(st, v) ==
    LET r == st.vs[v]
    IN  IF r.listener = NONE /\ r.template # NONE
        THEN st.templates[r.template]
        ELSE r.listener

KindOf(st, v) == st.listeners[ListenerOf(st, v)].kind

(* A listener with filter chains of its own takes no virtual host, secrets,*)
(* filters or routes from the VirtualService; every other one needs a      *)
(* virtual host, and a TLS configuration exactly when it is a TLS listener.*)
BuildsOnOwnChains(st, v) ==
    LET r == st.vs[v]
    IN  /\ r.domains = {} /\ r.clusters = {} /\ r.secrets = {} /\ r.parts = {}
        /\ Present(st.clusters, st.listeners[ListenerOf(st, v)].clusters)

BuildsOnVirtualHost(st, v) ==
    LET r == st.vs[v]
    IN  /\ r.domains # {}
        /\ KindOf(st, v) = "tls" <=> r.secrets # {}
        /\ Present(st.parts, r.parts)
        /\ Present(st.clusters, r.clusters)
        /\ Present(st.secrets, r.secrets)

Builds(st, v) ==
    LET r == st.vs[v]
    IN  /\ r.template # NONE => st.templates[r.template] # NONE
        /\ ListenerOf(st, v) # NONE
        /\ st.listeners[ListenerOf(st, v)] # NONE
        /\ IF KindOf(st, v) = "own"
           THEN BuildsOnOwnChains(st, v)
           ELSE BuildsOnVirtualHost(st, v)

HasRoute(st, v) == KindOf(st, v) # "own"

ClustersOf(st, v) ==
    IF HasRoute(st, v) THEN st.vs[v].clusters
                       ELSE st.listeners[ListenerOf(st, v)].clusters

-----------------------------------------------------------------------------
(* Placing the VirtualServices on nodes.                                   *)

IsCommon(nodes) == nodes = {STAR}

Specific(st) ==
    {v \in Stored(st) : st.vs[v].nodes # {} /\ ~IsCommon(st.vs[v].nodes)}

Common(st) == {v \in Stored(st) : IsCommon(st.vs[v].nodes)}

(* The nodes the mixer knows when the common VirtualServices are added.    *)
ActiveNodes(st) ==
    {n \in Node : \E v \in Specific(st) : Builds(st, v) /\ n \in st.vs[v].nodes}

On(st, n) ==
    {v \in Specific(st) : Builds(st, v) /\ n \in st.vs[v].nodes}
      \cup {v \in Common(st) : Builds(st, v) /\ n \in ActiveNodes(st)}

(* Faulty variant: common VirtualServices are not compared.                *)
ClashOfSpecific(st, V) ==
    \E n \in Node : \E v, w \in V \cap On(st, n) \cap Specific(st) :
        v # w /\ st.vs[v].domains \cap st.vs[w].domains # {}

(* Do VirtualServices of V claim one domain on one node?                   *)
Clash(st, V) ==
    \E n \in Node : \E v, w \in V \cap On(st, n) :
        v # w /\ st.vs[v].domains \cap st.vs[w].domains # {}

HasErrors(st) ==
    \E v \in Stored(st) : st.vs[v].nodes = {} \/ ~Builds(st, v)

(* Faulty variant: no status for a VirtualService without node ids.        *)
StatusOfBuild(st, v) ==
    IF v \in Specific(st) /\ ~Builds(st, v) THEN "invalid" ELSE "valid"

(* The status of v once the loop over the VirtualServices has reached it.  *)
(* For a common VirtualService the loop only records "valid".              *)
StatusOf(st, v) ==
    IF \/ st.vs[v].nodes = {}
       \/ v \in Specific(st) /\ ~Builds(st, v)
    THEN "invalid" ELSE "valid"

-----------------------------------------------------------------------------
(* The mixer: resources of a node, by type and name.                       *)

(* BuildFilterChains makes one chain per secret, in the order of a Go map, *)
(* all named after the VirtualService; sorting by name keeps that order.   *)
Orders(S) ==
    {f \in [1..Cardinality(S) -> S] : Range(f) = S}

ChainOf(st, v, order) ==
    [secrets |-> order, parts |-> [p \in st.vs[v].parts |-> st.parts[p]]]

ListenersOn(st, n, ord) ==
    [l \in {ListenerOf(st, v) : v \in On(st, n)} |->
        [spec   |-> st.listeners[l],
         chains |-> [v \in {w \in On(st, n) : ListenerOf(st, w) = l} |->
                        ChainOf(st, v, ord[v])]]]

RoutesOn(st, n) ==
    [v \in {w \in On(st, n) : HasRoute(st, w)} |->
        [domains |-> st.vs[v].domains, clusters |-> st.vs[v].clusters]]

ClustersOn(st, n) ==
    [c \in UNION {ClustersOf(st, v) : v \in On(st, n)} |-> st.clusters[c]]

SecretsOn(st, n) ==
    [s \in UNION {st.vs[v].secrets : v \in On(st, n)} |-> st.secrets[s]]

(* The resources of each type, and the length of the list that the mixer   *)
(* holds them in: a cluster or secret is listed once for every             *)
(* VirtualService that brings it.                                          *)
Mix(st, n, ord) ==
    [t \in Type |->
        CASE t = "Listener" -> ListenersOn(st, n, ord)
          [] t = "Route"    -> RoutesOn(st, n)
          [] t = "Cluster"  -> ClustersOn(st, n)
          [] t = "Secret"   -> SecretsOn(st, n)]

MixLength(st, n, t) ==
    CASE t = "Cluster" ->
            Cardinality({b \in On(st, n) \X Cluster : b[2] \in ClustersOf(st, b[1])})
      [] t = "Secret" ->
            Cardinality({b \in On(st, n) \X Secret : b[2] \in st.vs[b[1]].secrets})
      [] t = "Route" -> Cardinality({v \in On(st, n) : HasRoute(st, v)})
      [] t = "Listener" -> Cardinality({ListenerOf(st, v) : v \in On(st, n)})

(* Only nodes that some route, cluster or secret was added for get an      *)
(* entry for those three types.                                            *)
TypesOn(st, n) ==
    IF \E v \in On(st, n) : HasRoute(st, v) \/ ClustersOf(st, v) # {}
    THEN Type ELSE {"Listener"}

-----------------------------------------------------------------------------
(* Snapshots.  Version NONE is the empty string.                           *)

EmptyResources == [x \in {} |-> NONE]

EmptySnapshot == [t \in Type |-> [version |-> NONE, resources |-> EmptyResources]]

NewSnapshot(st, n, ord) ==
    [t \in Type |->
        IF t \in TypesOn(st, n)
        THEN [version |-> 1, resources |-> Mix(st, n, ord)[t]]
        ELSE EmptySnapshot[t]]

(* Faulty variant: resources are compared by name only.                    *)
NamesChanged(st, n, ord, prev, t) ==
    LET old == prev[t].resources
        new == Mix(st, n, ord)[t]
    IN  \/ Cardinality(DOMAIN old) # MixLength(st, n, t)
        \/ \E x \in DOMAIN new : x \notin DOMAIN old

ResourcesChanged(st, n, ord, prev, t) ==
    LET old == prev[t].resources
        new == Mix(st, n, ord)[t]
    IN  \/ Cardinality(DOMAIN old) # MixLength(st, n, t)
        \/ \E x \in DOMAIN new : x \notin DOMAIN old \/ old[x] # new[x]

HasChanges(st, n, ord, prev) ==
    \E t \in TypesOn(st, n) : ResourcesChanged(st, n, ord, prev, t)

NextVersion(version, changed) ==
    LET known == IF version = NONE THEN 0 ELSE version
    IN  IF changed THEN known + 1 ELSE known

(* Faulty variant: a type that the build has no entry for is carried over. *)
UpdateBuiltTypes(st, n, ord, prev) ==
    [t \in Type |->
        IF t \in TypesOn(st, n)
        THEN [version   |-> NextVersion(prev[t].version,
                                        ResourcesChanged(st, n, ord, prev, t)),
              resources |-> Mix(st, n, ord)[t]]
        ELSE prev[t]]

UpdateSnapshot(st, n, ord, prev) ==
    [t \in Type |->
        IF t \in TypesOn(st, n)
        THEN [version   |-> NextVersion(prev[t].version,
                                        ResourcesChanged(st, n, ord, prev, t)),
              resources |-> Mix(st, n, ord)[t]]
        ELSE EmptySnapshot[t]]

(* Snapshot.Consistent: no endpoints are ever put into a snapshot, so a    *)
(* cluster that refers to an EDS has a dangling reference.                 *)
Consistent(snapshot) ==
    \A c \in DOMAIN snapshot["Cluster"].resources :
        snapshot["Cluster"].resources[c] \notin Eds

(* validateCache: no two listeners of a snapshot share an address.         *)
ValidCache(snapshot) ==
    LET ls == snapshot["Listener"].resources
    IN  \A k, l \in DOMAIN ls : ls[k].spec.addr = ls[l].spec.addr => k = l

DomainsOn(st, n) == UNION {st.vs[v].domains : v \in On(st, n)}

=============================================================================
