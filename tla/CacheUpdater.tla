---------------------------- MODULE CacheUpdater ----------------------------
(***************************************************************************)
(* The CacheUpdater: the resource store and the snapshot cache that Envoy  *)
(* nodes are served from.  Every Apply and Delete takes the write lock mx, *)
(* changes the store and rebuilds the snapshots before it unlocks.  The    *)
(* snapshot cache has a lock of its own, so xDS streams and webhooks see   *)
(* the snapshots of a commit appear one node at a time; the store, the     *)
(* statuses, the used secrets and the domain index are only read under mx. *)
(***************************************************************************)
EXTENDS SnapshotBuild

CONSTANTS
    VSSpecs,       \* specs a VirtualService may be given
    ListenerSpecs, \* specs a Listener may be given
    InitStores,    \* what FillFromKubernetes may load at startup
    MaxVersion     \* bound: no rebuild starts once a version has reached it

ASSUME InputAssumption ==
    /\ VSSpecs \subseteq VSSpec
    /\ ListenerSpecs \subseteq ListenerSpec
    /\ InitStores \subseteq Store
    /\ MaxVersion \in Nat

VARIABLES
    store,       \* c.store: the maps of resources
    status,      \* c.store: the status recorded for each VirtualService
    usedSecrets, \* c.usedSecrets: what the Secret webhook protects
    nodeDomains, \* c.store: domains per node, for the light validator
    snap,        \* the snapshot cache
    nodeIDs,     \* the wrapper's set of node ids it was given snapshots for
    staged,      \* commit phase: snapshots still to be set
    cleanup,     \* commit phase: nodes still to be emptied
    touched,     \* commit phase: all nodes that were staged or to be emptied
    failed,      \* commit phase: some SetSnapshot returned an error
    mx,          \* "free", or "commit" while a rebuild is in its commit phase
    ctxDone,     \* the manager's context is cancelled (shutdown)
    outcome      \* history: how the last rebuild ended

vars == <<store, status, usedSecrets, nodeDomains, snap, nodeIDs, staged,
          cleanup, touched, failed, mx, ctxDone, outcome>>

cacheVars  == <<snap, nodeIDs>>
commitVars == <<staged, cleanup, touched, failed>>
indexVars  == <<usedSecrets, nodeDomains>>

(* Go maps keyed by node id: functions on the nodes that have an entry.    *)
EmptyMap == [n \in {} |-> NONE]

Put(map, n, x) == [m \in DOMAIN map \cup {n} |-> IF m = n THEN x ELSE map[m]]

Drop(map, n) == [m \in DOMAIN map \ {n} |-> map[m]]

Outcomes == {"none", "ok", "cancelled", "duplicate", "staging", "commit"}

Statuses == {"none", "valid", "invalid"}

Init ==
    /\ store \in InitStores
    /\ status = [v \in VS |-> "none"]
    /\ usedSecrets = {}
    /\ nodeDomains = EmptyMap
    /\ snap = EmptyMap
    /\ nodeIDs = {}
    /\ staged = EmptyMap
    /\ cleanup = {}
    /\ touched = {}
    /\ failed = FALSE
    /\ mx = "free"
    /\ ctxDone = FALSE
    /\ outcome = "none"

-----------------------------------------------------------------------------
(* rebuildSnapshots up to the commit, on the store st.  base is the status *)
(* map it starts from.                                                     *)

SetStatuses(st, base, P) ==
    [v \in VS |-> IF v \in P THEN StatusOf(st, v) ELSE base[v]]

(* The VirtualServices the loop may have visited, in the order of a Go map,*)
(* when it returns on a duplicate domain.  A clash that involves a common  *)
(* VirtualService is found after the loop.                                 *)
VisitedAtClash(st) ==
    IF Clash(st, Specific(st))
    THEN {P \in SUBSET Stored(st) :
            \E v \in P : Clash(st, P \cap Specific(st))
                         /\ ~Clash(st, (P \ {v}) \cap Specific(st))}
    ELSE {Stored(st)}

EndWithoutCommit(st, base, P, how) ==
    /\ status' = SetStatuses(st, base, P)
    /\ outcome' = how
    /\ UNCHANGED <<cacheVars, commitVars, indexVars, mx>>

(* A build whose context is cancelled stops at its next check: it has      *)
(* visited some VirtualServices (none, when the context was cancelled      *)
(* before), and may stop between recording one of them as valid and        *)
(* building it.  The manager is shutting down; no update follows.          *)
BuildCancelled(st, base) ==
    /\ ctxDone' = TRUE
    /\ \E P \in SUBSET Stored(st) :
        \/ EndWithoutCommit(st, base, P, "cancelled")
        \/ \E v \in P : EndWithoutCommit(st, [base EXCEPT ![v] = "valid"],
                                        P \ {v}, "cancelled")

BuildDuplicate(st, base) ==
    /\ Clash(st, Stored(st))
    /\ \E P \in VisitedAtClash(st) : EndWithoutCommit(st, base, P, "duplicate")

SecretsOf(st, v) == IF st.vs[v] = NONE THEN {} ELSE st.vs[v].secrets

(* The order of the chains of each VirtualService is drawn once per build. *)
ChainOrders(st) ==
    {ord \in [VS -> UNION {Orders(SecretsOf(st, v)) : v \in VS}] :
        \A v \in VS : ord[v] \in Orders(SecretsOf(st, v))}

(* The nodes to be written: those without a snapshot, and those for which  *)
(* some type changed.                                                      *)
StageNodes(st, ord) ==
    {n \in ActiveNodes(st) :
        n \in DOMAIN snap => HasChanges(st, n, ord, snap[n])}

Stage(st, ord) ==
    [n \in StageNodes(st, ord) |->
        IF n \in DOMAIN snap THEN UpdateSnapshot(st, n, ord, snap[n])
                             ELSE NewSnapshot(st, n, ord)]

Inconsistent(new) == \E n \in DOMAIN new : ~Consistent(new[n])

BuildFails(st, base) ==
    /\ ~Clash(st, Stored(st))
    /\ \E ord \in ChainOrders(st) : HasErrors(st) \/ Inconsistent(Stage(st, ord))
    /\ EndWithoutCommit(st, base, Stored(st), "staging")

BuildStaged(st, base) ==
    /\ ~Clash(st, Stored(st))
    /\ ~HasErrors(st)
    /\ \E ord \in ChainOrders(st) :
        /\ staged' = Stage(st, ord)
        /\ ~Inconsistent(staged')
    /\ cleanup' = nodeIDs \ ActiveNodes(st)
    /\ touched' = DOMAIN staged' \cup cleanup'
    /\ failed' = FALSE
    /\ mx' = "commit"
    /\ status' = SetStatuses(st, base, Stored(st))
    /\ UNCHANGED <<cacheVars, indexVars, outcome>>

Rebuild(st, base) ==
    \/ BuildCancelled(st, base)
    \/ /\ UNCHANGED ctxDone
       /\ \/ BuildDuplicate(st, base)
          \/ BuildFails(st, base)
          \/ BuildStaged(st, base)

Bounded ==
    \A n \in DOMAIN snap :
        \A t \in Type : snap[n][t].version # NONE => snap[n][t].version < MaxVersion

(* What every Apply and Delete does under the write lock: the store becomes *)
(* st and the snapshots are rebuilt.  Applying an equal resource and         *)
(* deleting an unknown one return early; they change nothing.              *)
Update(st, base) ==
    /\ mx = "free"
    /\ ~ctxDone
    /\ Bounded
    /\ store' = st
    /\ Rebuild(st, base)

ApplyVirtualService(v, spec) ==
    /\ store.vs[v] # spec
    /\ Update([store EXCEPT !.vs[v] = spec], status)

DeleteVirtualService(v) ==
    /\ store.vs[v] # NONE
    /\ Update([store EXCEPT !.vs[v] = NONE], [status EXCEPT ![v] = "none"])

ApplyVirtualServiceTemplate(t, l) ==
    /\ store.templates[t] # l
    /\ Update([store EXCEPT !.templates[t] = l], status)

DeleteVirtualServiceTemplate(t) ==
    /\ store.templates[t] # NONE
    /\ Update([store EXCEPT !.templates[t] = NONE], status)

ApplyListener(l, spec) ==
    /\ store.listeners[l] # spec
    /\ Update([store EXCEPT !.listeners[l] = spec], status)

DeleteListener(l) ==
    /\ store.listeners[l] # NONE
    /\ Update([store EXCEPT !.listeners[l] = NONE], status)

ApplyCluster(c, content) ==
    /\ store.clusters[c] # content
    /\ Update([store EXCEPT !.clusters[c] = content], status)

DeleteCluster(c) ==
    /\ store.clusters[c] # NONE
    /\ Update([store EXCEPT !.clusters[c] = NONE], status)

ApplySecret(s, content) ==
    /\ store.secrets[s] # content
    /\ Update([store EXCEPT !.secrets[s] = content], status)

DeleteSecret(s) ==
    /\ store.secrets[s] # NONE
    /\ Update([store EXCEPT !.secrets[s] = NONE], status)

(* HttpFilter and AccessLogConfig.                                         *)
ApplyPart(p, content) ==
    /\ store.parts[p] # content
    /\ Update([store EXCEPT !.parts[p] = content], status)

DeletePart(p) ==
    /\ store.parts[p] # NONE
    /\ Update([store EXCEPT !.parts[p] = NONE], status)

(* RebuildSnapshots, which the manager runs once, before the reconcilers   *)
(* are let through.                                                        *)
RebuildSnapshots ==
    /\ outcome = "none"
    /\ Update(store, status)

-----------------------------------------------------------------------------
(* The commit phase.  The staged nodes come first, in any order.           *)

(* The node is recorded before the snapshot is validated.                  *)
SetSnapshot(n, snapshot) ==
    /\ nodeIDs' = nodeIDs \cup {n}
    /\ IF ValidCache(snapshot)
       THEN snap' = Put(snap, n, snapshot) /\ UNCHANGED failed
       ELSE failed' = TRUE /\ UNCHANGED snap

CommitNode(n) ==
    /\ mx = "commit"
    /\ n \in DOMAIN staged
    /\ SetSnapshot(n, staged[n])
    /\ staged' = Drop(staged, n)
    /\ UNCHANGED <<store, status, indexVars, cleanup, touched, mx, ctxDone,
                   outcome>>

(* Faulty variant: a node without VirtualServices keeps its snapshot.      *)
ForgetNode(n) ==
    /\ mx = "commit"
    /\ staged = EmptyMap
    /\ n \in cleanup
    /\ cleanup' = cleanup \ {n}
    /\ UNCHANGED <<store, status, indexVars, cacheVars, staged, touched, failed,
                   mx, ctxDone, outcome>>

CleanNode(n) ==
    /\ mx = "commit"
    /\ staged = EmptyMap
    /\ n \in cleanup
    /\ SetSnapshot(n, EmptySnapshot)
    /\ cleanup' = cleanup \ {n}
    /\ UNCHANGED <<store, status, indexVars, staged, touched, mx, ctxDone,
                   outcome>>

UsedSecrets(st) == UNION {st.vs[v].secrets : v \in Stored(st)}

(* Faulty variant: only the nodes of this commit get an entry.             *)
NodeDomainsOfCommit(st, nodes) == [n \in nodes |-> DomainsOn(st, n)]

(* Every node with a domain, and every node this commit touched.           *)
NodeDomainsIndex(st, nodes) ==
    [n \in nodes \cup {m \in Node : DomainsOn(st, m) # {}} |-> DomainsOn(st, n)]

CommitOutcome == IF failed THEN "commit" ELSE "ok"

(* The used secrets and the domain index follow a commit without errors;   *)
(* then the lock is released.                                              *)
FinishRebuild ==
    /\ mx = "commit"
    /\ staged = EmptyMap
    /\ cleanup = {}
    /\ outcome' = CommitOutcome
    /\ IF outcome' = "commit"
       THEN UNCHANGED indexVars
       ELSE /\ usedSecrets' = UsedSecrets(store)
            /\ nodeDomains' = NodeDomainsIndex(store, touched)
    /\ mx' = "free"
    /\ touched' = {}
    /\ failed' = FALSE
    /\ UNCHANGED <<store, status, cacheVars, staged, cleanup, ctxDone>>

Shutdown ==
    /\ ~ctxDone
    /\ ctxDone' = TRUE
    /\ UNCHANGED <<store, status, indexVars, cacheVars, commitVars, mx, outcome>>

-----------------------------------------------------------------------------
ChangeVirtualService ==
    \E v \in VS : (\E spec \in VSSpecs : ApplyVirtualService(v, spec))
                  \/ DeleteVirtualService(v)

ChangeTemplate ==
    \E t \in Template : (\E l \in Listener : ApplyVirtualServiceTemplate(t, l))
                        \/ DeleteVirtualServiceTemplate(t)

ChangeListener ==
    \E l \in Listener : (\E spec \in ListenerSpecs : ApplyListener(l, spec))
                        \/ DeleteListener(l)

ChangeCluster ==
    \E c \in Cluster : (\E x \in Content : ApplyCluster(c, x)) \/ DeleteCluster(c)

ChangeSecret ==
    \E s \in Secret : (\E x \in Content : ApplySecret(s, x)) \/ DeleteSecret(s)

ChangePart ==
    \E p \in Part : (\E x \in Content : ApplyPart(p, x)) \/ DeletePart(p)

Next ==
    \/ /\ outcome # "none"
       /\ \/ ChangeVirtualService \/ ChangeTemplate \/ ChangeListener
          \/ ChangeCluster \/ ChangeSecret \/ ChangePart
    \/ RebuildSnapshots
    \/ \E n \in Node : CommitNode(n) \/ CleanNode(n)
    \/ FinishRebuild
    \/ Shutdown

Spec == Init /\ [][Next]_vars

-----------------------------------------------------------------------------
(* Types.                                                                  *)

Names(t) ==
    CASE t = "Listener" -> Listener
      [] t = "Route"    -> VS
      [] t = "Cluster"  -> Cluster
      [] t = "Secret"   -> Secret

IsMap(f) == f = [i \in DOMAIN f |-> f[i]]

IsSnapshot(s) ==
    /\ DOMAIN s = Type
    /\ \A t \in Type :
        /\ s[t].version \in Nat \cup {NONE}
        /\ IsMap(s[t].resources)
        /\ DOMAIN s[t].resources \subseteq Names(t)

(* The variables hold what their Go types can hold; the commit variables   *)
(* are empty while the lock is free.                                       *)
TypeOK ==
    /\ store \in Store
    /\ status \in [VS -> Statuses]
    /\ usedSecrets \subseteq Secret
    /\ DOMAIN nodeDomains \subseteq Node
    /\ \A n \in DOMAIN nodeDomains : nodeDomains[n] \subseteq Domain
    /\ nodeIDs \subseteq Node
    /\ DOMAIN snap \subseteq nodeIDs
    /\ \A n \in DOMAIN snap : IsSnapshot(snap[n])
    /\ DOMAIN staged \subseteq Node
    /\ \A n \in DOMAIN staged : IsSnapshot(staged[n])
    /\ cleanup \subseteq Node
    /\ touched \subseteq Node
    /\ failed \in BOOLEAN
    /\ mx \in {"free", "commit"}
    /\ ctxDone \in BOOLEAN
    /\ outcome \in Outcomes
    /\ mx = "free" => staged = EmptyMap /\ cleanup = {} /\ touched = {} /\ ~failed

-----------------------------------------------------------------------------
(* Safety.                                                                 *)

DisjointDomains(s) ==
    LET rs == s["Route"].resources
    IN  \A v, w \in DOMAIN rs : v # w => rs[v].domains \cap rs[w].domains = {}

(* An Envoy node is never served two route configurations that claim the   *)
(* same domain: the duplicate check of buildSnapshots covers specific and  *)
(* common VirtualServices together, through failed, partial and concurrent *)
(* rebuilds.                                                               *)
ServedDomainsDisjoint == \A n \in DOMAIN snap : DisjointDomains(snap[n])

(* The listeners a node is served have distinct addresses, because         *)
(* validateCache refuses every other snapshot, whatever was staged.        *)
ServedAddressesDistinct ==
    \A n \in DOMAIN snap :
        LET ls == snap[n]["Listener"].resources
        IN  \A k, l \in DOMAIN ls : k # l => ls[k].spec.addr # ls[l].spec.addr

(* No two things a node is served claim the same traffic.                  *)
ServedWithoutClash == ServedDomainsDisjoint /\ ServedAddressesDistinct

ReferencedClusters(s) ==
    (UNION {s["Listener"].resources[l].spec.clusters : l \in DOMAIN s["Listener"].resources})
      \cup (UNION {s["Route"].resources[v].clusters : v \in DOMAIN s["Route"].resources})

ReferencedRoutes(s) ==
    UNION {DOMAIN s["Listener"].resources[l].chains :
            l \in {k \in DOMAIN s["Listener"].resources :
                    s["Listener"].resources[k].spec.kind # "own"}}

ReferencedSecrets(s) ==
    UNION {UNION {Range(s["Listener"].resources[l].chains[v].secrets) :
                    v \in DOMAIN s["Listener"].resources[l].chains} :
            l \in DOMAIN s["Listener"].resources}

Coherent(s) ==
    /\ DOMAIN s["Route"].resources = ReferencedRoutes(s)
    /\ DOMAIN s["Cluster"].resources = ReferencedClusters(s)
    /\ DOMAIN s["Secret"].resources = ReferencedSecrets(s)

(* A served snapshot is closed: the filter chains name exactly the route   *)
(* configurations and secrets in it, and routes and chains name exactly    *)
(* the clusters in it.  Types are versioned and staged one by one, so a    *)
(* type left behind would dangle here.                                     *)
ServedSnapshotsCoherent == \A n \in DOMAIN snap : Coherent(snap[n])

Settled(how) == mx = "free" /\ outcome = how

NodeInSync(n) ==
    IF n \in ActiveNodes(store)
    THEN /\ n \in DOMAIN snap
         /\ \E ord \in ChainOrders(store) : \A t \in Type :
                snap[n][t].resources = Mix(store, n, ord)[t]
    ELSE n \in DOMAIN snap => \A t \in Type : snap[n][t].resources = EmptyResources

(* After a rebuild without error every node is served exactly what the     *)
(* store asks for, and nodes that no VirtualService names any more are     *)
(* served nothing.  Nodes whose resources compare equal are skipped and    *)
(* earlier rebuilds may have failed half way; neither leaves a trace.      *)
InSyncAfterSuccess == Settled("ok") => \A n \in Node : NodeInSync(n)

(* After a rebuild without error the wrapper's node ids are the nodes that *)
(* have a snapshot, although SetSnapshot records the id before it          *)
(* validates.                                                              *)
KnownNodesServed == Settled("ok") => nodeIDs = DOMAIN snap

(* Success means what it says: the nodes are in sync and all known.        *)
AccurateAfterSuccess == InSyncAfterSuccess /\ KnownNodesServed

(* After a rebuild without error the Secret webhook protects every secret  *)
(* that some node is served.                                               *)
ServedSecretsProtected ==
    Settled("ok") => \A n \in DOMAIN snap :
        DOMAIN snap[n]["Secret"].resources \subseteq usedSecrets

ServedDomains(n) ==
    UNION {snap[n]["Route"].resources[v].domains : v \in DOMAIN snap[n]["Route"].resources}

(* After a rebuild without error an entry of the domain index agrees with  *)
(* the snapshot the node is served, and a node without an entry is served  *)
(* no domain: the light validator may read either.                         *)
DomainIndexAgrees ==
    Settled("ok") => \A n \in DOMAIN snap :
        ServedDomains(n) = IF n \in DOMAIN nodeDomains THEN nodeDomains[n] ELSE {}

(* What the webhooks consult after a rebuild without error is what Envoy   *)
(* is served.                                                              *)
WebhooksSeeServed == ServedSecretsProtected /\ DomainIndexAgrees

(* Once a rebuild got past the duplicate check, a VirtualService for       *)
(* specific nodes is recorded as invalid exactly when it cannot be built,  *)
(* whatever else failed in that rebuild.                                   *)
StatusTellsFailure ==
    (mx = "free" /\ outcome \in {"ok", "staging", "commit"}) =>
        \A v \in Stored(store) : ~IsCommon(store.vs[v].nodes) =>
            (status[v] = "invalid" <=> store.vs[v].nodes = {} \/ ~Builds(store, v))

-----------------------------------------------------------------------------
(* Action properties.                                                      *)

(* A listener or route configuration never changes under an unchanged      *)
(* version: Envoy would not be told.                                       *)
ChangeRaisesVersion ==
    [][\A n \in DOMAIN snap : \A t \in {"Listener", "Route"} :
        snap'[n][t].resources # snap[n][t].resources
            => snap'[n][t].version # snap[n][t].version]_vars

-----------------------------------------------------------------------------
(* What the repository says of itself and the code does not do.            *)

(* rebuildSnapshots: "This ensures invalid VS get their error status set   *)
(* in store".  The loop over common VirtualServices records no error.      *)
InvalidStatusRecorded ==
    Settled("staging") => \A v \in Stored(store) :
        ~Builds(store, v) => status[v] = "invalid"

Numbered(n, t) == n \in DOMAIN snap /\ snap[n][t].version # NONE

SameChains(k, l) ==
    /\ k.spec = l.spec
    /\ DOMAIN k.chains = DOMAIN l.chains
    /\ \A v \in DOMAIN k.chains :
        /\ k.chains[v].parts = l.chains[v].parts
        /\ Range(k.chains[v].secrets) = Range(l.chains[v].secrets)

(* Mix: sorting filter chains by name "prevents spurious snapshot version  *)
(* increments caused by non-deterministic map iteration order in Go".  The *)
(* chains of a VirtualService with several secrets have one name.          *)
OrderKeepsVersion ==
    [][\A n \in Node :
        Numbered(n, "Listener")
        /\ snap'[n]["Listener"].version = snap[n]["Listener"].version + 1
            => LET old == snap[n]["Listener"].resources
                   new == snap'[n]["Listener"].resources
               IN  ~(DOMAIN old = DOMAIN new
                     /\ \A l \in DOMAIN old : SameChains(old[l], new[l]))]_vars

(* docs/xds.md: "When a Kubernetes CR changes, the update is propagated to *)
(* Envoy proxies within milliseconds".  A type whose resources changed     *)
(* under the old version is not sent.                                      *)
ChangePropagated ==
    [][\A n \in DOMAIN snap : \A t \in Type :
        snap'[n][t].resources # snap[n][t].resources
            => snap'[n][t].version # snap[n][t].version]_vars

=============================================================================
