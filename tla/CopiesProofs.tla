---------------------------- MODULE CopiesProofs ----------------------------
(***************************************************************************)
(* What is handed out of the store: copies to dry runs and objects to      *)
(* readers, and clusters to rebuilds through their global cache.           *)
(***************************************************************************)
EXTENDS StoreCopies, ClusterCaching, TLAPS

(* Steps are first-order reasoning unless they name another prover.        *)
USE Zenon

-----------------------------------------------------------------------------
(* Clusters.  What a key has is a generation of each cluster; which life   *)
(* of the cluster it was of, only the history tells.  The invariant speaks *)
(* of a history H: for each cluster the objects that Kubernetes has had.   *)

ClusterView == [clusters : [Cluster -> Object \cup {NONE}], content : Referrers]

ClusterBusy == [step : {"lookup", "build"}, view : ClusterView, since : Nat]

ClusterTyped ==
    /\ api \in [Cluster -> Object \cup {NONE}]
    /\ created \in [Cluster -> 0 .. MaxGenerations]
    /\ clusterStore \in ClusterView
    /\ clusterClock \in Nat
    /\ replaced \in [Cluster -> Nat \cup {NONE}]
    /\ clusterRun \in [ClusterBuilds!Builder -> ClusterBusy \cup {ClusterBuilds!Idle}]
    /\ \A b \in ClusterBuilds!Builder : clusterRun[b] # ClusterBuilds!Idle =>
        /\ clusterRun[b].since <= clusterClock
        /\ clusterClock <= clusterRun[b].since + BuildTime
    /\ clusterRun["updater"] # ClusterBuilds!Idle => clusterRun["updater"].view = clusterStore

(* The store has the life of the cluster that o is of, or lost it not      *)
(* longer than a build before t.                                           *)
Alive(c, o, t) ==
    \/ clusterStore.clusters[c] # NONE /\ clusterStore.clusters[c].uid = o.uid
    \/ replaced[c] # NONE /\ t <= replaced[c] + BuildTime

(* A life and a generation have one spec, and what comes next is new.      *)
History(H) ==
    /\ H \in [Cluster -> SUBSET Object]
    /\ \A c \in Cluster : \A o, p \in H[c] :
          o.uid = p.uid /\ o.generation = p.generation => o.spec = p.spec
    /\ \A c \in Cluster : \A o \in H[c] :
          /\ o.uid <= created[c]
          /\ api[c] # NONE /\ o.uid = api[c].uid => o.generation <= api[c].generation
    /\ \A c \in Cluster : api[c] # NONE => api[c] \in H[c]
    /\ \A c \in Cluster : clusterStore.clusters[c] # NONE => clusterStore.clusters[c] \in H[c]

(* What is being built from was the store's when the build began.          *)
BuiltFrom(H) ==
    \A b \in ClusterBuilds!Builder : clusterRun[b] # ClusterBuilds!Idle =>
        \A c \in Cluster : clusterRun[b].view.clusters[c] # NONE =>
            /\ clusterRun[b].view.clusters[c] \in H[c]
            /\ Alive(c, clusterRun[b].view.clusters[c], clusterRun[b].since + BuildTime)

(* An entry has the spec of an object of each generation in its key.       *)
EntryOf(H, k, e) ==
    /\ k[1] \in Referrers
    /\ DOMAIN k[2] = Names[k[1]]
    /\ e \in [value : [Names[k[1]] -> ClusterSpecs], ts : Nat]
    /\ e.ts <= clusterClock
    /\ \A c \in Names[k[1]] : \E o \in H[c] :
          /\ o.generation = k[2][c]
          /\ o.spec = e.value[c]
          /\ Alive(c, o, e.ts)

ClusterEntries(H) == \A k \in DOMAIN clusterCache : EntryOf(H, k, clusterCache[k])

ClusterInvOf(H) ==
    ClusterTyped /\ History(H) /\ BuiltFrom(H) /\ ClusterEntries(H) /\ ClustersCurrent

ClusterInv == \E H : ClusterInvOf(H)

(* There are two builders, and an idle one is not busy.                    *)
LEMMA ClusterIdle ==
    /\ ClusterBuilds!Builder = {"updater", "webhook"}
    /\ ClusterBuilds!Idle \notin ClusterBusy
    /\ ClusterBuilds!Idle.step = "idle"
BY DEF ClusterBuilds!Builder, ClusterBuilds!Idle, ClusterBusy

(* At the start nothing is cached and nobody builds.                       *)
LEMMA ClusterInitInv == ClusterInit => ClusterInv
<1> SUFFICES ASSUME ClusterInit PROVE ClusterInv
  OBVIOUS
<1> DEFINE H == [c \in Cluster |-> {}]
<1>1. /\ clusterCache = [k \in {} |-> NONE]
      /\ clusterRun = [b \in ClusterBuilds!Builder |-> ClusterBuilds!Idle]
      /\ clusterOutcome = "none" /\ clusterClock = 0
      /\ api = [c \in Cluster |-> NONE] /\ created = [c \in Cluster |-> 0]
      /\ replaced = [c \in Cluster |-> NONE]
      /\ \E r \in Referrers : clusterStore = [clusters |-> api, content |-> r]
  BY DEF ClusterInit, ClusterBuilds!Init, ClusterBuilds!Cache!Empty
<1>2. ClusterTyped
  BY <1>1, ClusterIdle, WritesAssumption, SMT DEF ClusterTyped, ClusterView
<1>3. History(H)
  BY <1>1, SMT DEF History
<1>4. BuiltFrom(H)
  BY <1>1 DEF BuiltFrom
<1>5. ClusterEntries(H)
  BY <1>1 DEF ClusterEntries
<1>6. ClustersCurrent
  BY <1>1 DEF ClustersCurrent, NamedClustersServed, GenerationsTellSpecs, ClusterBuilds!Built
<1> HIDE DEF H
<1>7. ClusterInvOf(H)
  BY <1>2, <1>3, <1>4, <1>5, <1>6 DEF ClusterInvOf
<1> QED BY <1>7 DEF ClusterInv

(* What the end of a build leaves of the builders.                         *)
LEMMA ClusterFinished ==
    ASSUME NEW H, ClusterTyped, History(H), BuiltFrom(H), NEW b \in ClusterBuilds!Builder,
           clusterRun' = [clusterRun EXCEPT ![b] = ClusterBuilds!Idle],
           UNCHANGED <<api, created, clusterStore, replaced, clusterClock>>
    PROVE  ClusterTyped' /\ History(H)' /\ BuiltFrom(H)'
<1>1. ClusterTyped'
  BY ClusterIdle DEF ClusterTyped
<1>2. History(H)'
  BY DEF History
<1>3. BuiltFrom(H)'
  BY ClusterIdle DEF BuiltFrom, ClusterTyped, Alive
<1> QED BY <1>1, <1>2, <1>3

(* What is served stays current while the store, the updater and what it   *)
(* served stay.                                                            *)
LEMMA ServedStays ==
    ASSUME ClustersCurrent,
           clusterRun'["updater"] = clusterRun["updater"],
           UNCHANGED <<clusterStore, replaced, clustersServed, clusterOutcome>>
    PROVE  ClustersCurrent'
BY DEF ClustersCurrent, NamedClustersServed, GenerationsTellSpecs, ClusterBuilds!Built

(* A failed build and one that is under way promise nothing.               *)
LEMMA NothingServed ==
    ASSUME clusterRun'["updater"] # ClusterBuilds!Idle \/ clusterOutcome' # "ok"
    PROVE  ClustersCurrent'
BY DEF ClustersCurrent, NamedClustersServed, GenerationsTellSpecs, ClusterBuilds!Built

(* A look-up that hits finds specs of the generations that are stored: the *)
(* stored ones, unless the life they are of was lost.                      *)
LEMMA ClusterLookUpInv ==
    ASSUME NEW H, ClusterInvOf(H), NEW b \in ClusterBuilds!Builder, ClusterLookUp(b)
    PROVE  ClusterInvOf(H)'
<1> DEFINE key == ClusterKey(clusterRun[b].view)
<1> USE DEF ClusterInvOf
<1>1. /\ clusterRun[b].step = "lookup"
      /\ UNCHANGED <<api, created, replaced, clusterStore, clusterCache, clusterClock>>
  BY DEF ClusterLookUp, ClusterBuilds!LookUp
<1>2. clusterRun[b] \in ClusterBusy /\ clusterRun[b] # ClusterBuilds!Idle
  BY <1>1, ClusterIdle DEF ClusterTyped
<1>3. ClusterEntries(H)'
  BY <1>1, SMT DEF ClusterEntries, EntryOf, Alive
<1>4. CASE ClusterBuilds!Cache!Fresh(key)
  <2>1. /\ key \in DOMAIN clusterCache /\ clusterClock <= clusterCache[key].ts + TTL
        /\ clusterRun' = [clusterRun EXCEPT ![b] = ClusterBuilds!Idle]
        /\ IF b = "updater"
           THEN IF clusterCache[key].value = NONE
                THEN clusterOutcome' = "failed" /\ UNCHANGED clustersServed
                ELSE /\ clusterOutcome' = "ok"
                     /\ clustersServed' = [result |-> clusterCache[key].value, at |-> clusterClock]
           ELSE UNCHANGED <<clustersServed, clusterOutcome>>
    BY <1>4 DEF ClusterLookUp, ClusterBuilds!LookUp, ClusterBuilds!Finish,
                ClusterBuilds!Cache!Fresh
  <2>2. ClusterTyped' /\ History(H)' /\ BuiltFrom(H)'
    BY <1>1, <2>1, ClusterFinished
  <2>3. ASSUME b = "updater" PROVE ClustersCurrent'
    <3> DEFINE e == clusterCache[key]
               r == clusterStore.content
               g == WriteClusterGenerations(clusterStore)
    <3>1. key = <<r, g>>
      BY <1>2, <2>3 DEF ClusterTyped, ClusterKey
    <3>2. key[1] = r /\ key[2] = g
      BY <3>1, SMT
    <3>3. EntryOf(H, key, e)
      BY <2>1 DEF ClusterEntries
    <3> HIDE DEF e, key
    <3>4. /\ r \in Referrers /\ DOMAIN g = Names[r]
          /\ e.value \in [Names[r] -> ClusterSpecs] /\ e.ts \in Nat
          /\ \A c \in Names[r] : \E o \in H[c] :
                o.generation = g[c] /\ o.spec = e.value[c] /\ Alive(c, o, e.ts)
      BY <3>2, <3>3 DEF EntryOf
    <3>5. clustersServed' = [result |-> e.value, at |-> clusterClock]
      BY <2>1, <2>3, <3>4, ClustersAssumption DEF e
    <3>6. Stored(clusterStore) = Names[r]
      BY <3>4 DEF WriteClusterGenerations
    <3>7. ASSUME NEW c \in Names[r]
          PROVE  \/ /\ clusterStore.clusters[c] # NONE
                    /\ e.value[c] = clusterStore.clusters[c].spec
                 \/ replaced[c] # NONE /\ clusterClock <= replaced[c] + TTL + BuildTime
      <4>1. c \in Cluster
        BY <3>4, NamesAssumption
      <4>2. clusterStore.clusters[c] # NONE /\ g[c] = clusterStore.clusters[c].generation
        BY <3>6 DEF Stored, WriteClusterGenerations
      <4>3. PICK o \in H[c] : o.generation = g[c] /\ o.spec = e.value[c] /\ Alive(c, o, e.ts)
        BY <3>4
      <4>4. CASE clusterStore.clusters[c].uid = o.uid
        <5>1. clusterStore.clusters[c] \in H[c]
          BY <4>1, <4>2 DEF History
        <5> QED BY <4>1, <4>2, <4>3, <4>4, <5>1, SMTT(30) DEF History
      <4>5. CASE replaced[c] # NONE /\ e.ts <= replaced[c] + BuildTime
        <5>1. clusterClock <= e.ts + TTL
          BY <2>1 DEF e
        <5>2. clusterClock \in Nat /\ replaced[c] \in Nat /\ TTL \in Nat /\ BuildTime \in Nat
          BY <4>1, <4>5, TimesAssumption DEF ClusterTyped
        <5> QED BY <3>4, <4>5, <5>1, <5>2, SMTT(30)
      <4> QED BY <4>3, <4>4, <4>5 DEF Alive
    <3>8. DOMAIN clustersServed'.result = Names[r] /\ clustersServed'.at = clusterClock
      BY <3>4, <3>5
    <3>9. NamedClustersServed'
      BY <1>1, <3>8 DEF NamedClustersServed
    <3>10. GenerationsTellSpecs'
      BY <1>1, <3>5, <3>7, <3>8 DEF GenerationsTellSpecs
    <3> QED BY <3>9, <3>10 DEF ClustersCurrent
  <2>4. ASSUME b # "updater" PROVE ClustersCurrent'
    BY <1>1, <2>1, <2>4, ClusterIdle, ServedStays DEF ClusterTyped
  <2> QED BY <1>3, <2>2, <2>3, <2>4
<1>5. CASE ~ClusterBuilds!Cache!Fresh(key)
  <2>1. /\ clusterRun' = [clusterRun EXCEPT ![b].step = "build"]
        /\ UNCHANGED <<clustersServed, clusterOutcome>>
    BY <1>5 DEF ClusterLookUp, ClusterBuilds!LookUp
  <2>2. /\ clusterRun'[b] \in ClusterBusy
        /\ clusterRun'[b].view = clusterRun[b].view /\ clusterRun'[b].since = clusterRun[b].since
        /\ \A x \in ClusterBuilds!Builder \ {b} : clusterRun'[x] = clusterRun[x]
        /\ clusterRun' = [x \in ClusterBuilds!Builder |-> clusterRun'[x]]
    BY <1>2, <2>1 DEF ClusterTyped, ClusterBusy
  <2>3. ClusterTyped'
    <3>1. clusterRun' \in [ClusterBuilds!Builder -> ClusterBusy \cup {ClusterBuilds!Idle}]
      BY <2>2 DEF ClusterTyped
    <3> QED BY <1>1, <1>2, <2>2, <3>1, ClusterIdle DEF ClusterTyped
  <2>4. History(H)'
    BY <1>1 DEF History
  <2>5. BuiltFrom(H)'
    BY <1>1, <1>2, <2>2, SMT DEF BuiltFrom, Alive
  <2>6. ClustersCurrent'
    <3>1. CASE b = "updater"
      BY <1>2, <2>2, <3>1, ClusterIdle, NothingServed
    <3>2. CASE b # "updater"
      BY <1>1, <2>1, <2>2, <3>2, ClusterIdle, ServedStays
    <3> QED BY <3>1, <3>2
  <2> QED BY <1>3, <2>3, <2>4, <2>5, <2>6
<1> QED BY <1>4, <1>5

(* A build stores the specs of what it has read.                           *)
LEMMA ClusterBuildInv ==
    ASSUME NEW H, ClusterInvOf(H), NEW b \in ClusterBuilds!Builder, ClusterBuild(b)
    PROVE  ClusterInvOf(H)'
<1> DEFINE view == clusterRun[b].view
           key == ClusterKey(view)
           found == GetClustersByNames(view)
<1> USE DEF ClusterInvOf
<1>1. /\ clusterRun[b].step = "build"
      /\ clusterRun' = [clusterRun EXCEPT ![b] = ClusterBuilds!Idle]
      /\ UNCHANGED <<api, created, replaced, clusterStore, clusterClock>>
  BY DEF ClusterBuild, ClusterBuilds!Build, ClusterBuilds!Finish
<1>2. /\ clusterRun[b] \in ClusterBusy /\ clusterRun[b] # ClusterBuilds!Idle
      /\ view \in ClusterView
  BY <1>1, ClusterIdle DEF ClusterTyped, ClusterBusy
<1>3. ClusterTyped' /\ History(H)' /\ BuiltFrom(H)'
  BY <1>1, ClusterFinished
<1>4. CASE found = NONE
  <2>1. /\ UNCHANGED <<clusterCache, clustersServed>>
        /\ IF b = "updater" THEN clusterOutcome' = "failed" ELSE UNCHANGED clusterOutcome
    BY <1>4 DEF ClusterBuild, ClusterBuilds!Build, ClusterBuilds!Finish
  <2>2. ClusterEntries(H)'
    BY <1>1, <2>1, SMT DEF ClusterEntries, EntryOf, Alive
  <2>3. ClustersCurrent'
    <3>1. CASE b = "updater"
      BY <2>1, <3>1, NothingServed
    <3>2. CASE b # "updater"
      BY <1>1, <2>1, <3>2, ClusterIdle, ServedStays DEF ClusterTyped
    <3> QED BY <3>1, <3>2
  <2> QED BY <1>3, <2>2, <2>3
<1>5. CASE found # NONE
  <2>4. IF b = "updater"
        THEN clusterOutcome' = "ok" /\ clustersServed' = [result |-> found, at |-> clusterClock]
        ELSE UNCHANGED <<clustersServed, clusterOutcome>>
    BY <1>5 DEF ClusterBuild, ClusterBuilds!Build, ClusterBuilds!Finish
  <2>5. ClusterBuilds!Cache!Store(key, found)
    BY <1>5 DEF ClusterBuild, ClusterBuilds!Build
  <2>6. PICK kept \in SUBSET (DOMAIN clusterCache \ {key}) :
            clusterCache' = [x \in kept \cup {key} |->
                IF x = key THEN [value |-> found, ts |-> clusterClock] ELSE clusterCache[x]]
    BY <2>5 DEF ClusterBuilds!Cache!Store
  <2> HIDE DEF view
  <2>1. /\ Stored(view) = Names[view.content]
        /\ found = [c \in Names[view.content] |-> view.clusters[c].spec]
    BY <1>5 DEF GetClustersByNames
  <2>2. /\ view.content \in Referrers /\ Names[view.content] \subseteq Cluster
        /\ \A c \in Names[view.content] : view.clusters[c] \in Object
    BY <1>2, <2>1, NamesAssumption DEF ClusterView, Stored
  <2>3. found \in [Names[view.content] -> ClusterSpecs]
    BY <2>1, <2>2 DEF Object
  <2>6a. /\ clusterRun[b].since \in Nat /\ clusterClock \in Nat /\ BuildTime \in Nat
         /\ clusterClock <= clusterRun[b].since + BuildTime
         /\ \A c \in Cluster : replaced[c] \in Nat \cup {NONE}
    BY <1>2, TimesAssumption DEF ClusterTyped, ClusterBusy
  <2>7. ClusterEntries(H)'
    <3> DEFINE e == [value |-> found, ts |-> clusterClock]
    <3>1. key[1] = view.content /\ key[2] = WriteClusterGenerations(view)
      BY DEF ClusterKey
    <3>2. DOMAIN key[2] = Names[key[1]]
      BY <2>1, <3>1 DEF WriteClusterGenerations
    <3>3. e \in [value : [Names[key[1]] -> ClusterSpecs], ts : Nat] /\ e.ts <= clusterClock
      BY <2>3, <3>1, SMT DEF ClusterTyped
    <3>4. ASSUME NEW c \in Names[key[1]]
          PROVE  \E o \in H[c] : /\ o.generation = key[2][c]
                                  /\ o.spec = e.value[c]
                                  /\ Alive(c, o, e.ts)
      <4>1. c \in Cluster /\ view.clusters[c] # NONE /\ c \in Stored(view)
        BY <2>1, <2>2, <3>1 DEF Stored
      <4>2. /\ view.clusters[c] \in H[c]
            /\ Alive(c, view.clusters[c], clusterRun[b].since + BuildTime)
        BY <1>2, <4>1 DEF BuiltFrom, view
      <4>3. Alive(c, view.clusters[c], clusterClock)
        BY <2>6a, <4>1, <4>2, SMTT(30) DEF Alive
      <4>4. /\ view.clusters[c].generation = key[2][c] /\ view.clusters[c].spec = e.value[c]
        BY <2>1, <3>1, <4>1 DEF WriteClusterGenerations
      <4> QED BY <4>2, <4>3, <4>4
    <3>5. EntryOf(H, key, e)
      BY <2>2, <3>1, <3>2, <3>3, <3>4 DEF EntryOf
    <3> HIDE DEF e, key, found
    <3>6. ASSUME NEW k \in kept \cup {key} PROVE EntryOf(H, k, clusterCache'[k])
      <4>1. CASE k = key
        BY <2>6, <3>5, <4>1 DEF e
      <4>2. CASE k # key
        BY <2>6, <4>2 DEF ClusterEntries
      <4> QED BY <4>1, <4>2
    <3>7. DOMAIN clusterCache' = kept \cup {key}
      BY <2>6
    <3>8. \A k \in kept \cup {key} : EntryOf(H, k, clusterCache[k])'
      <4> TAKE k \in kept \cup {key}
      <4>1. PICK x : x = clusterCache'[k]
        OBVIOUS
      <4>2. EntryOf(H, k, x)
        BY <3>6, <4>1
      <4>3. \A c, o, u : Alive(c, o, u)' <=> Alive(c, o, u)
        BY <1>1 DEF Alive
      <4>4. EntryOf(H, k, x)'
        BY <1>1, <4>2, <4>3 DEF EntryOf
      <4> QED BY <4>1, <4>4 DEF EntryOf
    <3> QED BY <3>7, <3>8 DEF ClusterEntries
  <2>8. ClustersCurrent'
    <3>1. CASE b = "updater"
      <4>1. view = clusterStore
        BY <1>2, <3>1 DEF ClusterTyped, view
      <4>2. /\ clustersServed'.result = [c \in Names[clusterStore.content] |->
                                             clusterStore.clusters[c].spec]
            /\ Stored(clusterStore) = Names[clusterStore.content]
        BY <2>1, <2>4, <3>1, <4>1, SMT
      <4>3. NamedClustersServed'
        BY <1>1, <4>2 DEF NamedClustersServed
      <4>4. GenerationsTellSpecs'
        BY <1>1, <4>2 DEF GenerationsTellSpecs, Stored
      <4> QED BY <4>3, <4>4 DEF ClustersCurrent
    <3>2. CASE b # "updater"
      BY <1>1, <2>4, <3>2, ClusterIdle, ServedStays DEF ClusterTyped
    <3> QED BY <3>1, <3>2
  <2> QED BY <1>3, <2>7, <2>8
<1> QED BY <1>4, <1>5

(* Lives that the store has stay, or are lost from now on.                 *)
LivesKept ==
    \A c \in Cluster, o \in Object, t \in Nat :
        t <= clusterClock + BuildTime /\ Alive(c, o, t) => Alive(c, o, t)'

(* A change of the store begins a build of it by the updater.              *)
LEMMA ClusterChangeInv ==
    ASSUME NEW H, ClusterInvOf(H), NEW st \in ClusterView, ClusterBuilds!Change(st),
           \A c \in Cluster : st.clusters[c] # NONE => st.clusters[c] \in H[c],
           LivesKept, replaced' \in [Cluster -> Nat \cup {NONE}],
           UNCHANGED <<api, created>>
    PROVE  ClusterInvOf(H)'
<1> USE DEF ClusterInvOf
<1> DEFINE busy == [step |-> "lookup", view |-> st, since |-> clusterClock]
<1>1. /\ clusterStore' = st /\ clusterRun' = [clusterRun EXCEPT !["updater"] = busy]
      /\ UNCHANGED <<clusterCache, clustersServed, clusterOutcome, clusterClock>>
  BY DEF ClusterBuilds!Change, ClusterBuilds!Start
<1>2. busy \in ClusterBusy /\ busy # ClusterBuilds!Idle
  BY ClusterIdle, SMT DEF ClusterBusy, ClusterTyped
<1>3. busy.view = st /\ busy.since = clusterClock
  OBVIOUS
<1> HIDE DEF busy
<1>4. /\ clusterRun'["updater"] = busy /\ clusterRun'["webhook"] = clusterRun["webhook"]
      /\ clusterRun' \in [ClusterBuilds!Builder -> ClusterBusy \cup {ClusterBuilds!Idle}]
  BY <1>1, <1>2, ClusterIdle DEF ClusterTyped
<1>5. ClusterTyped'
  BY <1>1, <1>3, <1>4, ClusterIdle, TimesAssumption, SMT DEF ClusterTyped
<1>6. History(H)'
  BY <1>1 DEF History
<1>7. BuiltFrom(H)'
  <2> SUFFICES ASSUME NEW b \in ClusterBuilds!Builder, clusterRun'[b] # ClusterBuilds!Idle,
                      NEW c \in Cluster, clusterRun'[b].view.clusters[c] # NONE
               PROVE  /\ clusterRun'[b].view.clusters[c] \in H[c]
                      /\ Alive(c, clusterRun[b].view.clusters[c], clusterRun[b].since + BuildTime)'
    BY DEF BuiltFrom
  <2>1. CASE b = "updater"
    BY <1>1, <1>3, <1>4, <2>1 DEF Alive
  <2>2. CASE b = "webhook"
    <3> DEFINE o == clusterRun[b].view.clusters[c]
               t == clusterRun[b].since + BuildTime
    <3>1. clusterRun'[b] = clusterRun[b] /\ clusterRun[b] # ClusterBuilds!Idle /\ o # NONE
      BY <1>4, <2>2
    <3>2. o \in H[c] /\ Alive(c, o, t)
      BY <3>1 DEF BuiltFrom
    <3>3. o \in Object
      BY <3>2 DEF History
    <3>4. t \in Nat /\ t <= clusterClock + BuildTime
      BY <3>1, TimesAssumption, SMTT(30) DEF ClusterTyped, ClusterBusy
    <3>5. o' = o /\ t' = t
      BY <3>1
    <3> HIDE DEF o, t
    <3>6. \A p \in Object, x \in Nat :
            x <= clusterClock + BuildTime /\ Alive(c, p, x) => Alive(c, p, x)'
      BY DEF LivesKept
    <3>7. Alive(c, o, t)'
      BY <3>2, <3>3, <3>4, <3>5, <3>6 DEF Alive
    <3> QED BY <3>1, <3>2, <3>7 DEF o, t
  <2> QED BY <2>1, <2>2, ClusterIdle
<1>8. ClusterEntries(H)'
  <2>1. ASSUME NEW k \in DOMAIN clusterCache PROVE EntryOf(H, k, clusterCache[k])'
    <3> DEFINE e == clusterCache[k]
    <3>1. EntryOf(H, k, e)
      BY DEF ClusterEntries
    <3>2. e.ts \in Nat /\ e.ts <= clusterClock /\ k[1] \in Referrers /\ e.ts <= clusterClock + BuildTime
      BY <3>1, TimesAssumption, SMTT(30) DEF EntryOf, ClusterTyped
    <3>3. ASSUME NEW c \in Names[k[1]]
          PROVE  \E o \in H[c] : /\ o.generation = k[2][c]
                                  /\ o.spec = e.value[c]
                                  /\ Alive(c, o, e.ts)'
      <4>1. PICK o \in H[c] : /\ o.generation = k[2][c]
                              /\ o.spec = e.value[c]
                              /\ Alive(c, o, e.ts)
        BY <3>1 DEF EntryOf
      <4>2. c \in Cluster /\ o \in Object
        BY <3>2, NamesAssumption DEF History
      <4>3. e' = e
        BY <1>1
      <4> HIDE DEF e
      <4>4. \A t \in Nat : t <= clusterClock + BuildTime /\ Alive(c, o, t) => Alive(c, o, t)'
        BY <4>2 DEF LivesKept
      <4>5. Alive(c, o, e.ts)'
        BY <3>2, <4>1, <4>3, <4>4 DEF Alive
      <4> QED BY <4>1, <4>5
    <3> QED BY <1>1, <3>1, <3>3 DEF EntryOf
  <2> QED BY <1>1, <2>1 DEF ClusterEntries
<1>9. ClustersCurrent'
  BY <1>2, <1>4, NothingServed
<1> QED BY <1>5, <1>6, <1>7, <1>8, <1>9

(* A webhook begins with the store as it is.                               *)
LEMMA ClusterDryBuildInv ==
    ASSUME NEW H, ClusterInvOf(H), ClusterBuilds!DryBuild, UNCHANGED <<api, created, replaced>>
    PROVE  ClusterInvOf(H)'
<1> USE DEF ClusterInvOf
<1> DEFINE busy == [step |-> "lookup", view |-> clusterStore, since |-> clusterClock]
<1>1. /\ clusterRun' = [clusterRun EXCEPT !["webhook"] = busy]
      /\ UNCHANGED <<clusterStore, clusterCache, clustersServed, clusterOutcome, clusterClock>>
  BY DEF ClusterBuilds!DryBuild, ClusterBuilds!Start
<1>2. busy \in ClusterBusy /\ busy # ClusterBuilds!Idle
  BY ClusterIdle, SMT DEF ClusterBusy, ClusterTyped
<1>3. busy.view = clusterStore /\ busy.since = clusterClock
  OBVIOUS
<1> HIDE DEF busy
<1>4. /\ clusterRun'["webhook"] = busy /\ clusterRun'["updater"] = clusterRun["updater"]
      /\ clusterRun' \in [ClusterBuilds!Builder -> ClusterBusy \cup {ClusterBuilds!Idle}]
  BY <1>1, <1>2, ClusterIdle DEF ClusterTyped
<1>5. ClusterTyped'
  BY <1>1, <1>3, <1>4, ClusterIdle, TimesAssumption, SMT DEF ClusterTyped
<1>6. History(H)'
  BY <1>1 DEF History
<1>7. BuiltFrom(H)'
  BY <1>1, <1>3, <1>4, ClusterIdle, SMTT(30) DEF BuiltFrom, Alive, History
<1>8. ClusterEntries(H)'
  BY <1>1, SMTT(30) DEF ClusterEntries, EntryOf, Alive
<1>9. ClustersCurrent'
  BY <1>1, <1>4, ServedStays
<1> QED BY <1>5, <1>6, <1>7, <1>8, <1>9

(* Kubernetes writes a cluster: nothing that this is about changes but the *)
(* history, which has more than before.                                    *)
LEMMA ClusterWrittenInv ==
    ASSUME NEW H, NEW G, ClusterInvOf(H), ClusterTyped', History(G)',
           \A c \in Cluster : H[c] \subseteq G[c],
           UNCHANGED <<clusterStore, clusterCache, clusterRun, clustersServed, clusterOutcome,
                       replaced, clusterClock>>
    PROVE  ClusterInvOf(G)'
<1> USE DEF ClusterInvOf
<1>1. BuiltFrom(G)'
  BY DEF BuiltFrom, Alive
<1>2. ASSUME NEW k \in DOMAIN clusterCache PROVE EntryOf(G, k, clusterCache[k])'
  <2>1. EntryOf(H, k, clusterCache[k])
    BY DEF ClusterEntries
  <2>2. \A c \in Names[k[1]] : c \in Cluster
    BY <2>1, NamesAssumption DEF EntryOf
  <2> QED BY <2>1, <2>2 DEF EntryOf, Alive
<1>3. ClusterEntries(G)'
  BY <1>2 DEF ClusterEntries
<1>4. ClustersCurrent'
  BY ServedStays
<1> QED BY <1>1, <1>3, <1>4

(* A created cluster has a life, an updated one a generation, that no      *)
(* object had before.                                                      *)
LEMMA WrittenNew ==
    ASSUME NEW H, ClusterInvOf(H), NEW c \in Cluster, NEW o \in Object,
           api' = [api EXCEPT ![c] = o],
           created' \in [Cluster -> 0 .. MaxGenerations],
           \A x \in Cluster : created[x] <= created'[x],
           o.uid <= created'[c],
           \A p \in H[c] : p.uid = o.uid => p.generation < o.generation,
           UNCHANGED <<clusterStore, clusterCache, clusterRun, clustersServed, clusterOutcome,
                       replaced, clusterClock>>
    PROVE  ClusterInv'
<1> USE DEF ClusterInvOf
<1> DEFINE G == [H EXCEPT ![c] = H[c] \cup {o}]
<1>1. /\ G \in [Cluster -> SUBSET Object] /\ G[c] = H[c] \cup {o}
      /\ \A x \in Cluster \ {c} : G[x] = H[x]
      /\ \A x \in Cluster : H[x] \subseteq G[x]
  BY DEF History
<1> HIDE DEF G
<1>2. ClusterTyped'
  BY DEF ClusterTyped
<1>3. api'[c] = o /\ \A x \in Cluster \ {c} : api'[x] = api[x]
  BY DEF ClusterTyped
<1>4. History(G)'
  <2>1. ASSUME NEW x \in Cluster, NEW p \in G[x], NEW q \in G[x],
               p.uid = q.uid, p.generation = q.generation
        PROVE  p.spec = q.spec
    <3>1. CASE x # c
      BY <1>1, <2>1, <3>1, SMT DEF History
    <3>2. CASE x = c
      <4>1. \A y \in H[c] : y.generation \in Nat
        BY SMT DEF History, Object
      <4>2. o.generation \in Nat
        BY SMT DEF Object
      <4> QED BY <1>1, <2>1, <3>2, <4>1, <4>2, SMTT(30) DEF History
    <3> QED BY <3>1, <3>2
  <2>2. ASSUME NEW x \in Cluster, NEW p \in G[x]
        PROVE  /\ p.uid <= created'[x]
               /\ api'[x] # NONE /\ p.uid = api'[x].uid => p.generation <= api'[x].generation
    <3>1. /\ created[x] \in Nat /\ created'[x] \in Nat /\ created[x] <= created'[x]
          /\ p.uid \in Nat /\ p.generation \in Nat /\ o.generation \in Nat
      <4>1. p \in Object
        BY <1>1
      <4>2. created \in [Cluster -> 0 .. MaxGenerations]
        BY DEF ClusterTyped
      <4> QED BY <4>1, <4>2, WritesAssumption, SMT DEF Object
    <3>2. CASE x # c
      BY <1>1, <1>3, <3>1, <3>2, SMTT(30) DEF History
    <3>3. CASE x = c
      BY <1>1, <1>3, <3>1, <3>3, SMTT(30) DEF History
    <3> QED BY <3>2, <3>3
  <2>3. ASSUME NEW x \in Cluster, api'[x] # NONE PROVE api'[x] \in G[x]
    BY <1>1, <1>3, <2>3 DEF History
  <2>4. ASSUME NEW x \in Cluster, clusterStore'.clusters[x] # NONE
        PROVE  clusterStore'.clusters[x] \in G[x]
    BY <1>1, <2>4 DEF History
  <2> QED BY <1>1, <2>1, <2>2, <2>3, <2>4, SMTT(30) DEF History
<1>5. ClusterInvOf(G)'
  BY <1>1, <1>2, <1>4, ClusterWrittenInv
<1> QED BY <1>5 DEF ClusterInv

(* What the reconciler puts in the store and what it takes out of it.      *)
LEMMA ReconcileClusterInv ==
    ASSUME NEW H, ClusterInvOf(H), NEW c \in Cluster, ReconcileCluster(c)
    PROVE  ClusterInvOf(H)'
<1> USE DEF ClusterInvOf
<1> DEFINE old == clusterStore.clusters[c]
           st == [clusters |-> [clusterStore.clusters EXCEPT ![c] = api[c]],
                  content  |-> clusterStore.content]
           lost == old # NONE /\ (api[c] = NONE \/ old.uid # api[c].uid)
<1>1. /\ ClusterBuilds!Change(st) /\ UNCHANGED <<api, created>>
      /\ replaced' = IF lost THEN [replaced EXCEPT ![c] = clusterClock] ELSE replaced
  BY DEF ReconcileCluster
<1>2. /\ st \in ClusterView /\ st.clusters[c] = api[c]
      /\ \A x \in Cluster \ {c} : st.clusters[x] = clusterStore.clusters[x]
  BY DEF ClusterTyped, ClusterView
<1>3. clusterStore' = st
  BY <1>1 DEF ClusterBuilds!Change
<1>4. \A x \in Cluster : st.clusters[x] # NONE => st.clusters[x] \in H[x]
  BY <1>2 DEF History
<1> HIDE DEF st
<1>5. /\ replaced' \in [Cluster -> Nat \cup {NONE}]
      /\ \A x \in Cluster \ {c} : replaced'[x] = replaced[x]
      /\ replaced'[c] = IF lost THEN clusterClock ELSE replaced[c]
  BY <1>1 DEF ClusterTyped
<1>6. LivesKept
  <2> SUFFICES ASSUME NEW x \in Cluster, NEW o \in Object, NEW t \in Nat,
                      t <= clusterClock + BuildTime, Alive(x, o, t)
               PROVE  \/ st.clusters[x] # NONE /\ st.clusters[x].uid = o.uid
                      \/ replaced'[x] # NONE /\ t <= replaced'[x] + BuildTime
    BY <1>3 DEF LivesKept, Alive
  <2>1. CASE x # c
    BY <1>2, <1>5, <2>1 DEF Alive
  <2>2. CASE x = c /\ lost
    BY <1>5, <2>2, ClustersAssumption DEF ClusterTyped
  <2>3. CASE x = c /\ ~lost
    BY <1>2, <1>5, <2>3 DEF Alive
  <2> QED BY <2>1, <2>2, <2>3
<1> QED BY <1>1, <1>2, <1>4, <1>5, <1>6, ClusterChangeInv

(* ClusterInv is inductive.                                                *)
LEMMA ClusterNextInv == ClusterInv /\ [ClusterNext]_clusterVars => ClusterInv'
<1> SUFFICES ASSUME ClusterInv, [ClusterNext]_clusterVars PROVE ClusterInv'
  OBVIOUS
<1>0. PICK H : ClusterInvOf(H)
  BY DEF ClusterInv
<1>00. ClusterTyped /\ History(H)
  BY <1>0 DEF ClusterInvOf
<1>1. ASSUME NEW b \in ClusterBuilds!Builder, ClusterLookUp(b) \/ ClusterBuild(b)
      PROVE  ClusterInv'
  <2>1. ClusterInvOf(H)'
    BY <1>0, <1>1, ClusterLookUpInv, ClusterBuildInv
  <2> QED BY <2>1 DEF ClusterInv
<1>2. ASSUME NEW c \in Cluster, NEW s \in ClusterSpecs, CreateCluster(c, s) PROVE ClusterInv'
  <2> DEFINE o == [spec |-> s, generation |-> 1, uid |-> created[c] + 1]
  <2>1. created[c] \in Nat /\ created[c] < MaxGenerations
    BY <1>00, <1>2, WritesAssumption, SMTT(30) DEF CreateCluster, ClusterTyped
  <2>2. o \in Object /\ o.uid = created[c] + 1
    BY <2>1, WritesAssumption, SMT DEF Object
  <2>3. /\ api' = [api EXCEPT ![c] = o]
        /\ created' = [created EXCEPT ![c] = @ + 1]
        /\ UNCHANGED <<clusterStore, clusterCache, clusterRun, clustersServed, clusterOutcome,
                       replaced, clusterClock>>
    BY <1>2 DEF CreateCluster
  <2> HIDE DEF o
  <2>4. /\ created' \in [Cluster -> 0 .. MaxGenerations] /\ created'[c] = created[c] + 1
        /\ \A x \in Cluster : created[x] <= created'[x]
    BY <1>00, <2>1, <2>3, WritesAssumption, SMT DEF ClusterTyped
  <2>5. o.uid <= created'[c]
    BY <2>1, <2>2, <2>4, SMT
  <2>6. \A p \in H[c] : p.uid = o.uid => p.generation < o.generation
    <3>1. \A p \in H[c] : p.uid <= created[c] /\ p.uid \in Nat
      BY <1>00, SMTT(30) DEF History, Object
    <3> QED BY <2>1, <2>2, <3>1, SMT
  <2> QED BY <1>0, <2>2, <2>3, <2>4, <2>5, <2>6, WrittenNew
<1>3. ASSUME NEW c \in Cluster, NEW s \in ClusterSpecs, UpdateCluster(c, s) PROVE ClusterInv'
  <2> DEFINE o == [spec |-> s, generation |-> api[c].generation + 1, uid |-> api[c].uid]
  <2>1. api[c] \in Object /\ api[c] \in H[c] /\ api[c].generation < MaxGenerations
    BY <1>00, <1>3 DEF UpdateCluster, ClusterTyped, History
  <2>2. /\ o \in Object /\ o.uid = api[c].uid /\ o.generation = api[c].generation + 1
        /\ api[c].generation \in Nat
    BY <2>1, WritesAssumption, SMT DEF Object
  <2>3. /\ api' = [api EXCEPT ![c] = o]
        /\ UNCHANGED <<created, clusterStore, clusterCache, clusterRun, clustersServed,
                       clusterOutcome, replaced, clusterClock>>
    BY <1>3 DEF UpdateCluster
  <2> HIDE DEF o
  <2>4. /\ created' \in [Cluster -> 0 .. MaxGenerations]
        /\ \A x \in Cluster : created[x] <= created'[x]
    BY <1>00, <2>3, WritesAssumption, SMT DEF ClusterTyped
  <2>5. o.uid <= created'[c]
    BY <1>00, <2>1, <2>2, <2>3 DEF History
  <2>6. \A p \in H[c] : p.uid = o.uid => p.generation < o.generation
    <3>1. \A p \in H[c] : /\ p.generation \in Nat
                          /\ p.uid = api[c].uid => p.generation <= api[c].generation
      BY <1>00, <1>3, SMT DEF History, Object, UpdateCluster
    <3> QED BY <2>2, <3>1, SMT
  <2> QED BY <1>0, <2>2, <2>3, <2>4, <2>5, <2>6, WrittenNew
<1>4. ASSUME NEW c \in Cluster, RemoveCluster(c) PROVE ClusterInv'
  <2>1. /\ api' = [api EXCEPT ![c] = NONE]
        /\ UNCHANGED <<created, clusterStore, clusterCache, clusterRun, clustersServed,
                       clusterOutcome, replaced, clusterClock>>
    BY <1>4 DEF RemoveCluster
  <2>2. ClusterTyped'
    BY <1>00, <2>1 DEF ClusterTyped
  <2>3. api'[c] = NONE /\ \A x \in Cluster \ {c} : api'[x] = api[x]
    BY <1>00, <2>1 DEF ClusterTyped
  <2>4. History(H)'
    BY <1>00, <2>1, <2>3 DEF History
  <2>5. ClusterInvOf(H)'
    BY <1>0, <2>1, <2>2, <2>4, ClusterWrittenInv
  <2> QED BY <2>5 DEF ClusterInv
<1>5. ASSUME NEW c \in Cluster, ReconcileCluster(c) PROVE ClusterInv'
  <2>1. ClusterInvOf(H)'
    BY <1>0, <1>5, ReconcileClusterInv
  <2> QED BY <2>1 DEF ClusterInv
<1>6. ASSUME NEW r \in Referrers, ChangeContent(r) PROVE ClusterInv'
  <2> DEFINE st == [clusters |-> clusterStore.clusters, content |-> r]
  <2>1. st \in ClusterView /\ st.clusters = clusterStore.clusters
    BY <1>00 DEF ClusterTyped, ClusterView
  <2>2. ClusterBuilds!Change(st) /\ UNCHANGED <<api, created, replaced>>
    BY <1>6 DEF ChangeContent
  <2> HIDE DEF st
  <2>3. clusterStore' = st
    BY <2>2 DEF ClusterBuilds!Change
  <2>4. LivesKept
    BY <2>1, <2>2, <2>3 DEF LivesKept, Alive
  <2>5. \A c \in Cluster : st.clusters[c] # NONE => st.clusters[c] \in H[c]
    BY <1>00, <2>1 DEF History
  <2>6. replaced' \in [Cluster -> Nat \cup {NONE}]
    BY <1>00, <2>2 DEF ClusterTyped
  <2>7. ClusterInvOf(H)'
    BY <1>0, <2>1, <2>2, <2>4, <2>5, <2>6, ClusterChangeInv
  <2> QED BY <2>7 DEF ClusterInv
<1>7. CASE ClusterBuilds!DryBuild /\ UNCHANGED <<api, created, replaced>>
  <2>1. ClusterInvOf(H)'
    BY <1>0, <1>7, ClusterDryBuildInv
  <2> QED BY <2>1 DEF ClusterInv
<1>8. CASE ClusterBuilds!Evict /\ UNCHANGED <<api, created, replaced>>
  <2>1. UNCHANGED <<clusterStore, clusterRun, clustersServed, clusterOutcome, clusterClock>>
    BY <1>8 DEF ClusterBuilds!Evict
  <2>2. PICK kept \in SUBSET DOMAIN clusterCache : clusterCache' = [k \in kept |-> clusterCache[k]]
    BY <1>8 DEF ClusterBuilds!Evict, ClusterBuilds!Cache!Forget, ClusterBuilds!Cache!Restrict
  <2>3. ClusterTyped' /\ History(H)'
    BY <1>00, <1>8, <2>1 DEF ClusterTyped, History
  <2>4. BuiltFrom(H)'
    BY <1>0, <1>8, <2>1 DEF ClusterInvOf, BuiltFrom, Alive
  <2>5. ClusterEntries(H)'
    <3>1. DOMAIN clusterCache' = kept /\ \A k \in kept : clusterCache'[k] = clusterCache[k]
      BY <2>2
    <3>2. \A k \in kept : EntryOf(H, k, clusterCache[k])
      BY <1>0 DEF ClusterInvOf, ClusterEntries
    <3>3. \A k \in kept : EntryOf(H, k, clusterCache[k])'
      BY <1>8, <2>1, <3>1, <3>2, SMTT(30) DEF EntryOf, Alive
    <3> QED BY <3>1, <3>3 DEF ClusterEntries
  <2>6. ClustersCurrent'
    BY <1>0, <1>8, <2>1, ServedStays DEF ClusterInvOf
  <2>7. ClusterInvOf(H)'
    BY <2>3, <2>4, <2>5, <2>6 DEF ClusterInvOf
  <2> QED BY <2>7 DEF ClusterInv
<1>9. CASE ClusterBuilds!Tick /\ UNCHANGED <<api, created, replaced>>
  <2>1. /\ UNCHANGED <<clusterStore, clusterCache, clusterRun, clustersServed, clusterOutcome>>
        /\ clusterClock' = clusterClock + 1
        /\ \A b \in ClusterBuilds!Builder : clusterRun[b] # ClusterBuilds!Idle =>
              clusterClock < clusterRun[b].since + BuildTime
    BY <1>9 DEF ClusterBuilds!Tick
  <2>2. \A b \in ClusterBuilds!Builder :
          clusterRun[b] # ClusterBuilds!Idle => clusterRun[b].since \in Nat
    BY <1>00 DEF ClusterTyped, ClusterBusy
  <2>3. ClusterTyped'
    BY <1>00, <1>9, <2>1, <2>2, TimesAssumption, SMT DEF ClusterTyped
  <2>4. History(H)'
    BY <1>00, <1>9, <2>1 DEF History
  <2>5. BuiltFrom(H)'
    BY <1>0, <1>9, <2>1 DEF ClusterInvOf, BuiltFrom, Alive
  <2>6. ClusterEntries(H)'
    <3>1. ASSUME NEW k \in DOMAIN clusterCache PROVE EntryOf(H, k, clusterCache[k])'
      <4>1. EntryOf(H, k, clusterCache[k])
        BY <1>0 DEF ClusterInvOf, ClusterEntries
      <4>2. clusterClock \in Nat /\ clusterCache[k].ts \in Nat
        BY <1>00, <4>1 DEF ClusterTyped, EntryOf
      <4>3. clusterCache[k].ts <= clusterClock'
        BY <2>1, <4>1, <4>2, SMT DEF EntryOf
      <4> QED BY <1>9, <2>1, <4>1, <4>3 DEF EntryOf, Alive
    <3> QED BY <2>1, <3>1 DEF ClusterEntries
  <2>7. ClustersCurrent'
    BY <1>0, <1>9, <2>1, ServedStays DEF ClusterInvOf
  <2>8. ClusterInvOf(H)'
    BY <2>3, <2>4, <2>5, <2>6, <2>7 DEF ClusterInvOf
  <2> QED BY <2>8 DEF ClusterInv
<1>10. CASE UNCHANGED clusterVars
  <2>1. ClusterTyped' /\ History(H)'
    BY <1>00, <1>10 DEF ClusterTyped, History, clusterVars
  <2>2. \A c \in Cluster : H[c] \subseteq H[c]
    OBVIOUS
  <2>3. ClusterInvOf(H)'
    BY <1>0, <1>10, <2>1, <2>2, ClusterWrittenInv DEF clusterVars
  <2> QED BY <2>3 DEF ClusterInv
<1> QED
  BY <1>1, <1>2, <1>3, <1>4, <1>5, <1>6, <1>7, <1>8, <1>9, <1>10 DEF ClusterNext

(* For any clusters, contents, generations and times, a rebuild serves the *)
(* clusters that are named with the specs that are stored, and the spec of *)
(* a former life of one no longer than the time to live and one build      *)
(* after the store lost that life.                                         *)
THEOREM ClustersServedCurrent == ClusterSpec => []ClustersCurrent
<1>1. ClusterInv => ClustersCurrent
  BY DEF ClusterInv, ClusterInvOf
<1> QED BY ClusterInitInv, ClusterNextInv, <1>1, PTL DEF ClusterSpec

-----------------------------------------------------------------------------
(***************************************************************************)
(* The live store, the copy of a dry run and what readers were handed      *)
(* never share a slice's array or a domain set, for any VirtualServices,   *)
(* nodes and domains.  The invariant says whose array and whose sets are   *)
(* whose, and that every list fits its array and holds its store's         *)
(* services once; a step allocates at most one array and the sets of one   *)
(* clone, at places that nobody holds.                                     *)
(***************************************************************************)

\* A list as the template index keeps it: it fits its array, holds the services
\* of the map that use the template, and each of them once.
Lists(vs, array, len) ==
  /\ len <= Len(array)
  /\ \A i \in 1 .. len :
       /\ array[i] \in VirtualService
       /\ array[i].uses
       /\ array[i] = vs[array[i].name]
  /\ \A i, j \in 1 .. len : array[i].name = array[j].name => i = j
  /\ \A v \in VSName : vs[v] # NONE =>
       /\ vs[v].name = v
       /\ vs[v].uses => \E i \in 1 .. len : array[i].name = v

Arrays == [Place -> Seq(VirtualService \cup {NONE})]

ServiceMap == [VSName -> VirtualService \cup {NONE}]

\* The array without the service at a position: what follows moves down.
LEMMA ListWithout ==
  ASSUME NEW vs \in ServiceMap, NEW v \in VSName,
         NEW array \in Seq(VirtualService \cup {NONE}), NEW len \in Nat,
         Lists(vs, array, len), NEW k \in 1 .. len, array[k].name = v
  PROVE  Lists([vs EXCEPT ![v] = NONE],
               [j \in 1 .. Len(array) |->
                  IF j < k \/ j >= len THEN array[j] ELSE array[j + 1]],
               len - 1)
<1> DEFINE without == [vs EXCEPT ![v] = NONE]
           after == [j \in 1 .. Len(array) |->
                       IF j < k \/ j >= len THEN array[j] ELSE array[j + 1]]
           from(j) == IF j < k THEN j ELSE j + 1
<1>1. /\ len <= Len(array) /\ Len(array) \in Nat
      /\ \A i \in 1 .. len : /\ array[i] \in VirtualService
                              /\ array[i].uses
                              /\ array[i] = vs[array[i].name]
      /\ \A i, j \in 1 .. len : array[i].name = array[j].name => i = j
      /\ \A w \in VSName : vs[w] # NONE =>
           /\ vs[w].name = w
           /\ vs[w].uses => \E i \in 1 .. len : array[i].name = w
  BY SMT DEF Lists
<1>2. \A w \in VSName : without[w] = IF w = v THEN NONE ELSE vs[w]
  BY DEF ServiceMap
<1>3. Len(after) = Len(array)
  BY <1>1, SMT
<1>4. \A j \in 1 .. len - 1 : /\ from(j) \in 1 .. len /\ from(j) # k
                               /\ after[j] = array[from(j)]
  BY <1>1, SMT
<1>5. \A i, j \in 1 .. len - 1 : from(i) = from(j) => i = j
  BY SMT
<1>6. \A i \in 1 .. len : i # k => \E j \in 1 .. len - 1 : from(j) = i
  <2> TAKE i \in 1 .. len
  <2> HAVE i # k
  <2>1. CASE i < k
    BY <2>1, SMT
  <2>2. CASE i > k
    <3>1. i - 1 \in 1 .. len - 1 /\ from(i - 1) = i
      BY <2>2, SMT
    <3> QED BY <3>1
  <2> QED BY <2>1, <2>2, SMT
<1> HIDE DEF without, after, from
<1>7. \A j \in 1 .. len - 1 : /\ after[j] \in VirtualService
                               /\ after[j].uses
                               /\ after[j].name # v
                               /\ after[j] = without[after[j].name]
  <2> TAKE j \in 1 .. len - 1
  <2>1. /\ array[from(j)] \in VirtualService
        /\ array[from(j)].uses
        /\ array[from(j)] = vs[array[from(j)].name]
        /\ array[from(j)].name # v
    BY <1>1, <1>4
  <2>2. array[from(j)].name \in VSName
    BY <2>1 DEF VirtualService
  <2> QED BY <1>2, <1>4, <2>1, <2>2
<1>8. \A i, j \in 1 .. len - 1 : after[i].name = after[j].name => i = j
  <2> TAKE i, j \in 1 .. len - 1
  <2> HAVE after[i].name = after[j].name
  <2>1. from(i) = from(j)
    BY <1>1, <1>4, SMTT(20)
  <2> QED BY <1>5, <2>1
<1>9. ASSUME NEW w \in VSName, without[w] # NONE
      PROVE  /\ without[w].name = w
             /\ without[w].uses => \E i \in 1 .. len - 1 : after[i].name = w
  <2>1. w # v /\ without[w] = vs[w]
    BY <1>2, <1>9
  <2>2. without[w].name = w
    BY <1>1, <1>9, <2>1
  <2>3. ASSUME without[w].uses
        PROVE  \E i \in 1 .. len - 1 : after[i].name = w
    <3>1. PICK i \in 1 .. len : array[i].name = w
      BY <1>1, <1>9, <2>1, <2>3
    <3>2. PICK j \in 1 .. len - 1 : from(j) = i
      BY <1>6, <2>1, <3>1
    <3>3. after[j].name = w
      BY <1>4, <3>1, <3>2
    <3> QED BY <3>3
  <2> QED BY <2>2, <2>3
<1>10. len - 1 <= Len(after)
  BY <1>1, <1>3, SMT
<1>11. Lists(without, after, len - 1)
  BY <1>7, <1>8, <1>9, <1>10 DEF Lists
<1> QED BY <1>11 DEF without, after

\* What removeFromTemplateIndex leaves: the list of the map without the service,
\* in the same array.
RemovedWell(heap, list, vs, v, less) ==
  /\ less.heap \in Arrays
  /\ less.list \in Slice
  /\ less.list.arr = list.arr
  /\ \A p \in Place \ {list.arr} : less.heap[p] = heap[p]
  /\ Lists([vs EXCEPT ![v] = NONE], less.heap[list.arr], less.list.len)

\* removeFromTemplateIndex leaves the list of the map without the service.
LEMMA RemovedFromList ==
  ASSUME NEW heap \in Arrays, NEW list \in Slice, NEW vs \in ServiceMap, NEW v \in VSName,
         vs[v] # NONE, Lists(vs, heap[list.arr], list.len),
         NEW less, less = removeFromTemplateIndex(heap, list, vs[v])
  PROVE  RemovedWell(heap, list, vs, v, less)
<1> DEFINE old   == vs[v]
           array == heap[list.arr]
           len   == list.len
           at    == Positions(heap, list, v)
           without == [vs EXCEPT ![v] = NONE]
<1>1. /\ old \in VirtualService /\ old.name = v
      /\ array \in Seq(VirtualService \cup {NONE})
      /\ len \in Nat /\ len <= Len(array) /\ Len(array) \in Nat
  BY SMT DEF Lists, ServiceMap, Arrays, Slice
<1>2. at = {i \in 1 .. len : array[i].name = v}
  BY DEF Positions
<1>3. CASE ~old.uses \/ at = {}
  <2>1. less = [list |-> list, heap |-> heap]
    BY <1>1, <1>3 DEF removeFromTemplateIndex
  <2>2. \A i \in 1 .. len : array[i].name # v
    <3> SUFFICES ASSUME NEW i \in 1 .. len, array[i].name = v PROVE FALSE
      OBVIOUS
    <3>1. array[i] = old /\ array[i].uses /\ i \in at
      BY <1>2 DEF Lists
    <3> QED BY <1>3, <3>1
  <2>3. Lists(without, array, len)
    <3>1. \A w \in VSName : without[w] = IF w = v THEN NONE ELSE vs[w]
      BY DEF ServiceMap
    <3> HIDE DEF without, array, len
    <3> QED BY <2>2, <3>1 DEF Lists, VirtualService, array, len
  <2> HIDE DEF without
  <2> QED BY <2>1, <2>3, SMT DEF without, RemovedWell
<1>4. CASE old.uses /\ at # {}
  <2>1. PICK k \in 1 .. len : array[k].name = v
    BY <1>2, <1>4
  <2>2. at = {k}
    BY <1>2, <2>1, SMT DEF Lists
  <2>3. First(at) = k
    BY <2>2, SMT DEF First
  <2> DEFINE after == [j \in 1 .. Len(array) |->
                         IF j < k \/ j >= len THEN array[j] ELSE array[j + 1]]
  <2>4. less = [list |-> [arr |-> list.arr, len |-> len - 1],
                heap |-> [heap EXCEPT ![list.arr] = after]]
    BY <1>1, <1>4, <2>3 DEF removeFromTemplateIndex, DropAt
  <2>5. after \in Seq(VirtualService \cup {NONE}) /\ Len(after) = Len(array)
    <3>1. \A j \in 1 .. Len(array) : after[j] \in VirtualService \cup {NONE}
      BY <1>1, <2>1, SMT
    <3> QED BY <1>1, <3>1, SMT
  <2>6. less.heap \in Arrays /\ less.list \in Slice /\ less.list.arr = list.arr
    <3> HIDE DEF after
    <3> QED BY <1>1, <2>1, <2>4, <2>5, SMT DEF Arrays, Slice
  <2>7. /\ less.heap[list.arr] = after
        /\ \A p \in Place \ {list.arr} : less.heap[p] = heap[p]
    <3> HIDE DEF after
    <3> QED BY <2>4, SMT DEF Arrays, Slice
  <2>8. Lists(without, after, len - 1)
    <3>1. vs \in ServiceMap /\ Lists(vs, array, len)
      OBVIOUS
    <3> HIDE DEF array, len
    <3> QED BY <1>1, <2>1, <3>1, ListWithout
  <2> HIDE DEF after, without
  <2>9. less.list.len = len - 1
    BY <2>4, SMT
  <2> QED BY <2>6, <2>7, <2>8, <2>9 DEF without, RemovedWell
<1> QED BY <1>3, <1>4

\* The array with a further service behind the others.
LEMMA ListWith ==
  ASSUME NEW vs \in ServiceMap, NEW new \in VirtualService, vs[new.name] = NONE, new.uses,
         NEW array \in Seq(VirtualService \cup {NONE}), NEW len \in Nat, Lists(vs, array, len),
         NEW after \in Seq(VirtualService \cup {NONE}), len + 1 <= Len(after),
         \A i \in 1 .. len : after[i] = array[i], after[len + 1] = new
  PROVE  Lists([vs EXCEPT ![new.name] = new], after, len + 1)
<1> DEFINE with == [vs EXCEPT ![new.name] = new]
<1>1. /\ \A i \in 1 .. len : /\ array[i] \in VirtualService
                              /\ array[i].uses
                              /\ array[i] = vs[array[i].name]
      /\ \A i, j \in 1 .. len : array[i].name = array[j].name => i = j
      /\ \A w \in VSName : vs[w] # NONE =>
           /\ vs[w].name = w
           /\ vs[w].uses => \E i \in 1 .. len : array[i].name = w
  BY DEF Lists
<1>2. new.name \in VSName /\ new # NONE
  BY NilAssumption DEF VirtualService
<1>3. \A w \in VSName : with[w] = IF w = new.name THEN new ELSE vs[w]
  BY DEF ServiceMap
<1>4. \A i \in 1 .. len + 1 : i \in 1 .. len \/ i = len + 1
  BY SMT
<1>5. ASSUME NEW i \in 1 .. len
      PROVE  /\ after[i] \in VirtualService /\ after[i].uses
             /\ after[i].name \in VSName
             /\ after[i].name # new.name
             /\ after[i] = vs[after[i].name]
  <2>1. array[i] # NONE
    BY <1>1, NilAssumption
  <2> QED BY <1>1, <2>1, SMT DEF VirtualService
<1> HIDE DEF with
<1>6. \A i \in 1 .. len + 1 : /\ after[i] \in VirtualService
                              /\ after[i].uses
                              /\ after[i] = with[after[i].name]
  BY <1>2, <1>3, <1>4, <1>5
<1>7. \A i, j \in 1 .. len + 1 : after[i].name = after[j].name => i = j
  BY <1>1, <1>4, <1>5, SMT
<1>8. ASSUME NEW w \in VSName, with[w] # NONE
      PROVE  /\ with[w].name = w
             /\ with[w].uses => \E i \in 1 .. len + 1 : after[i].name = w
  <2>1. CASE w = new.name
    <3>1. len + 1 \in 1 .. len + 1
      BY SMT
    <3> QED BY <1>3, <2>1, <3>1
  <2>2. CASE w # new.name
    <3>1. vs[w] # NONE /\ with[w] = vs[w]
      BY <1>3, <1>8, <2>2
    <3>2. ASSUME vs[w].uses PROVE \E i \in 1 .. len + 1 : after[i].name = w
      <4>1. PICK i \in 1 .. len : array[i].name = w
        BY <1>1, <3>1, <3>2
      <4>2. i \in 1 .. len + 1 /\ after[i].name = w
        BY <4>1, SMT
      <4> QED BY <4>2
    <3> QED BY <1>1, <3>1, <3>2
  <2> QED BY <2>1, <2>2
<1>9. Lists(with, after, len + 1)
  BY <1>6, <1>7, <1>8 DEF Lists
<1> QED BY <1>9 DEF with

\* What updateTemplateIndex leaves: the list of the map with the service, in the
\* same array or in a free one.
AddedWell(heap, list, vs, new, more) ==
  /\ more.heap \in Arrays
  /\ more.list \in Slice
  /\ more.list.arr \in {list.arr, FreeArray}
  /\ \A p \in Place \ {more.list.arr} : more.heap[p] = heap[p]
  /\ Lists([vs EXCEPT ![new.name] = new], more.heap[more.list.arr], more.list.len)

\* updateTemplateIndex adds a service that the map does not hold to its list.
LEMMA AddedToList ==
  ASSUME NEW heap \in Arrays, NEW list \in Slice, NEW vs \in ServiceMap,
         NEW new \in VirtualService, vs[new.name] = NONE,
         Lists(vs, heap[list.arr], list.len), FreeArray \in Place,
         NEW more, more = updateTemplateIndex(heap, list, new)
  PROVE  AddedWell(heap, list, vs, new, more)
<1> DEFINE array == heap[list.arr]
           len   == list.len
           with  == [vs EXCEPT ![new.name] = new]
<1>1. /\ array \in Seq(VirtualService \cup {NONE})
      /\ len \in Nat /\ len <= Len(array) /\ Len(array) \in Nat
      /\ list.arr \in Place
      /\ new.name \in VSName
  BY SMT DEF Lists, Arrays, Slice, VirtualService
<1>2. Positions(heap, list, new.name) = {}
  <2> SUFFICES ASSUME NEW i \in 1 .. len, array[i].name = new.name PROVE FALSE
    BY DEF Positions
  <2>1. array[i] \in VirtualService /\ array[i] = vs[array[i].name]
    BY DEF Lists
  <2> QED BY <2>1, NilAssumption
<1>3. CASE ~new.uses
  <2>1. more = [list |-> list, heap |-> heap]
    BY <1>3 DEF updateTemplateIndex
  <2>2. Lists(with, array, len)
    <3>1. \A w \in VSName : with[w] = IF w = new.name THEN new ELSE vs[w]
      BY DEF ServiceMap
    <3>2. \A i \in 1 .. len : array[i].name # new.name /\ array[i].name \in VSName
      BY <1>2 DEF Lists, Positions, VirtualService
    <3> HIDE DEF with, array, len
    <3> QED BY <1>3, <3>1, <3>2, SMT DEF Lists, array, len
  <2> HIDE DEF with
  <2> QED BY <2>1, <2>2, SMT DEF with, AddedWell
<1>4. CASE new.uses /\ len < Len(array)
  <2> DEFINE after == [array EXCEPT ![len + 1] = new]
  <2>1. more = [list |-> [arr |-> list.arr, len |-> len + 1],
                heap |-> [heap EXCEPT ![list.arr] = after]]
    BY <1>2, <1>4 DEF updateTemplateIndex, Push
  <2>2. /\ after \in Seq(VirtualService \cup {NONE}) /\ len + 1 <= Len(after)
        /\ \A i \in 1 .. len : after[i] = array[i]
        /\ after[len + 1] = new
    BY <1>1, <1>4, SMT
  <2>3. Lists(with, after, len + 1)
    <3> HIDE DEF array, len, after
    <3> QED BY <1>1, <1>4, <2>2, ListWith, ZenonT(60) DEF array, len
  <2> HIDE DEF with, after
  <2>4. /\ more.list = [arr |-> list.arr, len |-> len + 1]
        /\ more.heap = [heap EXCEPT ![list.arr] = after]
    BY <2>1, SMT
  <2>5. /\ more.heap[list.arr] = after
        /\ \A p \in Place \ {list.arr} : more.heap[p] = heap[p]
        /\ more.heap \in Arrays
    BY <1>1, <2>2, <2>4, ZenonT(60) DEF Arrays
  <2>6. more.list \in Slice /\ more.list.arr = list.arr /\ more.list.len = len + 1
    BY <1>1, <2>4, SMT DEF Slice
  <2> QED BY <2>3, <2>5, <2>6 DEF with, AddedWell
<1>5. CASE new.uses /\ ~(len < Len(array))
  <2> DEFINE size  == 2 * len + 1
             after == [i \in 1 .. size |->
                         IF i <= len THEN array[i]
                         ELSE IF i = len + 1 THEN new ELSE NONE]
  <2>1. more = [list |-> [arr |-> FreeArray, len |-> len + 1],
                heap |-> [heap EXCEPT ![FreeArray] = after]]
    BY <1>2, <1>5 DEF updateTemplateIndex, Push
  <2>2. /\ after \in Seq(VirtualService \cup {NONE}) /\ len + 1 <= Len(after)
        /\ \A i \in 1 .. len : after[i] = array[i]
        /\ after[len + 1] = new
    <3>1. size \in Nat /\ len + 1 <= size
      BY <1>1, SMT
    <3> HIDE DEF size, array, len
    <3>2. \A i \in 1 .. size : after[i] \in VirtualService \cup {NONE}
      BY <1>1, <3>1, SMT
    <3>3. after \in Seq(VirtualService \cup {NONE}) /\ Len(after) = size
      BY <3>1, <3>2, SMT
    <3>4. \A i \in 1 .. len : i \in 1 .. size /\ i <= len
      BY <1>1, <3>1, SMT
    <3>5. len + 1 \in 1 .. size /\ ~(len + 1 <= len)
      BY <1>1, <3>1, SMT
    <3> QED BY <3>1, <3>3, <3>4, <3>5
  <2>3. Lists(with, after, len + 1)
    <3> HIDE DEF array, len, after
    <3> QED BY <1>1, <1>5, <2>2, ListWith, ZenonT(60) DEF array, len
  <2> HIDE DEF with, after
  <2>4. /\ more.list = [arr |-> FreeArray, len |-> len + 1]
        /\ more.heap = [heap EXCEPT ![FreeArray] = after]
    BY <2>1, SMT
  <2>5. /\ more.heap[FreeArray] = after
        /\ \A p \in Place \ {FreeArray} : more.heap[p] = heap[p]
        /\ more.heap \in Arrays
    BY <1>1, <2>2, <2>4, ZenonT(60) DEF Arrays
  <2>6. more.list \in Slice /\ more.list.arr = FreeArray /\ more.list.len = len + 1
    BY <1>1, <2>4, SMT DEF Slice
  <2> QED BY <2>3, <2>5, <2>6 DEF with, AddedWell
<1> QED BY <1>3, <1>4, <1>5

-----------------------------------------------------------------------------
\* The indices of one clone lie at one place.
OnePlace(idx) == \E p \in Place : \A n \in Node : idx[n] \in {NONE, p}

\* Two indices have no set in common.
Apart(idx, other) == \A n \in Node : idx[n] # NONE => idx[n] # other[n]

Typed ==
  /\ stores \in [Handle -> Store \cup {NONE}]
  /\ stores["live"] # NONE
  /\ arrays \in Arrays
  /\ sets \in [Place -> [Node -> SUBSET Domain]]
  /\ handed \in Handed \cup {NONE}
  /\ lent \in Lent \cup {NONE}
  /\ pool \in Handle \cup {NONE}
  /\ interning \in [Handle -> [pc : {"idle", "slow", "done"}, got : Handle \cup {NONE}]]

\* Every list is that of its store's services, and no two lists share an array.
ListsInv ==
  /\ \A h \in Handle : stores[h] # NONE =>
       Lists(stores[h].vs, arrays[stores[h].list.arr], stores[h].list.len)
  /\ stores["copy"] # NONE => stores["copy"].list.arr # stores["live"].list.arr
  /\ handed # NONE =>
       /\ \A h \in Handle : stores[h] # NONE => stores[h].list.arr # handed.list.arr
       /\ Content(arrays, handed.list) = handed.was

\* No two domain indices share a set.
SetsInv ==
  /\ \A h \in Handle : stores[h] # NONE => OnePlace(stores[h].domains)
  /\ stores["copy"] # NONE => Apart(stores["live"].domains, stores["copy"].domains)
  /\ lent # NONE =>
       /\ OnePlace(lent.idx)
       /\ \A h \in Handle : stores[h] # NONE => Apart(stores[h].domains, lent.idx)
       /\ DomainSets(sets, lent.idx) = lent.was

ItemsInv ==
  \A h \in Handle : stores[h] # NONE => stores[h].itemByUID = {stores[h].item} \ {NONE}

InternInv ==
  \A h \in Handle : interning[h].pc = "done" => interning[h].got = pool /\ pool # NONE

CopiesInv == Typed /\ ListsInv /\ SetsInv /\ ItemsInv /\ InternInv

\* The parts of a store, and of one with other parts.
LEMMA StoreParts ==
  ASSUME NEW st \in Store
  PROVE  /\ st.vs \in ServiceMap /\ st.byUID \in ServiceMap /\ st.list \in Slice
         /\ st.item \in KindUID \cup {NONE} /\ st.itemByUID \in SUBSET KindUID
         /\ st.domains \in [Node -> Place \cup {NONE}]
BY SMT DEF Store, ServiceMap

Shows(st, vs, list, item, uids, domains) ==
  /\ st \in Store /\ st.vs = vs /\ st.list = list
  /\ st.item = item /\ st.itemByUID = uids /\ st.domains = domains

(* What a store shows after a VirtualService and the list of its template  *)
(* were set.                                                               *)
LEMMA WithVSFacts ==
  ASSUME NEW st \in Store, NEW v \in VSName, NEW x \in VirtualService \cup {NONE},
         NEW list \in Slice
  PROVE  Shows(WithVS(st, v, x, list), [st.vs EXCEPT ![v] = x], list, st.item, st.itemByUID, st.domains)
<1>1. [st.vs EXCEPT ![v] = x] \in ServiceMap /\ [st.byUID EXCEPT ![v] = x] \in ServiceMap
  BY StoreParts DEF ServiceMap
<1> QED BY <1>1, StoreParts, SMT DEF Shows, WithVS, Store, ServiceMap

(* What a store shows after an object of another kind and its UID were     *)
(* set.                                                                    *)
LEMMA WithItemFacts ==
  ASSUME NEW st \in Store, NEW item \in KindUID \cup {NONE}, NEW uids \in SUBSET KindUID
  PROVE  Shows(WithItem(st, item, uids), st.vs, st.list, item, uids, st.domains)
BY StoreParts, SMT DEF Shows, WithItem, Store, ServiceMap

(* What a store shows after its lists and domain sets were replaced by     *)
(* clones.                                                                 *)
LEMMA WithClonesFacts ==
  ASSUME NEW st \in Store, NEW list \in Slice, NEW domains \in [Node -> Place \cup {NONE}]
  PROVE  Shows(WithClones(st, list, domains), st.vs, list, st.item, st.itemByUID, domains)
BY StoreParts, SMT DEF Shows, WithClones, Store, ServiceMap

\* A store put in its place.
LEMMA StorePut ==
  ASSUME Typed, NEW h \in Handle, NEW st \in Store, stores' = [stores EXCEPT ![h] = st]
  PROVE  /\ stores'[h] = st /\ stores'[h] \in Store /\ stores'[h] # NONE
         /\ \A g \in Handle \ {h} : stores'[g] = stores[g]
         /\ stores' \in [Handle -> Store \cup {NONE}]
BY NilAssumption DEF Typed

\* There is room for a further array ...
LEMMA ArrayFree ==
  ASSUME Typed
  PROVE  FreeArray \in Place /\ FreeArray \notin ListRefs
<1> DEFINE a == stores["live"].list.arr
           b == IF stores["copy"] = NONE THEN a ELSE stores["copy"].list.arr
           c == IF handed = NONE THEN a ELSE handed.list.arr
<1>1. ListRefs \subseteq {a, b, c}
  BY DEF ListRefs, Handle
<1>2. \E r \in {1, 2, 3, 4} : r \notin {a, b, c}
  <2> HIDE DEF a, b, c
  <2> QED BY SMT
<1>3. {1, 2, 3, 4} \subseteq Place
  BY RoomAssumption, SMT DEF Place
<1>4. \E r \in Place : r \notin ListRefs
  <2> HIDE DEF a, b, c
  <2> QED BY <1>1, <1>2, <1>3
<1> QED BY <1>4 DEF FreeArray

\* ... and for the sets of a further clone.
LEMMA SetsFree ==
  ASSUME Typed, SetsInv
  PROVE  FreeSets \in Place /\ FreeSets \notin SetRefs
<1>1. PICK a \in Place : \A n \in Node : stores["live"].domains[n] \in {NONE, a}
  BY DEF Typed, SetsInv, OnePlace, Handle
<1>2. PICK b \in Place : stores["copy"] # NONE =>
                           \A n \in Node : stores["copy"].domains[n] \in {NONE, b}
  BY <1>1 DEF SetsInv, OnePlace, Handle
<1>3. PICK c \in Place : lent # NONE => \A n \in Node : lent.idx[n] \in {NONE, c}
  BY <1>1 DEF SetsInv, OnePlace
<1>4. SetRefs \subseteq {NONE, a, b, c}
  BY <1>1, <1>2, <1>3, SMT DEF SetRefs, Handle
<1>5. \E r \in {1, 2, 3, 4} : r \notin {a, b, c}
  BY SMT
<1>6. {1, 2, 3, 4} \subseteq Place
  BY RoomAssumption, SMT DEF Place
<1>7. \E r \in Place : r \notin SetRefs
  BY <1>4, <1>5, <1>6, NilAssumption
<1> QED BY <1>7 DEF FreeSets

\* What a step leaves alone.
SameLists(h) ==
  /\ (stores'[h] = NONE) = (stores[h] = NONE)
  /\ stores[h] # NONE => stores'[h].vs = stores[h].vs /\ stores'[h].list = stores[h].list

SameDomains(h) ==
  /\ (stores'[h] = NONE) = (stores[h] = NONE)
  /\ stores[h] # NONE => stores'[h].domains = stores[h].domains

SameItem(h) ==
  /\ (stores'[h] = NONE) = (stores[h] = NONE)
  /\ stores[h] # NONE => /\ stores'[h].item = stores[h].item
                         /\ stores'[h].itemByUID = stores[h].itemByUID

\* The lists stay in order when services, arrays and the handed list do.
LEMMA ListsKept ==
  ASSUME Typed, ListsInv, \A h \in Handle : SameLists(h), UNCHANGED <<arrays, handed>>
  PROVE  ListsInv'
BY DEF ListsInv, SameLists, Handle, Content

\* The domain sets stay in order when indices, sets and what was lent do.
LEMMA SetsKept ==
  ASSUME Typed, SetsInv, \A h \in Handle : SameDomains(h), UNCHANGED <<sets, lent>>
  PROVE  SetsInv'
BY SMT DEF SetsInv, SameDomains, Handle, DomainSets, OnePlace, Apart

\* The maps by UID stay in order when they and the maps by name do.
LEMMA ItemsKept ==
  ASSUME Typed, ItemsInv, \A h \in Handle : SameItem(h)
  PROVE  ItemsInv'
BY DEF ItemsInv, SameItem

\* Interning stays in order when nobody interns.
LEMMA InternKept ==
  ASSUME InternInv, UNCHANGED <<interning, pool>>
  PROVE  InternInv'
BY DEF InternInv

\* A store shows the same when neither it nor its array and sets change.
LEMMA ViewKept ==
  ASSUME NEW h \in Handle, stores'[h] = stores[h],
         stores[h] # NONE =>
           /\ arrays'[stores[h].list.arr] = arrays[stores[h].list.arr]
           /\ \A n \in Node : stores[h].domains[n] # NONE =>
                sets'[stores[h].domains[n]][n] = sets[stores[h].domains[n]][n]
  PROVE  View(h)' = View(h)
<1>1. CASE stores[h] = NONE
  BY <1>1 DEF View
<1>2. CASE stores[h] # NONE
  <2>1. Content(arrays, stores[h].list)' = Content(arrays, stores[h].list)
    BY <1>2 DEF Content
  <2>2. GetNodeDomainsIndex(h)' = GetNodeDomainsIndex(h)
    BY <1>2 DEF GetNodeDomainsIndex, DomainSets
  <2>3. MapItems(h)' = MapItems(h)
    BY DEF MapItems
  <2> QED BY <1>2, <2>1, <2>2, <2>3 DEF View
<1> QED BY <1>1, <1>2

\* A store gets other services, with their list in its own array or a free one.
ServicesPut(h, st) ==
  /\ st \in Store
  /\ st.item = stores[h].item /\ st.itemByUID = stores[h].itemByUID
  /\ st.domains = stores[h].domains
  /\ st.list.arr \in {stores[h].list.arr, FreeArray}
  /\ stores' = [stores EXCEPT ![h] = st]
  /\ arrays' \in Arrays
  /\ \A p \in Place \ {stores[h].list.arr, FreeArray} : arrays'[p] = arrays[p]
  /\ Lists(st.vs, arrays'[st.list.arr], st.list.len)
  /\ UNCHANGED <<sets, handed, lent, pool, interning>>

\* A write to one store keeps the invariant, and what the other store shows.
KeepsOther(h) ==
  /\ CopiesInv'
  /\ \A g \in Handle \ {h} : View(g)' = View(g)

\* Other services in a store concern only that store.
LEMMA ServicesChanged ==
  ASSUME CopiesInv, NEW h \in Handle, stores[h] # NONE, NEW st, ServicesPut(h, st)
  PROVE  KeepsOther(h)
<1> DEFINE vs   == st.vs
           list == st.list
<1>0. /\ st \in Store
      /\ st.item = stores[h].item /\ st.itemByUID = stores[h].itemByUID
      /\ st.domains = stores[h].domains
      /\ list.arr \in {stores[h].list.arr, FreeArray}
      /\ stores' = [stores EXCEPT ![h] = st]
      /\ arrays' \in Arrays
      /\ \A p \in Place \ {stores[h].list.arr, FreeArray} : arrays'[p] = arrays[p]
      /\ Lists(vs, arrays'[list.arr], list.len)
      /\ UNCHANGED <<sets, handed, lent, pool, interning>>
  BY DEF ServicesPut
<1> USE <1>0
<1> HIDE DEF vs, list
<1> USE DEF CopiesInv
<1>1. /\ \A g \in Handle : stores[g] # NONE => stores[g] \in Store
      /\ stores[h] \in Store
  BY DEF Typed
<1>2. /\ stores'[h] \in Store /\ stores'[h] # NONE
      /\ stores'[h].vs = vs /\ stores'[h].list = list
      /\ stores'[h].item = stores[h].item /\ stores'[h].itemByUID = stores[h].itemByUID
      /\ stores'[h].domains = stores[h].domains
      /\ \A g \in Handle \ {h} : stores'[g] = stores[g]
      /\ stores' \in [Handle -> Store \cup {NONE}]
  BY StorePut DEF vs, list
<1>3. FreeArray \in Place /\ FreeArray \notin ListRefs
  BY ArrayFree
<1>4. ASSUME NEW g \in Handle, g # h, stores[g] # NONE
      PROVE  /\ stores[g].list.arr \in Place
             /\ stores[g].list.arr # stores[h].list.arr
             /\ stores[g].list.arr # FreeArray
             /\ stores[g].list.arr # list.arr
             /\ arrays'[stores[g].list.arr] = arrays[stores[g].list.arr]
  <2>1. stores[g].list.arr \in Place
    BY <1>1, <1>4 DEF Store, Slice
  <2>2. stores[g].list.arr # stores[h].list.arr
    BY <1>4 DEF ListsInv, Handle
  <2>3. stores[g].list.arr # FreeArray
    BY <1>3, <1>4 DEF ListRefs
  <2> QED BY <2>1, <2>2, <2>3
<1>5. ASSUME handed # NONE
      PROVE  /\ handed.list.arr # list.arr
             /\ arrays'[handed.list.arr] = arrays[handed.list.arr]
  <2>1. handed.list.arr \in Place
    BY <1>5 DEF Typed, Handed, Slice
  <2>2. handed.list.arr # stores[h].list.arr
    BY <1>5 DEF ListsInv
  <2>3. handed.list.arr # FreeArray
    BY <1>3, <1>5 DEF ListRefs
  <2> QED BY <2>1, <2>2, <2>3
<1>6. Typed'
  BY <1>2, SMT DEF Typed
<1>7. ListsInv'
  <2>1. \A g \in Handle : stores'[g] # NONE =>
          Lists(stores'[g].vs, arrays'[stores'[g].list.arr], stores'[g].list.len)
    BY <1>2, <1>4 DEF ListsInv
  <2>2. stores'["copy"] # NONE => stores'["copy"].list.arr # stores'["live"].list.arr
    <3>1. stores["live"] # NONE /\ stores'["live"] # NONE
      BY <1>2 DEF Typed, Handle
    <3>2. CASE h = "live"
      BY <1>2, <1>4, <3>1, <3>2 DEF Handle
    <3>3. CASE h = "copy"
      BY <1>2, <1>4, <3>1, <3>3 DEF Handle
    <3> QED BY <3>2, <3>3 DEF Handle
  <2>3. ASSUME handed' # NONE
        PROVE  /\ \A g \in Handle : stores'[g] # NONE => stores'[g].list.arr # handed'.list.arr
               /\ Content(arrays', handed'.list) = handed'.was
    BY <1>2, <1>5, <2>3 DEF ListsInv, Content
  <2> QED BY <2>1, <2>2, <2>3 DEF ListsInv, Content
<1>8. SetsInv'
  BY <1>2, SetsKept DEF SameDomains
<1>9. ItemsInv'
  BY <1>2, ItemsKept DEF SameItem
<1>10. InternInv'
  BY InternKept
<1>11. ASSUME NEW g \in Handle \ {h}
       PROVE  View(g)' = View(g)
  BY <1>2, <1>4, ViewKept
<1> QED BY <1>6, <1>7, <1>8, <1>9, <1>10, <1>11 DEF KeepsOther

\* A store's list without a service of the store.
LEMMA RemovedFromStore ==
  ASSUME CopiesInv, NEW h \in Handle, stores[h] # NONE, NEW v \in VSName,
         stores[h].vs[v] # NONE,
         NEW less, less = removeFromTemplateIndex(arrays, stores[h].list, stores[h].vs[v])
  PROVE  RemovedWell(arrays, stores[h].list, stores[h].vs, v, less)
<1>1. /\ stores[h] \in Store /\ arrays \in Arrays
      /\ Lists(stores[h].vs, arrays[stores[h].list.arr], stores[h].list.len)
  BY DEF CopiesInv, Typed, ListsInv
<1>2. stores[h].vs \in ServiceMap /\ stores[h].list \in Slice
  BY <1>1, StoreParts
<1> QED BY <1>1, <1>2, RemovedFromList

\* SetVirtualService, in either store.
LEMMA SetVSKeeps ==
  ASSUME CopiesInv, NEW h \in Handle, stores[h] # NONE,
         NEW v \in VSName, NEW rev \in Rev, NEW uses \in BOOLEAN, SetVS(h, v, rev, uses)
  PROVE  KeepsOther(h)
<1> DEFINE st      == stores[h]
           new     == [name |-> v, rev |-> rev, uses |-> uses]
           less    == IF st.vs[v] = NONE THEN [list |-> st.list, heap |-> arrays]
                      ELSE removeFromTemplateIndex(arrays, st.list, st.vs[v])
           more    == updateTemplateIndex(less.heap, less.list, new)
           without == [st.vs EXCEPT ![v] = NONE]
           to      == WithVS(st, v, new, more.list)
<1>1. /\ arrays' = more.heap
      /\ stores' = [stores EXCEPT ![h] = to]
      /\ UNCHANGED <<sets, handed, lent, pool, interning>>
  BY DEF SetVS
<1>2. /\ st \in Store /\ arrays \in Arrays
      /\ Lists(st.vs, arrays[st.list.arr], st.list.len)
  BY DEF CopiesInv, Typed, ListsInv
<1>3. st.vs \in ServiceMap /\ st.list \in Slice
  BY <1>2, StoreParts
<1>4. new \in VirtualService /\ new.name = v
  BY DEF VirtualService
<1>5. without \in ServiceMap /\ without[v] = NONE
  BY <1>3 DEF ServiceMap
<1>6. [without EXCEPT ![v] = new] = [st.vs EXCEPT ![v] = new]
  BY <1>3 DEF ServiceMap
<1>7. /\ less.heap \in Arrays /\ less.list \in Slice /\ less.list.arr = st.list.arr
      /\ \A p \in Place \ {st.list.arr} : less.heap[p] = arrays[p]
      /\ Lists(without, less.heap[less.list.arr], less.list.len)
  <2>1. CASE st.vs[v] = NONE
    <3>1. without = st.vs
      BY <1>3, <2>1 DEF ServiceMap
    <3>2. less.list = st.list /\ less.heap = arrays
      BY <2>1, SMT
    <3> HIDE DEF st, less, without
    <3> QED BY <1>2, <1>3, <3>1, <3>2
  <2>2. CASE st.vs[v] # NONE
    <3>1. less = removeFromTemplateIndex(arrays, st.list, st.vs[v])
      BY <2>2
    <3> HIDE DEF less
    <3>2. RemovedWell(arrays, st.list, st.vs, v, less)
      BY <2>2, <3>1, RemovedFromStore
    <3> QED BY <3>2 DEF RemovedWell
  <2> QED BY <2>1, <2>2
<1>8. FreeArray \in Place
  BY ArrayFree DEF CopiesInv
<1>9. /\ more.heap \in Arrays /\ more.list \in Slice
      /\ more.list.arr \in {st.list.arr, FreeArray}
      /\ \A p \in Place \ {more.list.arr} : more.heap[p] = less.heap[p]
      /\ Lists([st.vs EXCEPT ![v] = new], more.heap[more.list.arr], more.list.len)
  <2>1. without[new.name] = NONE
    BY <1>4, <1>5
  <2> HIDE DEF st, new, less, without
  <2>2. AddedWell(less.heap, less.list, without, new, more)
    BY <1>4, <1>5, <1>7, <1>8, <2>1, AddedToList
  <2> HIDE DEF more
  <2> QED BY <1>4, <1>6, <1>7, <2>2 DEF AddedWell
<1> HIDE DEF st, new, less, without, more
<1>10. ASSUME NEW p \in Place \ {st.list.arr, FreeArray} PROVE arrays'[p] = arrays[p]
  <2>1. p # st.list.arr /\ p # more.list.arr
    BY <1>9
  <2> QED BY <1>1, <1>7, <1>9, <2>1
<1>12. /\ to \in Store /\ to.vs = [st.vs EXCEPT ![v] = new] /\ to.list = more.list
       /\ to.item = st.item /\ to.itemByUID = st.itemByUID /\ to.domains = st.domains
  <2>1. Shows(to, [st.vs EXCEPT ![v] = new], more.list, st.item, st.itemByUID, st.domains)
    BY <1>2, <1>4, <1>9, WithVSFacts
  <2> HIDE DEF to
  <2> QED BY <2>1 DEF Shows
<1> HIDE DEF to
<1>13. ServicesPut(h, to)
  BY <1>1, <1>9, <1>10, <1>12 DEF ServicesPut, st
<1> QED BY <1>13, ServicesChanged

\* DeleteVirtualService, in either store.
LEMMA DeleteVSKeeps ==
  ASSUME CopiesInv, NEW h \in Handle, stores[h] # NONE, NEW v \in VSName, DeleteVS(h, v)
  PROVE  KeepsOther(h)
<1> DEFINE st   == stores[h]
           less == removeFromTemplateIndex(arrays, st.list, st.vs[v])
           to   == WithVS(st, v, NONE, less.list)
<1>1. /\ st.vs[v] # NONE
      /\ arrays' = less.heap
      /\ stores' = [stores EXCEPT ![h] = to]
      /\ UNCHANGED <<sets, handed, lent, pool, interning>>
  BY DEF DeleteVS
<1>2. st \in Store
  BY DEF CopiesInv, Typed
<1>3. /\ less.heap \in Arrays /\ less.list \in Slice /\ less.list.arr = st.list.arr
      /\ \A p \in Place \ {st.list.arr} : less.heap[p] = arrays[p]
      /\ Lists([st.vs EXCEPT ![v] = NONE], less.heap[less.list.arr], less.list.len)
  <2>1. RemovedWell(arrays, st.list, st.vs, v, less)
    BY <1>1, RemovedFromStore
  <2> HIDE DEF less
  <2> QED BY <2>1 DEF RemovedWell
<1> HIDE DEF st, less
<1>4. /\ to \in Store /\ to.vs = [st.vs EXCEPT ![v] = NONE] /\ to.list = less.list
      /\ to.item = st.item /\ to.itemByUID = st.itemByUID /\ to.domains = st.domains
  <2>1. Shows(to, [st.vs EXCEPT ![v] = NONE], less.list, st.item, st.itemByUID, st.domains)
    BY <1>2, <1>3, WithVSFacts
  <2> HIDE DEF to
  <2> QED BY <2>1 DEF Shows
<1> HIDE DEF to
<1>5. ServicesPut(h, to)
  BY <1>1, <1>3, <1>4 DEF ServicesPut, st
<1> QED BY <1>5, ServicesChanged

\* A clone holds what the list held.
LEMMA ListCloned ==
  ASSUME NEW vs \in ServiceMap, NEW heap \in Arrays, NEW list \in Slice,
         Lists(vs, heap[list.arr], list.len)
  PROVE  /\ Content(heap, list) \in Seq(VirtualService)
         /\ Lists(vs, Content(heap, list), list.len)
         /\ [i \in 1 .. list.len |-> Content(heap, list)[i]] = Content(heap, list)
<1> DEFINE array == heap[list.arr]
           len == list.len
           clone == Content(heap, list)
<1>1. len \in Nat
  BY DEF Slice
<1>2. clone = [i \in 1 .. len |-> array[i]]
  BY DEF Content
<1>3. \A i \in 1 .. len : array[i] \in VirtualService
  BY DEF Lists
<1> HIDE DEF array, len, clone
<1>4. clone \in Seq(VirtualService) /\ Len(clone) = len
  BY <1>1, <1>2, <1>3, SMT
<1>5. \A i \in 1 .. len : clone[i] = array[i]
  BY <1>2
<1>6. Lists(vs, array, len)
  BY DEF array, len
<1>7. Lists(vs, clone, len)
  <2>1. \A w \in VSName : vs[w] # NONE =>
          /\ vs[w].name = w
          /\ vs[w].uses => \E i \in 1 .. len : clone[i].name = w
    BY <1>5, <1>6, SMT DEF Lists
  <2>2. \A i, j \in 1 .. len : clone[i].name = clone[j].name => i = j
    BY <1>5, <1>6, SMT DEF Lists
  <2>3. \A i \in 1 .. len : /\ clone[i] \in VirtualService
                             /\ clone[i].uses
                             /\ clone[i] = vs[clone[i].name]
    BY <1>5, <1>6 DEF Lists
  <2>4. len <= Len(clone)
    BY <1>1, <1>4, SMT
  <2> QED BY <2>1, <2>2, <2>3, <2>4 DEF Lists
<1>8. [i \in 1 .. len |-> clone[i]] = clone
  BY <1>2
<1> QED BY <1>4, <1>7, <1>8 DEF clone, len

\* GetVirtualServicesByTemplate hands out a clone of the list.
LEMMA GetListKeeps ==
  ASSUME CopiesInv, GetVirtualServicesByTemplate
  PROVE  /\ CopiesInv'
         /\ \A g \in Handle : View(g)' = View(g)
<1> USE DEF CopiesInv
<1> DEFINE live == stores["live"]
           was == Content(arrays, live.list)
<1>1. /\ handed = NONE
      /\ arrays' = [arrays EXCEPT ![FreeArray] = was]
      /\ handed' = [list |-> [arr |-> FreeArray, len |-> live.list.len], was |-> was]
      /\ UNCHANGED <<stores, sets, lent, pool, interning>>
  BY DEF GetVirtualServicesByTemplate, Clone
<1>2. live \in Store /\ "live" \in Handle /\ live # NONE
  BY DEF Typed, Handle
<1>3. /\ live.vs \in ServiceMap /\ live.list \in Slice /\ arrays \in Arrays
      /\ Lists(live.vs, arrays[live.list.arr], live.list.len)
      /\ live.list.len \in Nat
  BY <1>2 DEF Typed, Store, ServiceMap, ListsInv, Slice
<1>4. /\ was \in Seq(VirtualService)
      /\ [i \in 1 .. live.list.len |-> was[i]] = was
  <2> HIDE DEF live
  <2> QED BY <1>3, ListCloned
<1>5. FreeArray \in Place /\ FreeArray \notin ListRefs
  BY ArrayFree
<1> HIDE DEF was
<1>6. \A h \in Handle : stores[h] # NONE =>
         /\ stores[h].list.arr # FreeArray
         /\ arrays'[stores[h].list.arr] = arrays[stores[h].list.arr]
  BY <1>1, <1>5, SMT DEF ListRefs, Typed, Arrays
<1>7. /\ arrays' \in Arrays /\ arrays'[FreeArray] = was
  <2>1. was \in Seq(VirtualService \cup {NONE})
    BY <1>4, SMT
  <2> QED BY <1>1, <1>5, <2>1 DEF Typed, Arrays
<1>8. handed' \in Handed
  BY <1>1, <1>3, <1>4, <1>5 DEF Handed, Slice
<1>9. Typed'
  BY <1>1, <1>7, <1>8 DEF Typed
<1>10. ListsInv'
  <2>1. Content(arrays', handed'.list) = handed'.was
    <3>1. handed'.list.arr = FreeArray /\ handed'.list.len = live.list.len /\ handed'.was = was
      BY <1>1
    <3> QED BY <1>4, <1>7, <3>1 DEF Content
  <2>2. \A h \in Handle : stores'[h] # NONE =>
          Lists(stores'[h].vs, arrays'[stores'[h].list.arr], stores'[h].list.len)
    BY <1>1, <1>6 DEF ListsInv
  <2>3. \A h \in Handle : stores'[h] # NONE => stores'[h].list.arr # handed'.list.arr
    BY <1>1, <1>6
  <2>4. stores'["copy"] # NONE => stores'["copy"].list.arr # stores'["live"].list.arr
    BY <1>1 DEF ListsInv
  <2> QED BY <2>1, <2>2, <2>3, <2>4 DEF ListsInv, Content
<1>11. SetsInv'
  BY <1>1, SetsKept DEF SameDomains
<1>12. ItemsInv' /\ InternInv'
  BY <1>1 DEF ItemsInv, InternInv
<1>13. ASSUME NEW g \in Handle PROVE View(g)' = View(g)
  BY <1>1, <1>6, ViewKept
<1> QED BY <1>9, <1>10, <1>11, <1>12, <1>13

\* The reader is done with its list.
LEMMA DropListKeeps ==
  ASSUME CopiesInv, DropList
  PROVE  /\ CopiesInv'
         /\ \A g \in Handle : View(g)' = View(g)
<1>1. handed' = NONE /\ UNCHANGED <<stores, arrays, sets, lent, pool, interning>>
  BY DEF DropList
<1>2. Typed' /\ ListsInv' /\ ItemsInv' /\ InternInv'
  BY <1>1 DEF CopiesInv, Typed, ListsInv, ItemsInv, InternInv
<1>3. SetsInv'
  BY <1>1, SetsKept DEF CopiesInv, SameDomains
<1>4. ASSUME NEW g \in Handle PROVE View(g)' = View(g)
  BY <1>1, ViewKept
<1> QED BY <1>2, <1>3, <1>4 DEF CopiesInv

\* A resource of another kind is set or deleted in either store.
LEMMA ItemKeeps ==
  ASSUME CopiesInv, NEW h \in Handle, stores[h] # NONE, NEW kind,
         \/ \E u \in KindUID : SetItem(h, kind, u)
         \/ DeleteItem(h, kind)
  PROVE  /\ CopiesInv'
         /\ \A g \in Handle \ {h} : View(g)' = View(g)
<1> USE DEF CopiesInv
<1>1. stores[h] \in Store
  BY DEF Typed
<1>2. PICK item \in KindUID \cup {NONE}, uids \in SUBSET KindUID :
        /\ uids = {item} \ {NONE}
        /\ stores' = [stores EXCEPT ![h] = WithItem(stores[h], item, uids)]
        /\ UNCHANGED <<arrays, sets, handed, lent, pool, interning>>
  <2>1. ASSUME NEW u \in KindUID, SetItem(h, kind, u)
        PROVE  \E item \in KindUID \cup {NONE}, uids \in SUBSET KindUID :
                 /\ uids = {item} \ {NONE}
                 /\ stores' = [stores EXCEPT ![h] = WithItem(stores[h], item, uids)]
                 /\ UNCHANGED <<arrays, sets, handed, lent, pool, interning>>
    <3>1. (stores[h].itemByUID \ {stores[h].item}) \cup {u} = {u} \ {NONE}
      BY NilAssumption DEF ItemsInv
    <3> QED BY <2>1, <3>1 DEF SetItem
  <2>2. ASSUME DeleteItem(h, kind)
        PROVE  \E item \in KindUID \cup {NONE}, uids \in SUBSET KindUID :
                 /\ uids = {item} \ {NONE}
                 /\ stores' = [stores EXCEPT ![h] = WithItem(stores[h], item, uids)]
                 /\ UNCHANGED <<arrays, sets, handed, lent, pool, interning>>
    <3>1. stores[h].itemByUID \ {stores[h].item} = {NONE} \ {NONE}
      BY DEF ItemsInv
    <3> QED BY <2>2, <3>1 DEF DeleteItem
  <2> QED BY <2>1, <2>2
<1>3. /\ stores'[h] \in Store /\ stores'[h] # NONE
      /\ stores'[h].vs = stores[h].vs /\ stores'[h].list = stores[h].list
      /\ stores'[h].item = item /\ stores'[h].itemByUID = uids
      /\ stores'[h].domains = stores[h].domains
      /\ \A g \in Handle \ {h} : stores'[g] = stores[g]
      /\ stores' \in [Handle -> Store \cup {NONE}]
  <2> DEFINE to == WithItem(stores[h], item, uids)
  <2>1. stores' = [stores EXCEPT ![h] = to] /\ Typed
    BY <1>2
  <2>2. /\ to \in Store /\ to.vs = stores[h].vs /\ to.list = stores[h].list
        /\ to.item = item /\ to.itemByUID = uids /\ to.domains = stores[h].domains
    <3>1. Shows(to, stores[h].vs, stores[h].list, item, uids, stores[h].domains)
      BY <1>1, WithItemFacts
    <3> HIDE DEF to
    <3> QED BY <3>1 DEF Shows
  <2> HIDE DEF to
  <2> QED BY <2>1, <2>2, StorePut
<1>4. Typed'
  BY <1>2, <1>3 DEF Typed, Handle
<1>5. ListsInv'
  BY <1>2, <1>3, ListsKept DEF SameLists
<1>6. SetsInv'
  BY <1>2, <1>3, SetsKept DEF SameDomains
<1>7. ItemsInv' /\ InternInv'
  BY <1>2, <1>3 DEF ItemsInv, InternInv
<1>8. ASSUME NEW g \in Handle \ {h} PROVE View(g)' = View(g)
  BY <1>2, <1>3, ViewKept
<1> QED BY <1>4, <1>5, <1>6, <1>7, <1>8

ClonedFrom(clone, idx, from) ==
  /\ clone.idx \in [Node -> Place \cup {NONE}]
  /\ OnePlace(clone.idx)
  /\ \A n \in Node : clone.idx[n] \in {NONE, FreeSets}
  /\ clone.heap \in [Place -> [Node -> SUBSET Domain]]
  /\ \A p \in Place \ {FreeSets} : clone.heap[p] = sets[p]
  /\ \A n \in Node : DomainSets(clone.heap, clone.idx)[n] =
                     IF idx[n] = NONE THEN NONE ELSE from[n]

\* A clone has sets of its own with the content it was given.
LEMMA SetsCloned ==
  ASSUME Typed, SetsInv, NEW idx, NEW from,
         \A n \in Node : idx[n] # NONE => from[n] \in SUBSET Domain
  PROVE  ClonedFrom(CloneSets(idx, from), idx, from)
<1> DEFINE new == [n \in Node |-> IF idx[n] = NONE THEN {} ELSE from[n]]
           at == [n \in Node |-> IF idx[n] = NONE THEN NONE ELSE FreeSets]
           heap == [sets EXCEPT ![FreeSets] = new]
<1>1. CloneSets(idx, from) = [idx |-> at, heap |-> heap]
  BY DEF CloneSets
<1>2. FreeSets \in Place /\ FreeSets # NONE
  BY SetsFree, NilAssumption
<1>3. new \in [Node -> SUBSET Domain]
  OBVIOUS
<1>4. at \in [Node -> Place \cup {NONE}] /\ \A n \in Node : at[n] \in {NONE, FreeSets}
  BY <1>2
<1>5. /\ heap \in [Place -> [Node -> SUBSET Domain]]
      /\ heap[FreeSets] = new
      /\ \A p \in Place \ {FreeSets} : heap[p] = sets[p]
  <2> HIDE DEF new
  <2> QED BY <1>2, <1>3 DEF Typed
<1>6. \A n \in Node : DomainSets(heap, at)[n] = IF idx[n] = NONE THEN NONE ELSE from[n]
  <2>1. \A n \in Node : (IF at[n] = NONE THEN NONE ELSE heap[at[n]][n]) =
                          IF idx[n] = NONE THEN NONE ELSE from[n]
    <3> HIDE DEF heap
    <3> QED BY <1>2, <1>5
  <2> HIDE DEF heap, at
  <2> QED BY <2>1 DEF DomainSets
<1> HIDE DEF heap, at
<1>7. OnePlace(at)
  BY <1>2, <1>4 DEF OnePlace
<1>8. PICK clone : clone = [idx |-> at, heap |-> heap]
  OBVIOUS
<1>9. clone.idx = at /\ clone.heap = heap
  BY <1>8
<1>10. ClonedFrom(clone, idx, from)
  BY <1>4, <1>5, <1>6, <1>7, <1>9 DEF ClonedFrom
<1> QED BY <1>1, <1>8, <1>10

\* What a store's domain sets hold are domains.
LEMMA SetsHoldDomains ==
  ASSUME Typed, NEW h \in Handle, stores[h] # NONE, NEW n \in Node,
         stores[h].domains[n] # NONE
  PROVE  /\ stores[h].domains[n] \in Place
         /\ DomainSets(sets, stores[h].domains)[n] = sets[stores[h].domains[n]][n]
         /\ DomainSets(sets, stores[h].domains)[n] \in SUBSET Domain
<1>1. stores[h].domains[n] \in Place
  BY ZenonT(60) DEF Typed, Store
<1> QED BY <1>1, SMT DEF Typed, DomainSets

\* ReplaceNodeDomainsIndex stores a clone of the index of the last build.
LEMMA ReplaceKeeps ==
  ASSUME CopiesInv, NEW index \in [Node -> {NONE} \cup SUBSET Domain],
         ReplaceNodeDomainsIndex(index)
  PROVE  /\ CopiesInv'
         /\ View("copy")' = View("copy")
<1> USE DEF CopiesInv
<1> DEFINE live == stores["live"]
           clone == CloneSets(index, index)
<1>1. /\ stores' = [stores EXCEPT !["live"] = WithClones(live, live.list, clone.idx)]
      /\ sets' = clone.heap
      /\ UNCHANGED <<arrays, handed, lent, pool, interning>>
  BY DEF ReplaceNodeDomainsIndex
<1>2. /\ clone.idx \in [Node -> Place \cup {NONE}]
      /\ OnePlace(clone.idx)
      /\ \A n \in Node : clone.idx[n] \in {NONE, FreeSets}
      /\ clone.heap \in [Place -> [Node -> SUBSET Domain]]
      /\ \A p \in Place \ {FreeSets} : clone.heap[p] = sets[p]
  <2>1. \A n \in Node : index[n] # NONE => index[n] \in SUBSET Domain
    OBVIOUS
  <2>2. Typed /\ SetsInv
    OBVIOUS
  <2>3. ClonedFrom(clone, index, index)
    BY <2>1, <2>2, SetsCloned
  <2> HIDE DEF clone
  <2> QED BY <2>3 DEF ClonedFrom
<1>3. FreeSets \in Place /\ FreeSets \notin SetRefs
  BY SetsFree
<1> HIDE DEF clone
<1>4. live \in Store /\ live # NONE /\ "live" \in Handle /\ "copy" \in Handle
  BY DEF Typed, Handle
<1>5. /\ stores'["live"] \in Store /\ stores'["live"] # NONE
      /\ stores'["live"].vs = live.vs /\ stores'["live"].list = live.list
      /\ stores'["live"].item = live.item /\ stores'["live"].itemByUID = live.itemByUID
      /\ stores'["live"].domains = clone.idx
      /\ stores'["copy"] = stores["copy"]
      /\ stores' \in [Handle -> Store \cup {NONE}]
  <2> HIDE DEF live
  <2> DEFINE st == WithClones(live, live.list, clone.idx)
  <2>2. /\ st \in Store /\ st.vs = live.vs /\ st.list = live.list /\ st.item = live.item
        /\ st.itemByUID = live.itemByUID /\ st.domains = clone.idx
    <3>1. Shows(st, live.vs, live.list, live.item, live.itemByUID, clone.idx)
      <4>1. live.list \in Slice
        BY <1>4, StoreParts
      <4> QED BY <1>2, <1>4, <4>1, WithClonesFacts
    <3> HIDE DEF st
    <3> QED BY <3>1 DEF Shows
  <2>3. stores' = [stores EXCEPT !["live"] = st] /\ Typed
    BY <1>1
  <2> HIDE DEF st
  <2>4. "copy" \in Handle \ {"live"}
    BY <1>4
  <2> QED BY <1>4, <2>2, <2>3, <2>4, StorePut
<1>6. stores["copy"] # NONE =>
        \A n \in Node : /\ stores["copy"].domains[n] # FreeSets
                        /\ stores["copy"].domains[n] # NONE => stores["copy"].domains[n] \in Place
  BY <1>3, <1>4, SMT DEF SetRefs, Typed, Store
<1>7. lent # NONE => \A n \in Node : /\ lent.idx[n] # FreeSets
                                     /\ lent.idx[n] # NONE => lent.idx[n] \in Place
  BY <1>3, SMT DEF SetRefs, Typed, Lent
<1>8. Typed'
  BY <1>1, <1>2, <1>5 DEF Typed
<1>9. ListsInv'
  BY <1>1, <1>4, <1>5, ListsKept DEF SameLists, Handle
<1>10. SetsInv'
  <2>1. \A h \in Handle : stores'[h] # NONE => OnePlace(stores'[h].domains)
    BY <1>2, <1>4, <1>5 DEF SetsInv, Handle
  <2>2. stores'["copy"] # NONE => Apart(stores'["live"].domains, stores'["copy"].domains)
    BY <1>2, <1>5, <1>6 DEF Apart
  <2>3. lent' # NONE => Apart(stores'["live"].domains, lent'.idx)
    BY <1>1, <1>2, <1>5, <1>7, SMT DEF Apart
  <2>4. lent' # NONE => DomainSets(sets', lent'.idx) = lent'.was
    BY <1>1, <1>2, <1>7 DEF SetsInv, DomainSets
  <2>5. lent' # NONE /\ stores'["copy"] # NONE => Apart(stores'["copy"].domains, lent'.idx)
    BY <1>1, <1>4, <1>5 DEF SetsInv
  <2>6. lent' # NONE => OnePlace(lent'.idx)
    BY <1>1 DEF SetsInv
  <2> QED BY <2>1, <2>2, <2>3, <2>4, <2>5, <2>6 DEF SetsInv, Handle, OnePlace, Apart, DomainSets
<1>11. ItemsInv' /\ InternInv'
  BY <1>1, <1>4, <1>5 DEF ItemsInv, InternInv, Handle
<1>12. View("copy")' = View("copy")
  BY <1>1, <1>2, <1>4, <1>5, <1>6, ViewKept
<1> QED BY <1>8, <1>9, <1>10, <1>11, <1>12

\* GetNodeDomainsForNodes hands out a clone of the sets.
LEMMA GetDomainsKeeps ==
  ASSUME CopiesInv, GetNodeDomainsForNodes
  PROVE  /\ CopiesInv'
         /\ \A g \in Handle : View(g)' = View(g)
<1> USE DEF CopiesInv
<1> DEFINE idx == stores["live"].domains
           held == DomainSets(sets, idx)
           clone == CloneSets(idx, held)
<1>1. /\ lent = NONE
      /\ lent' = [idx |-> clone.idx, was |-> held]
      /\ sets' = clone.heap
      /\ UNCHANGED <<stores, arrays, handed, pool, interning>>
  BY DEF GetNodeDomainsForNodes
<1>2. "live" \in Handle /\ stores["live"] # NONE /\ stores["live"] \in Store
  BY DEF Typed, Handle
<1>3. \A n \in Node : idx[n] # NONE => held[n] \in SUBSET Domain
  BY <1>2, SetsHoldDomains
<1>4. held = [n \in Node |-> IF idx[n] = NONE THEN NONE ELSE held[n]]
  BY DEF DomainSets
<1> HIDE DEF held
<1>5. /\ clone.idx \in [Node -> Place \cup {NONE}]
      /\ OnePlace(clone.idx)
      /\ \A n \in Node : clone.idx[n] \in {NONE, FreeSets}
      /\ clone.heap \in [Place -> [Node -> SUBSET Domain]]
      /\ \A p \in Place \ {FreeSets} : clone.heap[p] = sets[p]
      /\ DomainSets(clone.heap, clone.idx) = held
  <2>1. Typed /\ SetsInv
    OBVIOUS
  <2> HIDE DEF idx
  <2>2. /\ clone.idx \in [Node -> Place \cup {NONE}]
        /\ OnePlace(clone.idx)
        /\ \A n \in Node : clone.idx[n] \in {NONE, FreeSets}
        /\ clone.heap \in [Place -> [Node -> SUBSET Domain]]
        /\ \A p \in Place \ {FreeSets} : clone.heap[p] = sets[p]
        /\ \A n \in Node : DomainSets(clone.heap, clone.idx)[n] =
                           IF idx[n] = NONE THEN NONE ELSE held[n]
    <3>1. ClonedFrom(clone, idx, held)
      BY <1>3, <2>1, SetsCloned
    <3> HIDE DEF clone
    <3> QED BY <3>1 DEF ClonedFrom
  <2>3. DomainSets(clone.heap, clone.idx) = held
    <3> HIDE DEF clone
    <3> QED BY <1>4, <2>2 DEF DomainSets
  <2> QED BY <2>2, <2>3
<1>6. FreeSets \in Place /\ FreeSets \notin SetRefs
  BY SetsFree
<1> HIDE DEF clone, idx
<1>7. lent' \in Lent /\ lent' # NONE /\ lent'.idx = clone.idx /\ lent'.was = held
  <2>1. held \in [Node -> {NONE} \cup SUBSET Domain]
    BY <1>3, <1>4
  <2> QED BY <1>1, <1>5, <2>1, NilAssumption, SMT DEF Lent
<1>8. \A h \in Handle : stores[h] # NONE => \A n \in Node :
         /\ stores[h].domains[n] # FreeSets
         /\ stores[h].domains[n] # NONE =>
              /\ stores[h].domains[n] \in Place
              /\ sets'[stores[h].domains[n]][n] = sets[stores[h].domains[n]][n]
  <2> SUFFICES ASSUME NEW h \in Handle, stores[h] # NONE, NEW n \in Node
               PROVE  /\ stores[h].domains[n] # FreeSets
                      /\ stores[h].domains[n] # NONE =>
                          /\ stores[h].domains[n] \in Place
                          /\ sets'[stores[h].domains[n]][n] = sets[stores[h].domains[n]][n]
    OBVIOUS
  <2>1. stores[h].domains[n] \in SetRefs
    BY SMT DEF SetRefs
  <2> QED BY <1>1, <1>5, <1>6, <2>1, SetsHoldDomains
<1>9. Typed'
  BY <1>1, <1>5, <1>7 DEF Typed
<1>10. ListsInv'
  BY <1>1, ListsKept DEF SameLists
<1>11. SetsInv'
  <2>1. \A h \in Handle : stores'[h] # NONE => Apart(stores'[h].domains, lent'.idx)
    <3>1. ASSUME NEW h \in Handle, stores'[h] # NONE, NEW n \in Node, stores'[h].domains[n] # NONE
          PROVE  stores'[h].domains[n] # lent'.idx[n]
      <4>1. stores[h].domains[n] # FreeSets /\ stores[h].domains[n] # NONE
        BY <1>1, <1>8, <3>1
      <4>2. clone.idx[n] = NONE \/ clone.idx[n] = FreeSets
        BY <1>5
      <4> QED BY <1>1, <1>7, <4>1, <4>2
    <3> QED BY <3>1 DEF Apart
  <2>2. DomainSets(sets', lent'.idx) = lent'.was
    BY <1>1, <1>5, <1>7
  <2>3. OnePlace(lent'.idx)
    BY <1>5, <1>7
  <2>4. /\ \A h \in Handle : stores'[h] # NONE => OnePlace(stores'[h].domains)
        /\ stores'["copy"] # NONE => Apart(stores'["live"].domains, stores'["copy"].domains)
    BY <1>1 DEF SetsInv
  <2> QED BY <2>1, <2>2, <2>3, <2>4 DEF SetsInv, OnePlace, Apart, DomainSets
<1>12. ItemsInv' /\ InternInv'
  BY <1>1 DEF ItemsInv, InternInv
<1>13. ASSUME NEW g \in Handle PROVE View(g)' = View(g)
  BY <1>1, <1>8, ViewKept
<1> QED BY <1>9, <1>10, <1>11, <1>12, <1>13

\* A validator deletes a domain from the sets it got.
LEMMA ExcludeKeeps ==
  ASSUME CopiesInv, NEW n \in Node, NEW d \in Domain, Exclude(n, d)
  PROVE  /\ CopiesInv'
         /\ \A g \in Handle : View(g)' = View(g)
<1> USE DEF CopiesInv
<1>1. /\ lent # NONE /\ lent.idx[n] # NONE
      /\ sets' = [sets EXCEPT ![lent.idx[n]][n] = @ \ {d}]
      /\ lent' = [lent EXCEPT !.was[n] = @ \ {d}]
      /\ UNCHANGED <<stores, arrays, handed, pool, interning>>
  BY DEF Exclude
<1>2. lent \in Lent /\ lent.idx[n] \in Place
  BY <1>1 DEF Typed, Lent
<1>3. \A p \in Place, m \in Node :
        sets'[p][m] = IF p = lent.idx[n] /\ m = n THEN sets[p][m] \ {d} ELSE sets[p][m]
  BY <1>1, <1>2 DEF Typed
<1>4. sets' \in [Place -> [Node -> SUBSET Domain]]
  BY <1>1, <1>2 DEF Typed
<1>5. lent.was = DomainSets(sets, lent.idx)
  BY <1>1 DEF SetsInv
<1>6. \A m \in Node : lent.was[m] = IF lent.idx[m] = NONE THEN NONE ELSE sets[lent.idx[m]][m]
  BY <1>5 DEF DomainSets
<1> DEFINE now == [lent.was EXCEPT ![n] = @ \ {d}]
<1>7. lent' = [idx |-> lent.idx, was |-> now]
  BY <1>1, <1>2 DEF Lent
<1>8. now \in [Node -> {NONE} \cup SUBSET Domain]
  <2>1. lent.was \in [Node -> {NONE} \cup SUBSET Domain]
    BY <1>2 DEF Lent
  <2>2. lent.was[n] \in SUBSET Domain
    BY <1>1, <1>2, <1>6, SMT DEF Typed
  <2> QED BY <2>1, <2>2
<1>9. lent' \in Lent /\ lent' # NONE /\ lent'.idx = lent.idx /\ lent'.was = now
  <2> HIDE DEF now
  <2>1. lent.idx \in [Node -> Place \cup {NONE}]
    BY <1>2 DEF Lent
  <2> QED BY <1>7, <1>8, <2>1, NilAssumption, SMT DEF Lent
<1>10. Typed'
  BY <1>1, <1>4, <1>9 DEF Typed
<1>11. ListsInv'
  BY <1>1, ListsKept DEF SameLists
<1>12. \A h \in Handle : stores[h] # NONE => \A m \in Node : stores[h].domains[m] # NONE =>
          sets'[stores[h].domains[m]][m] = sets[stores[h].domains[m]][m]
  <2> SUFFICES ASSUME NEW h \in Handle, stores[h] # NONE, NEW m \in Node,
                      stores[h].domains[m] # NONE
               PROVE  sets'[stores[h].domains[m]][m] = sets[stores[h].domains[m]][m]
    OBVIOUS
  <2>1. stores[h].domains[m] \in Place
    BY SetsHoldDomains
  <2>2. stores[h].domains[m] # lent.idx[m]
    BY <1>1 DEF SetsInv, Apart
  <2> QED BY <1>3, <2>1, <2>2
<1>13. SetsInv'
  <2>1. DomainSets(sets', lent'.idx) = lent'.was
    <3>1. ASSUME NEW m \in Node
          PROVE  now[m] = IF lent.idx[m] = NONE THEN NONE ELSE sets'[lent.idx[m]][m]
      <4>1. lent.idx[m] # NONE => lent.idx[m] \in Place
        BY <1>2 DEF Lent
      <4>2. now[m] = IF m = n THEN lent.was[n] \ {d} ELSE lent.was[m]
        BY <1>2 DEF Lent
      <4> QED BY <1>1, <1>3, <1>6, <4>1, <4>2, SMT
    <3> HIDE DEF now
    <3>2. now = [m \in Node |-> now[m]]
      BY <1>8
    <3>3. DomainSets(sets', lent.idx) = now
      BY <3>1, <3>2 DEF DomainSets
    <3> QED BY <1>9, <3>3
  <2>2. /\ OnePlace(lent'.idx)
        /\ \A h \in Handle : stores'[h] # NONE => Apart(stores'[h].domains, lent'.idx)
        /\ \A h \in Handle : stores'[h] # NONE => OnePlace(stores'[h].domains)
        /\ stores'["copy"] # NONE => Apart(stores'["live"].domains, stores'["copy"].domains)
    BY <1>1, <1>9 DEF SetsInv
  <2> QED BY <2>1, <2>2 DEF SetsInv, OnePlace, Apart, DomainSets
<1>14. ItemsInv' /\ InternInv'
  BY <1>1 DEF ItemsInv, InternInv
<1>15. ASSUME NEW g \in Handle PROVE View(g)' = View(g)
  BY <1>1, <1>12, ViewKept
<1> QED BY <1>10, <1>11, <1>13, <1>14, <1>15

\* The validator is done with its sets.
LEMMA DropDomainsKeeps ==
  ASSUME CopiesInv, DropDomains
  PROVE  /\ CopiesInv'
         /\ \A g \in Handle : View(g)' = View(g)
<1>1. lent' = NONE /\ UNCHANGED <<stores, arrays, sets, handed, pool, interning>>
  BY DEF DropDomains
<1>2. Typed' /\ ItemsInv' /\ InternInv'
  BY <1>1 DEF CopiesInv, Typed, ItemsInv, InternInv
<1>3. ListsInv'
  BY <1>1, ListsKept DEF CopiesInv, SameLists
<1>4. SetsInv'
  BY <1>1 DEF CopiesInv, SetsInv, OnePlace, Apart
<1>5. ASSUME NEW g \in Handle PROVE View(g)' = View(g)
  BY <1>1, ViewKept
<1> QED BY <1>2, <1>3, <1>4, <1>5 DEF CopiesInv

\* Copy clones the list and the sets of the live store.
LEMMA CopyKeeps ==
  ASSUME CopiesInv, Copy
  PROVE  /\ CopiesInv'
         /\ View("live")' = View("live")
<1> USE DEF CopiesInv
<1> DEFINE live == stores["live"]
           held == DomainSets(sets, live.domains)
           clone == CloneSets(live.domains, held)
           list == [arr |-> FreeArray, len |-> live.list.len]
           array == Content(arrays, live.list)
<1>1. /\ stores["copy"] = NONE
      /\ stores' = [stores EXCEPT !["copy"] = WithClones(live, list, clone.idx)]
      /\ arrays' = [arrays EXCEPT ![FreeArray] = array]
      /\ sets' = clone.heap
      /\ UNCHANGED <<handed, lent, pool, interning>>
  BY DEF Copy, Clone
<1>2. "live" \in Handle /\ "copy" \in Handle /\ live # NONE /\ live \in Store
  BY DEF Typed, Handle
<1>3. /\ live.vs \in ServiceMap /\ live.list \in Slice /\ arrays \in Arrays
      /\ Lists(live.vs, arrays[live.list.arr], live.list.len)
      /\ live.list.len \in Nat /\ live.list.arr \in Place
      /\ live.domains \in [Node -> Place \cup {NONE}]
  BY <1>2 DEF Typed, Store, ServiceMap, ListsInv, Slice
<1>4. array \in Seq(VirtualService) /\ Lists(live.vs, array, live.list.len)
  <2> HIDE DEF live
  <2> QED BY <1>3, ListCloned
<1>5. FreeArray \in Place /\ FreeArray \notin ListRefs
  BY ArrayFree
<1>6. FreeSets \in Place /\ FreeSets \notin SetRefs
  BY SetsFree
<1>7. \A n \in Node : live.domains[n] # NONE => held[n] \in SUBSET Domain
  BY <1>2, SetsHoldDomains
<1> HIDE DEF held, array
<1>8. /\ clone.idx \in [Node -> Place \cup {NONE}]
      /\ OnePlace(clone.idx)
      /\ \A n \in Node : clone.idx[n] \in {NONE, FreeSets}
      /\ clone.heap \in [Place -> [Node -> SUBSET Domain]]
      /\ \A p \in Place \ {FreeSets} : clone.heap[p] = sets[p]
  <2>1. Typed /\ SetsInv
    OBVIOUS
  <2> HIDE DEF live
  <2>2. ClonedFrom(clone, live.domains, held)
    BY <1>7, <2>1, SetsCloned
  <2> HIDE DEF clone
  <2> QED BY <2>2 DEF ClonedFrom
<1> HIDE DEF clone
<1>9. list \in Slice /\ list.arr = FreeArray /\ list.len = live.list.len
  BY <1>3, <1>5 DEF Slice
<1> HIDE DEF list
<1>10. /\ stores'["copy"] \in Store /\ stores'["copy"] # NONE
       /\ stores'["copy"].vs = live.vs /\ stores'["copy"].list = list
       /\ stores'["copy"].item = live.item /\ stores'["copy"].itemByUID = live.itemByUID
       /\ stores'["copy"].domains = clone.idx
       /\ stores'["live"] = live
       /\ stores' \in [Handle -> Store \cup {NONE}]
  <2> DEFINE st == WithClones(live, list, clone.idx)
  <2>2. /\ st \in Store /\ st.vs = live.vs /\ st.list = list /\ st.item = live.item
        /\ st.itemByUID = live.itemByUID /\ st.domains = clone.idx
    <3> HIDE DEF live
    <3>1. Shows(st, live.vs, list, live.item, live.itemByUID, clone.idx)
      BY <1>2, <1>8, <1>9, WithClonesFacts
    <3> HIDE DEF st
    <3> QED BY <3>1 DEF Shows
  <2>3. stores' = [stores EXCEPT !["copy"] = st] /\ Typed
    BY <1>1
  <2> HIDE DEF st
  <2>4. "live" \in Handle \ {"copy"}
    BY <1>2
  <2> QED BY <1>2, <2>2, <2>3, <2>4, StorePut
<1>11. /\ arrays' \in Arrays /\ arrays'[FreeArray] = array
       /\ \A p \in Place \ {FreeArray} : arrays'[p] = arrays[p]
  <2>1. array \in Seq(VirtualService \cup {NONE})
    BY <1>4, SMT
  <2> QED BY <1>1, <1>3, <1>5, <2>1 DEF Arrays
<1>12. live.list.arr # FreeArray /\ (handed # NONE => handed.list.arr # FreeArray)
  BY <1>2, <1>5 DEF ListRefs
<1>13. \A n \in Node : /\ live.domains[n] # FreeSets
                       /\ live.domains[n] # NONE => live.domains[n] \in Place
  BY <1>2, <1>3, <1>6, SMT DEF SetRefs
<1>14. lent # NONE => \A n \in Node : /\ lent.idx[n] # FreeSets
                                      /\ lent.idx[n] # NONE => lent.idx[n] \in Place
  BY <1>6, SMT DEF SetRefs, Typed, Lent
<1>15. Typed'
  BY <1>1, <1>2, <1>8, <1>10, <1>11 DEF Typed
<1>16. ListsInv'
  <2>1. \A h \in Handle : stores'[h] # NONE =>
          Lists(stores'[h].vs, arrays'[stores'[h].list.arr], stores'[h].list.len)
    BY <1>3, <1>4, <1>9, <1>10, <1>11, <1>12, SMT DEF Handle
  <2>2. stores'["copy"] # NONE => stores'["copy"].list.arr # stores'["live"].list.arr
    BY <1>9, <1>10, <1>12
  <2>3. ASSUME handed' # NONE
        PROVE  /\ \A h \in Handle : stores'[h] # NONE => stores'[h].list.arr # handed'.list.arr
               /\ Content(arrays', handed'.list) = handed'.was
    <3>1. handed' = handed /\ handed # NONE
      BY <1>1, <2>3
    <3>2. handed.list.arr \in Place /\ handed.list.arr # FreeArray
          /\ handed.list.arr # live.list.arr
      BY <1>2, <1>12, <3>1 DEF Typed, Handed, Slice, ListsInv
    <3>3. Content(arrays', handed.list) = handed.was
      BY <1>11, <3>1, <3>2 DEF ListsInv, Content
    <3> QED BY <1>9, <1>10, <3>1, <3>2, <3>3 DEF Handle
  <2> QED BY <2>1, <2>2, <2>3 DEF ListsInv, Content
<1>17. SetsInv'
  <2>1. \A h \in Handle : stores'[h] # NONE => OnePlace(stores'[h].domains)
    BY <1>2, <1>8, <1>10 DEF SetsInv, Handle
  <2>2. Apart(stores'["live"].domains, stores'["copy"].domains)
    BY <1>8, <1>10, <1>13 DEF Apart
  <2>3. ASSUME lent' # NONE
        PROVE  /\ OnePlace(lent'.idx)
               /\ \A h \in Handle : stores'[h] # NONE => Apart(stores'[h].domains, lent'.idx)
               /\ DomainSets(sets', lent'.idx) = lent'.was
    <3>1. lent' = lent /\ lent # NONE
      BY <1>1, <2>3
    <3>2. OnePlace(lent.idx) /\ Apart(live.domains, lent.idx)
      BY <1>2, <3>1 DEF SetsInv
    <3>3. Apart(clone.idx, lent.idx)
      BY <1>8, <1>14, <3>1 DEF Apart
    <3>4. DomainSets(sets', lent.idx) = lent.was
      BY <1>1, <1>8, <1>14, <3>1 DEF SetsInv, DomainSets
    <3> QED BY <1>10, <3>1, <3>2, <3>3, <3>4 DEF Handle
  <2> QED BY <2>1, <2>2, <2>3 DEF SetsInv, OnePlace, Apart, DomainSets
<1>18. ItemsInv' /\ InternInv'
  BY <1>1, <1>2, <1>10 DEF ItemsInv, InternInv, Handle
<1>19. View("live")' = View("live")
  BY <1>1, <1>2, <1>3, <1>8, <1>10, <1>11, <1>12, <1>13, ViewKept
<1> QED BY <1>15, <1>16, <1>17, <1>18, <1>19

\* The dry run is over.
LEMMA DropCopyKeeps ==
  ASSUME CopiesInv, DropCopy
  PROVE  /\ CopiesInv'
         /\ View("live")' = View("live")
<1> USE DEF CopiesInv
<1>1. /\ stores' = [stores EXCEPT !["copy"] = NONE]
      /\ interning' = [interning EXCEPT !["copy"] = [pc |-> "idle", got |-> NONE]]
      /\ UNCHANGED <<arrays, sets, handed, lent, pool>>
  BY DEF DropCopy
<1>2. /\ "live" \in Handle /\ "copy" \in Handle
      /\ stores'["copy"] = NONE /\ stores'["live"] = stores["live"]
      /\ stores' \in [Handle -> Store \cup {NONE}]
  BY <1>1 DEF Typed, Handle
<1>3. Typed'
  BY <1>1, <1>2 DEF Typed
<1>4. ListsInv'
  BY <1>1, <1>2 DEF ListsInv, Handle, Content
<1>5. SetsInv'
  BY <1>1, <1>2 DEF SetsInv, Handle, OnePlace, Apart, DomainSets
<1>6. ItemsInv'
  BY <1>1, <1>2 DEF ItemsInv, Handle
<1>7. InternInv'
  BY <1>1 DEF InternInv, Typed
<1>8. View("live")' = View("live")
  BY <1>1, <1>2, ViewKept
<1> QED BY <1>3, <1>4, <1>5, <1>6, <1>7, <1>8

\* Interning a string, in either store: the first look and the second one.
LEMMA InternKeeps ==
  ASSUME CopiesInv, NEW h \in Handle, Intern(h) \/ InternSlow(h)
  PROVE  /\ CopiesInv'
         /\ \A g \in Handle : View(g)' = View(g)
<1> USE DEF CopiesInv
<1>1. UNCHANGED <<stores, arrays, sets, handed, lent>>
  BY DEF Intern, InternSlow
<1>2. /\ pool' \in Handle \cup {NONE}
      /\ pool # NONE => pool' = pool
      /\ interning' \in [Handle -> [pc : {"idle", "slow", "done"}, got : Handle \cup {NONE}]]
      /\ InternInv'
  <2>1. CASE Intern(h)
    <3>1. pool' = pool
      BY <2>1 DEF Intern
    <3>2. CASE pool # NONE
      BY <2>1, <3>1, <3>2 DEF Intern, Typed, InternInv
    <3>3. CASE pool = NONE
      BY <2>1, <3>1, <3>3 DEF Intern, Typed, InternInv
    <3> QED BY <3>2, <3>3
  <2>2. CASE InternSlow(h)
    <3>1. pool' # NONE /\ pool' \in Handle /\ (pool # NONE => pool' = pool)
      BY <2>2, NilAssumption DEF InternSlow, Typed
    <3>2. interning' = [interning EXCEPT ![h] = [pc |-> "done", got |-> pool']]
      BY <2>2 DEF InternSlow
    <3> QED BY <3>1, <3>2 DEF Typed, InternInv
  <2> QED BY <2>1, <2>2
<1>3. Typed'
  BY <1>1, <1>2 DEF Typed
<1>4. ListsInv'
  BY <1>1, ListsKept DEF SameLists
<1>5. SetsInv'
  BY <1>1, SetsKept DEF SameDomains
<1>6. ItemsInv'
  BY <1>1 DEF ItemsInv
<1>7. ASSUME NEW g \in Handle PROVE View(g)' = View(g)
  BY <1>1, ViewKept
<1> QED BY <1>2, <1>3, <1>4, <1>5, <1>6, <1>7

\* An empty live store, and nothing handed out.
LEMMA CopiesInitInv == CopiesInit => CopiesInv
<1> SUFFICES ASSUME CopiesInit PROVE CopiesInv
  OBVIOUS
<1>1. "live" \in Handle /\ "copy" \in Handle
  BY DEF Handle
<1>2. EmptyStore \in Store /\ EmptyStore # NONE /\ 1 \in Place
  <2>1. 1 \in Place
    BY RoomAssumption, SMT DEF Place
  <2>2. EmptyStore \in Store
    BY <2>1, SMT DEF EmptyStore, Store, Slice
  <2> QED BY <2>1, <2>2, NilAssumption
<1>3. /\ stores["live"] = EmptyStore /\ stores["copy"] = NONE
      /\ \A h \in Handle : stores[h] # NONE => stores[h] = EmptyStore
      /\ stores \in [Handle -> Store \cup {NONE}]
  BY <1>1, <1>2 DEF CopiesInit
<1>4. arrays \in Arrays /\ arrays[1] = <<>>
  BY <1>2, SMT DEF CopiesInit, Arrays
<1>5. Typed
  BY <1>2, <1>3, <1>4 DEF CopiesInit, Typed
<1>6. ListsInv
  <2>1. Lists(EmptyStore.vs, arrays[EmptyStore.list.arr], EmptyStore.list.len)
    <3>1. /\ EmptyStore.list.arr = 1 /\ EmptyStore.list.len = 0
          /\ \A v \in VSName : EmptyStore.vs[v] = NONE
      BY DEF EmptyStore
    <3>2. Len(arrays[1]) = 0 /\ 1 .. 0 = {}
      BY <1>4, SMT
    <3> QED BY <3>1, <3>2, SMT DEF Lists
  <2> QED BY <1>3, <2>1 DEF CopiesInit, ListsInv
<1>7. SetsInv
  <2>1. OnePlace(EmptyStore.domains)
    BY <1>2 DEF EmptyStore, OnePlace
  <2> QED BY <1>3, <2>1 DEF CopiesInit, SetsInv
<1>8. ItemsInv
  <2>1. EmptyStore.item = NONE /\ EmptyStore.itemByUID = {}
    BY SMT DEF EmptyStore
  <2> QED BY <1>3, <2>1 DEF ItemsInv
<1>9. InternInv
  BY DEF CopiesInit, InternInv
<1> QED BY <1>5, <1>6, <1>7, <1>8, <1>9 DEF CopiesInv

\* Every step keeps the invariant and changes what one store shows at most.
LEMMA StepKeeps ==
  ASSUME CopiesInv, [CopiesNext]_copyVars
  PROVE  /\ CopiesInv'
         /\ View("live")' = View("live") \/ View("copy")' = View("copy")
<1>1. "live" \in Handle /\ "copy" \in Handle /\ "live" # "copy"
  BY DEF Handle
<1>2. ASSUME NEW h \in Handle, stores[h] # NONE, Change(h)
      PROVE  CopiesInv' /\ (View("live")' = View("live") \/ View("copy")' = View("copy"))
  <2>1. ASSUME NEW v \in VSName, NEW rev \in Rev, NEW uses \in BOOLEAN, SetVS(h, v, rev, uses)
        PROVE  CopiesInv' /\ \A g \in Handle \ {h} : View(g)' = View(g)
    BY <1>2, <2>1, SetVSKeeps DEF KeepsOther
  <2>2. ASSUME NEW v \in VSName, DeleteVS(h, v)
        PROVE  CopiesInv' /\ \A g \in Handle \ {h} : View(g)' = View(g)
    BY <1>2, <2>2, DeleteVSKeeps DEF KeepsOther
  <2>3. ASSUME ChangeItem(h)
        PROVE  CopiesInv' /\ \A g \in Handle \ {h} : View(g)' = View(g)
    <3>1. PICK kind \in Kind : \/ \E u \in KindUID : SetItem(h, kind, u)
                              \/ DeleteItem(h, kind)
      BY <2>3 DEF ChangeItem, Kind, SetListener, SetVirtualServiceTemplate, SetRoute,
                  SetHTTPFilter, SetAccessLog, SetPolicy, SetTracing, DeleteListener,
                  DeleteVirtualServiceTemplate, DeleteRoute, DeleteHTTPFilter,
                  DeleteAccessLog, DeletePolicy, DeleteTracing
    <3> QED BY <1>2, <3>1, ItemKeeps
  <2>4. ASSUME Intern(h) \/ InternSlow(h)
        PROVE  CopiesInv' /\ \A g \in Handle \ {h} : View(g)' = View(g)
    BY <2>4, InternKeeps
  <2>5. CopiesInv' /\ \A g \in Handle \ {h} : View(g)' = View(g)
    BY <1>2, <2>1, <2>2, <2>3, <2>4 DEF Change
  <2>6. "live" \in Handle \ {h} \/ "copy" \in Handle \ {h}
    BY <1>1
  <2> QED BY <2>5, <2>6
<1>3. CASE GetVirtualServicesByTemplate
  BY <1>1, <1>3, GetListKeeps
<1>4. CASE DropList
  BY <1>1, <1>4, DropListKeeps
<1>5. ASSUME NEW index \in [Node -> {NONE} \cup SUBSET Domain], ReplaceNodeDomainsIndex(index)
      PROVE  CopiesInv' /\ (View("live")' = View("live") \/ View("copy")' = View("copy"))
  BY <1>5, ReplaceKeeps
<1>6. CASE GetNodeDomainsForNodes
  BY <1>1, <1>6, GetDomainsKeeps
<1>7. CASE DropDomains
  BY <1>1, <1>7, DropDomainsKeeps
<1>8. ASSUME NEW n \in Node, NEW d \in Domain, Exclude(n, d)
      PROVE  CopiesInv' /\ (View("live")' = View("live") \/ View("copy")' = View("copy"))
  BY <1>1, <1>8, ExcludeKeeps
<1>9. CASE Copy
  BY <1>9, CopyKeeps
<1>10. CASE DropCopy
  BY <1>10, DropCopyKeeps
<1>11. CASE UNCHANGED copyVars
  <2>1. UNCHANGED <<stores, arrays, sets, handed, lent, pool, interning>>
    BY <1>11 DEF copyVars
  <2>2. Typed' /\ ItemsInv' /\ InternInv'
    BY <2>1 DEF CopiesInv, Typed, ItemsInv, InternInv
  <2>3. ListsInv' /\ SetsInv'
    BY <2>1, ListsKept, SetsKept DEF CopiesInv, SameLists, SameDomains
  <2>4. View("live")' = View("live")
    BY <1>1, <2>1, ViewKept
  <2> QED BY <2>2, <2>3, <2>4 DEF CopiesInv
<1> QED BY <1>2, <1>3, <1>4, <1>5, <1>6, <1>7, <1>8, <1>9, <1>10, <1>11 DEF CopiesNext

\* The invariant is inductive.
LEMMA CopiesInvHolds == CopiesSpec => []CopiesInv
<1>1. CopiesInv /\ [CopiesNext]_copyVars => CopiesInv'
  BY StepKeeps
<1> QED BY CopiesInitInv, <1>1, PTL DEF CopiesSpec

\* A dry run on Copy() never shows in the live store and the live store never
\* in the dry run's, for any services, nodes and domains.
THEOREM CopiesIsolated == CopiesSpec => CopyIsolated
<1>1. CopiesInv /\ [CopiesNext]_copyVars =>
        [View("live")' = View("live") \/ View("copy")' = View("copy")]_copyVars
  BY StepKeeps
<1> QED BY CopiesInvHolds, <1>1, PTL DEF CopiesSpec, CopyIsolated

\* What GetVirtualServicesByTemplate and GetNodeDomainsForNodes handed out
\* stays as it was, and both stores intern one representative of a string.
THEOREM HandedOutSafely == CopiesSpec => []SharedSafely
<1>1. CopiesInv => SharedSafely
  BY DEF CopiesInv, ListsInv, SetsInv, InternInv, SharedSafely, HandedOutStable, InternedOnce
<1> QED BY CopiesInvHolds, <1>1, PTL

\* The template list and the maps by UID of either store agree with its maps by
\* name, although removal and append work in place on arrays.
THEOREM StoreIndicesAgree == CopiesSpec => []IndicesAgree
<1>1. ASSUME CopiesInv
      PROVE  IndicesAgree
  <2> SUFFICES ASSUME NEW h \in Handle, stores[h] # NONE
               PROVE  LET list == Content(arrays, stores[h].list)
                          users == {v \in VSName : stores[h].vs[v] # NONE /\ stores[h].vs[v].uses}
                      IN /\ {list[i] : i \in DOMAIN list} = {stores[h].vs[v] : v \in users}
                         /\ \A i, j \in DOMAIN list : list[i] = list[j] => i = j
                         /\ \A u \in KindUID : GetByUID(h, u) <=> u \in MapItems(h)
    BY DEF IndicesAgree
  <2> DEFINE array == arrays[stores[h].list.arr]
             len == stores[h].list.len
             vs == stores[h].vs
             list == Content(arrays, stores[h].list)
             users == {v \in VSName : vs[v] # NONE /\ vs[v].uses}
  <2>1. DOMAIN list = 1 .. len /\ \A i \in 1 .. len : list[i] = array[i]
    BY DEF Content
  <2>2. Lists(vs, array, len)
    BY <1>1 DEF CopiesInv, ListsInv
  <2>3. \A u \in KindUID : GetByUID(h, u) <=> u \in MapItems(h)
    BY <1>1, NilAssumption DEF CopiesInv, ItemsInv, GetByUID, MapItems
  <2> HIDE DEF array, len, list, vs
  <2>4. \A i, j \in DOMAIN list : list[i] = list[j] => i = j
    BY <2>1, <2>2, SMT DEF Lists
  <2>5. ASSUME NEW i \in DOMAIN list
        PROVE  \E v \in users : list[i] = vs[v]
    <3>1. /\ list[i] \in VirtualService /\ list[i].uses /\ list[i] = vs[list[i].name]
          /\ list[i].name \in VSName /\ list[i] # NONE
      BY <2>1, <2>2, NilAssumption, SMT DEF Lists, VirtualService
    <3> QED BY <3>1
  <2>6. ASSUME NEW v \in users
        PROVE  \E i \in DOMAIN list : list[i] = vs[v]
    <3>1. PICK i \in 1 .. len : array[i].name = v
      BY <2>2 DEF Lists
    <3> QED BY <2>1, <2>2, <3>1, SMT DEF Lists
  <2>7. {list[i] : i \in DOMAIN list} = {vs[v] : v \in users}
    <3> HIDE DEF users
    <3> QED BY <2>5, <2>6, SMT
  <2> QED BY <2>3, <2>4, <2>7 DEF vs, list
<1> QED BY CopiesInvHolds, <1>1, PTL

=============================================================================
