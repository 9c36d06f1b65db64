------------------------------ MODULE Admission ------------------------------
(***************************************************************************)
(* The validating webhooks in front of the CacheUpdater.  A change of a    *)
(* custom resource or secret is reviewed, is written to Kubernetes when    *)
(* the review admits it, and reaches the store later, through a            *)
(* reconciler.  Reviews read the store and the snapshots of the moment.    *)
(*                                                                         *)
(* A name is a tuple <<namespace, name>>, that of a part <<namespace, name,*)
(* kind>>.  api has the shape of the store: api[kind][name] is an object,  *)
(* NONE where there is none.                                               *)
(***************************************************************************)
EXTENDS CacheUpdater

CONSTANTS
    Loads,      \* what Kubernetes may hold when the process starts
    Modes,      \* configurations: "heavy", "light", "indices"
    Changes,    \* changes to be reviewed: [kind, name, value], NONE deletes
    Listed,     \* AccessLogConfigs referred to in the list accessLogConfigs
    MaxChanges, \* bound: changes written to Kubernetes
    MALFORMED   \* an object that does not unmarshal or validate

VARIABLES
    api,        \* the objects in Kubernetes
    mode,       \* WEBHOOK_LIGHT_DRYRUN and WEBHOOK_VALIDATION_INDICES
    started,    \* FillFromKubernetes has loaded the store
    review,     \* the review that runs, or Idle
    changes,    \* changes written
    doubt       \* history: why a written change may fail to build

reviewVars == <<api, mode, started, review, changes, doubt>>
allVars == <<vars, reviewVars>>

Ns(x)   == x[1]
Base(x) == x[2]
PartKind(p) == p[3]

NoChange == [kind |-> NONE, name |-> NONE, value |-> NONE]
Idle == [pc |-> "idle", change |-> NoChange, copy |-> NONE, index |-> EmptyMap,
         stale |-> FALSE, how |-> NONE]

With(st, c) == [st EXCEPT ![c.kind][c.name] = c.value]

(* The webhook server answers from the start, the store is filled later.   *)
AdmissionInit ==
    /\ Init
    /\ api \in Loads
    /\ mode \in Modes
    /\ started = FALSE
    /\ review = Idle
    /\ changes = 0
    /\ doubt = {}

FillFromKubernetes ==
    /\ ~started
    /\ started' = TRUE
    /\ store' = api
    /\ UNCHANGED <<status, indexVars, cacheVars, commitVars, mx, ctxDone, outcome>>
    /\ UNCHANGED <<api, mode, review, changes, doubt>>

-----------------------------------------------------------------------------
(* The deletion webhooks.  They list objects of the namespace of what is   *)
(* deleted and compare names; the namespace of a reference is not looked   *)
(* at.                                                                     *)
Of(view, ns) == {v \in Stored(view) : Ns(v) = ns}

(* Faulty variant: only the VirtualServices are asked.                     *)
ListenerInUseByVirtualService(view, l) ==
    \E v \in Of(view, Ns(l)) :
        view.vs[v].listener # NONE /\ Base(view.vs[v].listener) = Base(l)

ListenerInUse(view, l) ==
    \/ \E v \in Of(view, Ns(l)) :
          view.vs[v].listener # NONE /\ Base(view.vs[v].listener) = Base(l)
    \/ \E t \in Template :
          Ns(t) = Ns(l) /\ view.templates[t] # NONE /\ Base(view.templates[t]) = Base(l)

TemplateInUse(view, t) ==
    \E v \in Of(view, Ns(t)) :
        view.vs[v].template # NONE /\ Base(view.vs[v].template) = Base(t)

Referred(view, p, refs(_)) ==
    \E v \in Of(view, Ns(p)) : \E q \in refs(view.vs[v]) :
        PartKind(q) = PartKind(p) /\ Base(q) = Base(p)

RouteInUse(view, p)      == LET all(r) == r.parts IN Referred(view, p, all)
HttpFilterInUse(view, p) == LET all(r) == r.parts IN Referred(view, p, all)
PolicyInUse(view, p)     == LET all(r) == r.parts IN Referred(view, p, all)
TracingInUse(view, p)    == LET all(r) == r.parts IN Referred(view, p, all)

(* The list accessLogConfigs is not looked at.                             *)
AccessLogConfigInUse(view, p) ==
    LET single(r) == r.parts \ Listed IN Referred(view, p, single)

PartInUse(view, p) ==
    CASE PartKind(p) = "Route"           -> RouteInUse(view, p)
      [] PartKind(p) = "HttpFilter"      -> HttpFilterInUse(view, p)
      [] PartKind(p) = "Policy"          -> PolicyInUse(view, p)
      [] PartKind(p) = "Tracing"         -> TracingInUse(view, p)
      [] PartKind(p) = "AccessLogConfig" -> AccessLogConfigInUse(view, p)

(* The content of a Route or Tracing is the cluster it names.              *)
findClusterNames(view, p) == {view.parts[p]} \cap Cluster
ClusterInUse(view, c) ==
    \E p \in Part :
        /\ Ns(p) = Ns(c)
        /\ PartKind(p) \in {"Route", "Tracing"}
        /\ c \in findClusterNames(view, p)

SecretInUse(s) == s \in usedSecrets

InUse(view, c) ==
    CASE c.kind = "vs"        -> FALSE
      [] c.kind = "templates" -> TemplateInUse(view, c.name)
      [] c.kind = "listeners" -> ListenerInUse(view, c.name)
      [] c.kind = "clusters"  -> ClusterInUse(view, c.name)
      [] c.kind = "secrets"   -> SecretInUse(c.name)
      [] c.kind = "parts"     -> PartInUse(view, c.name)

-----------------------------------------------------------------------------
(* The heavy dry run: buildSnapshots on a copy of the store with the       *)
(* change in it and on an empty snapshot cache, its commit included.       *)
DryBuildSnapshots(st) ==
    /\ ~Clash(st, Stored(st))
    /\ ~HasErrors(st)
    /\ LET ord == CHOOSE o \in ChainOrders(st) : TRUE
       IN  \A n \in ActiveNodes(st) :
              Consistent(NewSnapshot(st, n, ord)) /\ ValidCache(NewSnapshot(st, n, ord))

(* The light one.                                                          *)
resolveTargetNodeIDs(nodes) == IF IsCommon(nodes) THEN nodeIDs ELSE nodes

(* Which Listeners a node gets.  The reference's namespace is taken to be  *)
(* that of the VirtualService; a template's listener is not counted.       *)
ListenersOfNode(st, n) ==
    {<<Ns(v), Base(st.vs[v].listener)>> :
        v \in {w \in Stored(st) : st.vs[w].listener # NONE
                                  /\ n \in resolveTargetNodeIDs(st.vs[w].nodes)}}

validateListenerAddresses(st) ==
    \A n \in Node :
        LET ls == ListenersOfNode(st, n)
        IN  /\ \A l \in ls : l \in Listener /\ st.listeners[l] # NONE
            /\ \A k, l \in ls : st.listeners[k].addr = st.listeners[l].addr => k = l

RouteDomains(s) == UNION {s["Route"].resources[v].domains : v \in DOMAIN s["Route"].resources}

buildExistingDomainsMap(index) ==
    IF mode = "indices" THEN index
    ELSE [n \in DOMAIN snap |-> RouteDomains(snap[n])]

(* Faulty variant: the former domains are taken out on every node.         *)
excludeEverywhere(prev, existing) ==
    [n \in DOMAIN existing |-> existing[n] \ (IF prev = NONE THEN {} ELSE prev.domains)]

excludePreviousVSDomains(prev, existing) ==
    [n \in DOMAIN existing |->
        IF prev # NONE /\ n \in resolveTargetNodeIDs(prev.nodes)
        THEN existing[n] \ prev.domains ELSE existing[n]]

checkDomainCollisions(domains, targets, existing) ==
    \A n \in targets : existing[n] \cap domains = {}

(* What it answers; prev is the object that Kubernetes has, if any.        *)
DryValidateVirtualServiceLight(c, copy, index, prev) ==
    LET st      == With(copy, c)
        r       == c.value
        targets == resolveTargetNodeIDs(r.nodes)
        map     == buildExistingDomainsMap(index)
        now     == With(store, [c EXCEPT !.value = prev])
    IN  IF ~Builds(st, c.name) \/ ~validateListenerAddresses(st) THEN "refused"
        ELSE IF targets = {} \/ r.domains = {} THEN "admitted"
        ELSE IF ~(targets \subseteq DOMAIN map) THEN "fallback"
        ELSE IF prev # NONE /\ ~Builds(now, c.name) THEN "refused"
        ELSE IF checkDomainCollisions(r.domains, targets, excludePreviousVSDomains(prev, map))
        THEN "admitted" ELSE "refused"

-----------------------------------------------------------------------------
(* One review.  It is stale when it may read something other than what     *)
(* Kubernetes had when it began.                                           *)
Ask(c) ==
    /\ review = Idle
    /\ changes < MaxChanges
    /\ With(api, c) # api
    /\ review' = [Idle EXCEPT !.pc = "asked", !.change = c,
                              !.stale = store # api \/ mx # "free" \/ outcome # "ok"]
    /\ UNCHANGED <<vars, api, mode, started, changes, doubt>>

Answer(admitted, how) ==
    /\ review' = [review EXCEPT !.pc = IF admitted THEN "admitted" ELSE "refused",
                                !.copy = NONE, !.index = EmptyMap, !.how = how]
    /\ UNCHANGED <<vars, api, mode, started, changes, doubt>>

(* The client of the manager reads a cache that lags behind Kubernetes and *)
(* is ahead of the store.                                                  *)
ValidateDelete ==
    /\ review.pc = "asked"
    /\ review.change.value = NONE
    /\ \E view \in {api, store} : Answer(~InUse(view, review.change), "usage")

IsUpdate(c) == api[c.kind][c.name] # NONE

(* What is created or updated has to unmarshal and validate; secrets are   *)
(* not looked at.                                                          *)
WellFormed(o) == o # MALFORMED

ValidateListener(o)        == WellFormed(o)
ValidateCluster(o)         == WellFormed(o)
ValidateSecret(o)          == TRUE
ValidateRoute(o)           == WellFormed(o)
ValidateHttpFilter(o)      == WellFormed(o)
ValidatePolicy(o)          == WellFormed(o)
ValidateTracing(o)         == WellFormed(o)
ValidateAccessLogConfig(o) == WellFormed(o)
ValidateTemplateCreate(o)  == WellFormed(o)

ValidatePart(p, o) ==
    CASE PartKind(p) = "Route"           -> ValidateRoute(o)
      [] PartKind(p) = "HttpFilter"      -> ValidateHttpFilter(o)
      [] PartKind(p) = "Policy"          -> ValidatePolicy(o)
      [] PartKind(p) = "Tracing"         -> ValidateTracing(o)
      [] PartKind(p) = "AccessLogConfig" -> ValidateAccessLogConfig(o)

(* Every kind but VirtualServices, and of templates the creation only.     *)
ValidateSchema ==
    /\ review.pc = "asked"
    /\ review.change.value # NONE
    /\ review.change.kind # "vs"
    /\ review.change.kind = "templates" => ~IsUpdate(review.change)
    /\ LET c == review.change
       IN  Answer(CASE c.kind = "templates" -> ValidateTemplateCreate(c.value)
                    [] c.kind = "listeners" -> ValidateListener(c.value)
                    [] c.kind = "clusters"  -> ValidateCluster(c.value)
                    [] c.kind = "secrets"   -> ValidateSecret(c.value)
                    [] c.kind = "parts"     -> ValidatePart(c.name, c.value), "schema")

ValidateTemplateUpdate ==
    /\ review.pc = "asked"
    /\ review.change.kind = "templates"
    /\ review.change.value # NONE
    /\ IsUpdate(review.change)
    /\ mx = "free"
    /\ Answer(/\ WellFormed(review.change.value)
              /\ DryBuildSnapshots(With(store, review.change)), "heavy")

validateVSTracing(view, r) ==
    \A p \in r.parts : PartKind(p) = "Tracing" => view.parts[p] # NONE

(* validateVirtualService up to the dry run, which the light one begins    *)
(* with a copy of the store.                                               *)
ValidateVirtualService ==
    /\ review.pc = "asked"
    /\ review.change.kind = "vs"
    /\ review.change.value # NONE
    /\ LET r == review.change.value
       IN  \E view \in {api, store} :
            IF r.nodes = {} \/ ~validateVSTracing(view, r)
            THEN Answer(FALSE, "schema")
            ELSE /\ mode # "heavy" => mx = "free"
                 /\ review' = IF mode = "heavy" THEN [review EXCEPT !.pc = "heavy"]
                              ELSE [review EXCEPT !.pc = "light", !.copy = store,
                                                  !.index = nodeDomains]
                 /\ UNCHANGED <<vars, api, mode, started, changes, doubt>>

LightDryRun ==
    /\ review.pc = "light"
    /\ LET c    == review.change
           prev == api.vs[c.name]
           a    == DryValidateVirtualServiceLight(c, review.copy, review.index, prev)
       IN  /\ prev # NONE => mx = "free"
           /\ IF a = "fallback"
              THEN /\ review' = [review EXCEPT !.pc = "heavy", !.copy = NONE,
                                               !.index = EmptyMap]
                   /\ UNCHANGED <<vars, api, mode, started, changes, doubt>>
              ELSE Answer(a = "admitted", "light")

HeavyDryRun ==
    /\ review.pc = "heavy"
    /\ mx = "free"
    /\ Answer(DryBuildSnapshots(With(store, review.change)), "heavy")

(* The context of the dry run expires.                                     *)
TimeOut == review.pc \in {"light", "heavy"} /\ Answer(FALSE, "timeout")

Refused ==
    /\ review.pc = "refused"
    /\ review' = Idle
    /\ UNCHANGED <<vars, api, mode, started, changes, doubt>>

-----------------------------------------------------------------------------
(* References that the deletion webhooks see.                              *)
Checked(st) ==
    /\ \A v \in Stored(st) :
        LET r == st.vs[v]
        IN  /\ r.listener = NONE \/ Ns(r.listener) = Ns(v)
            /\ r.template = NONE \/ Ns(r.template) = Ns(v)
            /\ \A p \in r.parts : Ns(p) = Ns(v) /\ p \notin Listed
            /\ \A c \in r.clusters : \E p \in r.parts :
                 PartKind(p) = "Route" /\ Ns(p) = Ns(c) /\ st.parts[p] = c
    /\ \A t \in Template : st.templates[t] = NONE \/ Ns(st.templates[t]) = Ns(t)
    /\ \A l \in Listener : st.listeners[l] = NONE \/ st.listeners[l].clusters = {}

(* Candidates that the light dry run is enough for: every VirtualService   *)
(* names its own listener, in its own namespace, and the candidate's nodes *)
(* are in use already.                                                     *)
LightCovers(c) ==
    LET st == With(api, c)
    IN  /\ \A v \in Stored(st) :
              st.vs[v].listener # NONE /\ Ns(st.vs[v].listener) = Ns(v)
        /\ IsCommon(c.value.nodes) \/ c.value.nodes \subseteq ActiveNodes(api)
        /\ ActiveNodes(api) # {}

Doubts(c) ==
    {d \in {"race", "update", "reference", "light"} :
        CASE d = "race"      -> review.stale
          [] d = "update"    -> /\ c.kind \notin {"vs", "templates"}
                                /\ c.value # NONE /\ IsUpdate(c)
          [] d = "reference" -> ~Checked(With(api, c))
          [] d = "light"     -> review.how = "light" /\ ~LightCovers(c)}

(* The API server writes the object.                                       *)
Persist ==
    /\ review.pc = "admitted"
    /\ api' = With(api, review.change)
    /\ doubt' = doubt \cup Doubts(review.change)
    /\ review' = Idle
    /\ changes' = changes + 1
    /\ UNCHANGED <<vars, mode, started>>

(* A reconciler applies what it finds.                                     *)
Reconcile(kind, x) ==
    LET o == api[kind][x]
    IN  CASE kind = "vs" /\ o # NONE        -> ApplyVirtualService(x, o)
          [] kind = "vs" /\ o = NONE        -> DeleteVirtualService(x)
          [] kind = "templates" /\ o # NONE -> ApplyVirtualServiceTemplate(x, o)
          [] kind = "templates" /\ o = NONE -> DeleteVirtualServiceTemplate(x)
          [] kind = "listeners" /\ o # NONE -> ApplyListener(x, o)
          [] kind = "listeners" /\ o = NONE -> DeleteListener(x)
          [] kind = "clusters" /\ o # NONE  -> ApplyCluster(x, o)
          [] kind = "clusters" /\ o = NONE  -> DeleteCluster(x)
          [] kind = "secrets" /\ o # NONE   -> ApplySecret(x, o)
          [] kind = "secrets" /\ o = NONE   -> DeleteSecret(x)
          [] kind = "parts" /\ o # NONE     -> ApplyPart(x, o)
          [] kind = "parts" /\ o = NONE     -> DeletePart(x)

Deliver ==
    /\ outcome # "none"
    /\ \E kind \in DOMAIN api : \E x \in DOMAIN api[kind] :
          api[kind][x] # store[kind][x] /\ Reconcile(kind, x)
    /\ UNCHANGED reviewVars

Serve ==
    /\ started
    /\ RebuildSnapshots \/ FinishRebuild \/ \E n \in Node : CommitNode(n) \/ CleanNode(n)
    /\ UNCHANGED reviewVars

AdmissionNext ==
    \/ FillFromKubernetes \/ Serve \/ Deliver
    \/ \E c \in Changes : Ask(c)
    \/ ValidateDelete \/ ValidateSchema \/ ValidateTemplateUpdate
    \/ ValidateVirtualService \/ LightDryRun \/ HeavyDryRun \/ TimeOut
    \/ Refused \/ Persist

AdmissionSpec == AdmissionInit /\ [][AdmissionNext]_allVars

-----------------------------------------------------------------------------
Built == mx = "free" /\ outcome # "none" /\ ~ctxDone

(* What the webhooks admit builds: no rebuild fails while every change was *)
(* reviewed against what Kubernetes held, was one that a dry run or a      *)
(* usage check covers, and refers to nothing the usage checks overlook.    *)
(* So a deletion never takes away what a VirtualService needs, and the     *)
(* light dry run lets nothing pass that the rebuild refuses.               *)
AdmittedBuilds == doubt = {} /\ Built => outcome = "ok"

(* The light dry run answers what the heavy one would, where it covers the *)
(* candidate and the candidate leaves no node unused: neither the          *)
(* subtraction of the former domains nor the known nodes make it refuse a  *)
(* VirtualService that builds.                                             *)
LightAgreesWithHeavy ==
    LET c == review.change
    IN  doubt = {} /\ ~review.stale /\ review.how = "light" =>
          (LightCovers(c) /\ ActiveNodes(api) \subseteq ActiveNodes(With(api, c)) =>
             (review.pc = "admitted" <=> DryBuildSnapshots(With(store, c))))

=============================================================================
