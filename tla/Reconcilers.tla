----------------------------- MODULE Reconcilers -----------------------------
(***************************************************************************)
(* The controllers that keep the resource store equal to Kubernetes.  Each *)
(* kind of resource has a controller with one worker and a work queue.  A  *)
(* change at the API server reaches the informer cache later; the event    *)
(* puts the object's name into the queue of its kind, and the worker reads *)
(* the object from the cache and applies or deletes it.  Workers wait      *)
(* until the store has been filled at start-up.  The VirtualService        *)
(* controller writes the status back, and the template controller sends    *)
(* the VirtualServices of a changed template to it over a channel without  *)
(* a buffer.  The process may restart: store, queues and statuses are lost.*)
(*                                                                         *)
(* A spec is what it means to a build ("good" or "bad": the resource is    *)
(* valid or not) and the bytes it is written in.  Everything a rebuild     *)
(* does besides recording statuses is the subject of CacheUpdater.         *)
(***************************************************************************)
EXTENDS Naturals, FiniteSets, Absent

CONSTANTS
    Object,      \* names of Kubernetes objects
    KindMaps,    \* the kinds the objects may have, functions on Object
    Refs,        \* Refs[v]: what a VirtualService refers to
    Specs,       \* specs: records of a meaning and bytes
    InitObjects, \* what the API server may hold at first
    MaxChanges,  \* bound on changes at the API server
    MaxFaults    \* bound on failed calls of the API server or the cache and
                 \* on restarts of the process

VARIABLES
    kind,     \* the kind of each object; never changes
    api,      \* the API server: object or NONE
    informer, \* the manager's cache of it
    queue,    \* objects in the work queues
    worker,   \* worker of each kind: where it is, its object, what it read
    toSend,   \* VirtualServices the template worker still has to send
    phase,    \* "loading", "filled" once the store is, "ready" for workers
    store,    \* the resource store: spec or NONE
    status,   \* the statuses recorded for VirtualServices
    untold,   \* history: VirtualServices whose status changed in a rebuild
              \* for another object that tells their controller nothing
    skipped,  \* history: objects whose last event did not pass the filter
    changes, faults

vars == <<kind, api, informer, queue, worker, toSend, phase, store, status,
          untold, skipped, changes, faults>>

counters == <<changes, faults>>

Kind == {"VirtualService", "VirtualServiceTemplate", "Secret", "Listener",
         "Cluster", "Route", "HttpFilter", "Policy", "AccessLogConfig", "Tracing"}

(* A secret's label and type: "cached" has the label value sds-cached,     *)
(* "labelled" another one, "foreign" is sds-cached but neither Opaque nor  *)
(* TLS, "plain" has no label.  Other kinds have no such label.             *)
Class == {"cached", "labelled", "foreign", "plain"}

Status == {"valid", "invalid"}

(* born numbers the change at the API server that gave the object its     *)
(* spec: together with the status it tells resource versions apart.        *)
APIObject == [spec : Specs, status : Status, class : Class, born : 0 .. MaxChanges]

ASSUME ObjectsAssumption ==
    /\ KindMaps \subseteq [Object -> Kind]
    /\ InitObjects \subseteq [Object -> APIObject \cup {NONE}]
    /\ MaxChanges \in Nat
    /\ NONE \notin Specs /\ NONE \notin APIObject

OfKind(k) == {o \in Object : kind[o] = k}

VS == OfKind("VirtualService")

Idle == [pc |-> "idle", obj |-> NONE, got |-> NONE, new |-> NONE]

-----------------------------------------------------------------------------
(* Start-up.                                                               *)

(* filterSecret: secrets of other types or without the label are not       *)
(* watched; the value of the label does not matter.                        *)
Watched(o, x) == kind[o] = "Secret" => x.class \in {"cached", "labelled"}

(* loadResourcesConcurrently lists secrets by the value of the label, of   *)
(* any type.                                                               *)
Loaded(o, x) == kind[o] = "Secret" => x.class \in {"cached", "foreign"}

(* The informer cache is filled from the API server, and every object in it *)
(* gives a create event.                                                   *)
ListedObjects(objects) == {o \in Object : objects[o] # NONE /\ Watched(o, objects[o])}

(* Secrets that the informer has and whose create event is filtered out.   *)
UnlistedObjects(objects) == {o \in Object : objects[o] # NONE} \ ListedObjects(objects)

Empty == [o \in Object |-> NONE]

Init ==
    /\ kind \in KindMaps
    /\ api \in InitObjects
    /\ informer = api
    /\ queue = ListedObjects(api)
    /\ worker = [k \in Kind |-> Idle]
    /\ toSend = {}
    /\ phase = "loading"
    /\ store = Empty
    /\ status = [o \in Object |-> "valid"]
    /\ untold = {}
    /\ skipped = UnlistedObjects(api)
    /\ changes = 0 /\ faults = 0

(* FillFromKubernetes reads the informer cache.                            *)
FillFromKubernetes ==
    /\ phase = "loading"
    /\ store' = [o \in Object |->
                    IF informer[o] # NONE /\ Loaded(o, informer[o])
                    THEN informer[o].spec ELSE NONE]
    /\ phase' = "filled"
    /\ UNCHANGED <<kind, api, informer, queue, worker, toSend, status, untold,
                   skipped, counters>>

-----------------------------------------------------------------------------
(* Rebuilds, as far as the controllers see them.                           *)

Builds(st, v) ==
    /\ st[v].means = "good"
    /\ \A r \in Refs[v] : st[r] # NONE /\ st[r].means = "good"

StatusOf(st, v) == IF Builds(st, v) THEN "valid" ELSE "invalid"

(* A deleted VirtualService has no status, which reads as valid.           *)
Statuses(st) ==
    [o \in Object |-> IF o \in VS /\ st[o] # NONE THEN StatusOf(st, o) ELSE "valid"]

RebuildFails(st) == \E v \in VS : st[v] # NONE /\ ~Builds(st, v)

(* The statuses of the VirtualServices in told reach their controller.     *)
Rebuild(st, told) ==
    /\ store' = st
    /\ status' = Statuses(st)
    /\ untold' = (untold \cup {v \in VS : status'[v] # status[v]}) \ told

(* RebuildSnapshots, then close(cacheReadyCh).  All objects that were      *)
(* loaded are in the queues, or will be.                                   *)
OpenGate ==
    /\ phase = "filled"
    /\ Rebuild(store, Object)
    /\ phase' = "ready"
    /\ UNCHANGED <<kind, api, informer, queue, worker, toSend, skipped, counters>>

-----------------------------------------------------------------------------
(* The API server, the watch and the process.                              *)

CanFail == faults < MaxFaults /\ faults' = faults + 1

CanChange == changes < MaxChanges /\ changes' = changes + 1

NewObjects(k) ==
    [spec : Specs, status : {"valid"}, class : IF k = "Secret" THEN Class ELSE {"cached"},
     born : {changes + 1}]

(* Clients create, update and delete objects.  A spec is changed without   *)
(* the status, which is a subresource.                                     *)
ChangeObject(o) ==
    /\ CanChange
    /\ \/ api[o] # NONE /\ api' = [api EXCEPT ![o] = NONE]
       \/ \E x \in NewObjects(kind[o]) :
            api' = [api EXCEPT ![o] =
                IF api[o] = NONE THEN x ELSE [x EXCEPT !.status = api[o].status]]
    /\ UNCHANGED <<kind, informer, queue, worker, toSend, phase, store, status,
                   untold, skipped, faults>>

(* The filter sees the new object, or the last one known when it is gone.  *)
Seen(o) == IF api[o] = NONE THEN informer[o] ELSE api[o]

(* Faulty variant: deletions are not watched.                              *)
DeliverExceptDeletions(o) ==
    /\ informer[o] # api[o]
    /\ informer' = [informer EXCEPT ![o] = api[o]]
    /\ IF api[o] # NONE /\ Watched(o, api[o])
       THEN queue' = queue \cup {o} /\ skipped' = skipped \ {o}
       ELSE queue' = queue /\ UNCHANGED skipped
    /\ UNCHANGED <<kind, api, worker, toSend, phase, store, status, untold, counters>>

Deliver(o) ==
    /\ informer[o] # api[o]
    /\ informer' = [informer EXCEPT ![o] = api[o]]
    /\ IF Watched(o, Seen(o))
       THEN queue' = queue \cup {o} /\ skipped' = skipped \ {o}
       ELSE skipped' = skipped \cup {o} /\ UNCHANGED queue
    /\ UNCHANGED <<kind, api, worker, toSend, phase, store, status, untold, counters>>

Restart ==
    /\ CanFail
    /\ informer' = api
    /\ queue' = ListedObjects(api)
    /\ worker' = [k \in Kind |-> Idle]
    /\ toSend' = {}
    /\ phase' = "loading"
    /\ store' = Empty
    /\ status' = [o \in Object |-> "valid"]
    /\ untold' = {}
    /\ skipped' = UnlistedObjects(api)
    /\ UNCHANGED <<kind, api, changes>>

-----------------------------------------------------------------------------
(* What every worker does.                                                 *)

Step(k, from, to) == worker[k].pc = from /\ worker' = [worker EXCEPT ![k] = to]

Done(k, from) == Step(k, from, Idle)

(* An error puts the request back into the queue.                          *)
Retry(k, from) == Done(k, from) /\ queue' = queue \cup {worker[k].obj}

(* A worker takes a request and, once the gate is open, reads the object   *)
(* from the cache.                                                         *)
Get(k) ==
    /\ phase = "ready"
    /\ \E o \in queue \cap OfKind(k) :
        /\ Step(k, "idle", [pc |-> "apply", obj |-> o, got |-> informer[o], new |-> NONE])
        /\ queue' = queue \ {o}
    /\ UNCHANGED <<kind, api, informer, toSend, phase, store, status, untold,
                   skipped, counters>>

(* Faulty variant: the error of the read is dropped.                       *)
GetFailsOnce(k) ==
    /\ phase = "ready"
    /\ CanFail
    /\ worker[k].pc = "idle"
    /\ \E o \in queue \cap OfKind(k) : queue' = queue \ {o}
    /\ UNCHANGED <<kind, api, informer, worker, toSend, phase, store, status,
                   untold, skipped, changes>>

(* A request whose read fails goes back into the queue.                    *)
GetFails(k) ==
    /\ phase = "ready"
    /\ CanFail
    /\ worker[k].pc = "idle"
    /\ queue \cap OfKind(k) # {}
    /\ UNCHANGED <<kind, api, informer, queue, worker, toSend, phase, store,
                   status, untold, skipped, changes>>

(* IsEqual compares the bytes of a spec, except for HttpFilters, whose     *)
(* JSON it parses.                                                         *)
IsEqual(k, x, y) == IF k = "HttpFilter" THEN x.means = y.means ELSE x = y

Unchanged(k, o, x) == store[o] # NONE /\ IsEqual(k, store[o], x)

Put(st, o, x) == [st EXCEPT ![o] = x]

(* Apply: the store and the statuses change unless the resource is equal.  *)
Apply(k, o, x, told) ==
    IF Unchanged(k, o, x) THEN UNCHANGED <<store, status, untold>>
                          ELSE Rebuild(Put(store, o, x), told)

(* Delete returns the error of the rebuild.                                *)
Delete(o) ==
    IF store[o] = NONE THEN UNCHANGED <<store, status, untold>>
                       ELSE Rebuild(Put(store, o, NONE), {o})

DeleteFails(o) == store[o] # NONE /\ RebuildFails(Put(store, o, NONE))

-----------------------------------------------------------------------------
(* The controllers of the kinds whose deletion drops the error.            *)

ApplyOrDelete(k) ==
    LET o == worker[k].obj
        x == worker[k].got
    IN  /\ Done(k, "apply")
        /\ IF x = NONE THEN Delete(o) ELSE Apply(k, o, x.spec, {})
        /\ UNCHANGED <<kind, api, informer, queue, toSend, phase, skipped, counters>>

Reconcile(k) == Get(k) \/ ApplyOrDelete(k)

ReconcileSecret == Reconcile("Secret")

ReconcileListener == Reconcile("Listener")

ReconcileCluster == Reconcile("Cluster")

ReconcileRoute == Reconcile("Route")

ReconcileHttpFilter == Reconcile("HttpFilter")

ReconcilePolicy == Reconcile("Policy")

ReconcileAccessLogConfig == Reconcile("AccessLogConfig")

ReconcileTracing == Reconcile("Tracing")

-----------------------------------------------------------------------------
(* VirtualServices: apply, read the status under a lock of its own, write  *)
(* it if it differs from the one that came with the object.                *)

DeleteOf(k) ==
    LET o == worker[k].obj
    IN  /\ worker[k].pc = "apply" /\ worker[k].got = NONE
        /\ Delete(o)
        /\ IF DeleteFails(o) THEN Retry(k, "apply")
                             ELSE Done(k, "apply") /\ UNCHANGED queue
        /\ UNCHANGED <<kind, api, informer, toSend, phase, skipped, counters>>

ApplyVirtualService ==
    LET k == "VirtualService"
        o == worker[k].obj
    IN  /\ worker[k].got # NONE
        /\ Step(k, "apply", [worker[k] EXCEPT !.pc = "status"])
        /\ Apply(k, o, worker[k].got.spec, {})
        /\ UNCHANGED <<kind, api, informer, queue, toSend, phase, skipped, counters>>

(* GetVirtualServiceWithStatus, after the write lock was released.         *)
ReadStatus ==
    LET k == "VirtualService"
        o == worker[k].obj
    IN  /\ IF worker[k].got # NONE /\ worker[k].got.status # status[o]
           THEN Step(k, "status", [worker[k] EXCEPT !.pc = "write", !.new = status[o]])
           ELSE Done(k, "status")
        /\ untold' = untold \ {o}
        /\ UNCHANGED <<kind, api, informer, queue, toSend, phase, store, status,
                       skipped, counters>>

(* Faulty variant: the status is written to whatever is there.             *)
WriteStatusBlindly ==
    LET k == "VirtualService"
        o == worker[k].obj
    IN  /\ Done(k, "write")
        /\ api' = IF api[o] = NONE THEN api
                  ELSE [api EXCEPT ![o].status = worker[k].new]
        /\ UNCHANGED <<kind, informer, queue, toSend, phase, store, status,
                       untold, skipped, counters>>

(* Status().Update is refused when the object has changed since it was     *)
(* read, and the request is tried again.                                   *)
WriteStatus ==
    LET k == "VirtualService"
        o == worker[k].obj
    IN  /\ worker[k].pc = "write"
        /\ IF api[o] = worker[k].got
           THEN /\ Done(k, "write")
                /\ api' = [api EXCEPT ![o].status = worker[k].new]
                /\ UNCHANGED queue
           ELSE Retry(k, "write") /\ UNCHANGED api
        /\ UNCHANGED <<kind, informer, toSend, phase, store, status, untold,
                       skipped, counters>>

WriteStatusFails ==
    /\ CanFail
    /\ Retry("VirtualService", "write")
    /\ UNCHANGED <<kind, api, informer, toSend, phase, store, status, untold,
                   skipped, changes>>

ReconcileVirtualService ==
    LET k == "VirtualService"
    IN  \/ Get(k) \/ DeleteOf(k)
        \/ ApplyVirtualService \/ ReadStatus \/ WriteStatus

-----------------------------------------------------------------------------
(* Templates.                                                              *)

GetVirtualServicesByTemplate(t) == {v \in VS : store[v] # NONE /\ t \in Refs[v]}

IsUpdate(o, x) == store[o] # NONE /\ ~IsEqual("VirtualServiceTemplate", store[o], x)

(* The VirtualServices of an updated template are about to be sent.        *)
ApplyVirtualServiceTemplate ==
    LET k == "VirtualServiceTemplate"
        o == worker[k].obj
        x == worker[k].got
    IN  /\ x # NONE
        /\ IF IsUpdate(o, x.spec)
           THEN Step(k, "apply", [worker[k] EXCEPT !.pc = "list"])
           ELSE Done(k, "apply")
        /\ Apply(k, o, x.spec, IF store[o] = NONE THEN {} ELSE {v \in VS : o \in Refs[v]})
        /\ UNCHANGED <<kind, api, informer, queue, toSend, phase, skipped, counters>>

ListUsers ==
    LET k == "VirtualServiceTemplate"
    IN  /\ Step(k, "list", [worker[k] EXCEPT !.pc = "send"])
        /\ toSend' = GetVirtualServicesByTemplate(worker[k].obj)
        /\ UNCHANGED <<kind, api, informer, queue, phase, store, status, untold,
                       skipped, counters>>

(* The channel has no buffer: a send waits for the VirtualService          *)
(* controller's source to take it and put it into the queue.               *)
SendVS ==
    /\ worker["VirtualServiceTemplate"].pc = "send"
    /\ \E v \in toSend : queue' = queue \cup {v} /\ toSend' = toSend \ {v}
    /\ UNCHANGED <<kind, api, informer, worker, phase, store, status, untold,
                   skipped, counters>>

AllSent ==
    /\ toSend = {}
    /\ Done("VirtualServiceTemplate", "send")
    /\ UNCHANGED <<kind, api, informer, queue, toSend, phase, store, status,
                   untold, skipped, counters>>

ReconcileVirtualServiceTemplate ==
    LET k == "VirtualServiceTemplate"
    IN  \/ Get(k) \/ DeleteOf(k)
        \/ ApplyVirtualServiceTemplate \/ ListUsers \/ SendVS \/ AllSent

-----------------------------------------------------------------------------
(* What happens without anybody asking for it.                             *)
Work ==
    \/ FillFromKubernetes \/ OpenGate
    \/ \E o \in Object : Deliver(o)
    \/ ReconcileVirtualService \/ ReconcileVirtualServiceTemplate
    \/ ReconcileSecret \/ ReconcileListener \/ ReconcileCluster
    \/ ReconcileRoute \/ ReconcileHttpFilter \/ ReconcilePolicy
    \/ ReconcileAccessLogConfig \/ ReconcileTracing

Next ==
    \/ Work
    \/ \E o \in Object : ChangeObject(o)
    \/ Restart
    \/ \E k \in Kind : GetFails(k)
    \/ WriteStatusFails

(* The watch, the queues and the workers keep running; changes, errors and *)
(* restarts need not happen.                                               *)
Fairness ==
    /\ WF_vars(FillFromKubernetes) /\ WF_vars(OpenGate)
    /\ \A o \in Object : WF_vars(Deliver(o))
    /\ WF_vars(ReconcileVirtualService)
    /\ WF_vars(ReconcileVirtualServiceTemplate)
    /\ WF_vars(ReconcileSecret) /\ WF_vars(ReconcileListener)
    /\ WF_vars(ReconcileCluster) /\ WF_vars(ReconcileRoute)
    /\ WF_vars(ReconcileHttpFilter) /\ WF_vars(ReconcilePolicy)
    /\ WF_vars(ReconcileAccessLogConfig) /\ WF_vars(ReconcileTracing)

Behaviour == Init /\ [][Next]_vars

FairBehaviour == Behaviour /\ Fairness
-----------------------------------------------------------------------------
(* Properties.                                                             *)

(* The variables have the types of the Go program; a worker at work has a  *)
(* request of its own kind.                                                *)
TypeOK ==
    /\ kind \in KindMaps
    /\ api \in [Object -> APIObject \cup {NONE}]
    /\ informer \in [Object -> APIObject \cup {NONE}]
    /\ queue \subseteq Object
    /\ \A k \in Kind :
        /\ worker[k].pc \in {"idle", "apply", "status", "write", "list", "send"}
        /\ worker[k].pc # "idle" => worker[k].obj \in OfKind(k)
        /\ worker[k].got \in APIObject \cup {NONE}
        /\ worker[k].new \in Status \cup {NONE}
    /\ toSend \subseteq Object
    /\ phase \in {"loading", "filled", "ready"}
    /\ store \in [Object -> Specs \cup {NONE}]
    /\ status \in [Object -> Status]
    /\ untold \subseteq Object /\ skipped \subseteq Object

Agrees(o) ==
    IF api[o] = NONE THEN store[o] = NONE
    ELSE store[o] # NONE /\ store[o].means = api[o].spec.means

Pending(o) ==
    \/ phase # "ready" \/ informer[o] # api[o]
    \/ o \in queue \/ worker[kind[o]].obj = o

(* No change is lost: an object with no event under way or queued and no   *)
(* worker on it is stored as it is in Kubernetes, through the filling of   *)
(* the store at start-up, failed calls, skipped equal objects and          *)
(* restarts.  The exception is a secret whose last event was filtered out: *)
(* one that lost its label stays in the store, even when it is deleted.    *)
QuiescentAgreement ==
    \A o \in Object \ skipped : ~Pending(o) => Agrees(o)

(* A status is only ever written to the spec that it was computed for: the *)
(* object may change between the read from the cache, the apply, the       *)
(* reading of the status after unlocking and the write.                    *)
StatusMatchesSpec ==
    [][\A v \in VS :
        (api[v] # NONE /\ api'[v] # NONE /\ api'[v].status # api[v].status)
            => store[v] = api[v].spec]_vars

(* Once the changes, failures and restarts end, the store becomes and      *)
(* stays what Kubernetes says.  A template worker that waited forever on   *)
(* the channel of the VirtualService controller would prevent it.          *)
StoreConverges == <>[](\A o \in Object \ skipped : Agrees(o))

(* Once they end, the status of every VirtualService in Kubernetes becomes *)
(* and stays the recorded one, unless it last changed in a rebuild for     *)
(* another object than the VirtualService and an updated template: no      *)
(* event follows such a rebuild.                                           *)
StatusReported ==
    <>[](\A v \in VS \ untold : api[v] = NONE \/ api[v].status = status[v])

(* Both directions settle: Kubernetes reaches the store, and the statuses  *)
(* of the store reach Kubernetes.                                          *)
Converges == StoreConverges /\ StatusReported
=============================================================================
