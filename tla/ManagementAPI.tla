---------------------------- MODULE ManagementAPI ----------------------------
(* The management API for VirtualServices: CreateVirtualService,           *)
(* UpdateVirtualService and DeleteVirtualService of internal/grpcapi,      *)
(* running beside the reconciler and beside other clients of Kubernetes.   *)
(*                                                                         *)
(* A request looks up what it names step by step, each time under the      *)
(* store's lock and with no lock between.  An update works on the very     *)
(* object that the store holds, so its steps show in the store, to other   *)
(* requests and to every rebuild.  heap is those objects; store has a      *)
(* place in the heap per VirtualService.                                   *)
EXTENDS Naturals, Sequences, FiniteSetsExt, Absent

CONSTANTS
    Service,      \* VirtualServices
    Client,       \* requests that may run at one time
    Creations,    \* requests to create: [name, body]
    Updates,      \* bodies of requests to update
    Foreign,      \* specs that other clients of Kubernetes write
    Resource,     \* templates, listeners, routes, filters, access log configs
    Allowed,      \* the ones that the authorizer lets the requests use
    Unbuildable,  \* virtual hosts that no listener can be built from
    MaxRequests,  \* bound
    MaxChanges    \* bound: changes by others

VARIABLES
    api,      \* VirtualServices in Kubernetes
    present,  \* the other resources in the store
    heap,     \* VirtualService objects of the store, former ones included
    store,    \* name -> index in heap
    built,    \* the specs that the last rebuild read
    queue,    \* names with an event that waits for the reconciler
    req,      \* per client: the request that runs
    unseen,   \* history: names with a foreign change that the store lacks
    mixed,    \* history: objects touched by a request that another one uses or that failed
    requests, changes

apiVars == <<api, present, heap, store, built, queue, req, unseen, mixed, requests, changes>>

-----------------------------------------------------------------------------
(* A body leaves a field out with NONE, a list with <<>>.  nodes stands    *)
(* for node IDs and extra fields, which every request sets.                *)
Fields == {"nodes", "template", "options", "listener", "virtualHost", "accessLogConfigs",
           "additionalRoutes", "additionalHttpFilters", "useRemoteAddress"}
EmptySpec == [nodes |-> NONE, template |-> NONE, options |-> <<>>, listener |-> NONE,
              virtualHost |-> NONE, accessLogConfigs |-> <<>>, additionalRoutes |-> <<>>,
              additionalHttpFilters |-> <<>>, useRemoteAddress |-> NONE]

(* Names are finitely many, and specs have all the fields.                 *)
ASSUME APIAssumption ==
    /\ IsFiniteSet(Service)
    /\ \A r \in Creations : r.name \in Service
    /\ \A spec \in Foreign : spec = [f \in Fields |-> spec[f]]

Idle == [op |-> "idle", name |-> NONE, body |-> NONE, pc |-> "idle", ptr |-> 0, own |-> NONE]
NoObject == 0
InKubernetes(n) == api[n] # NONE
Elements(s) == {s[i] : i \in DOMAIN s}

(* Kubernetes numbers the versions of an object, here by the highest       *)
(* number that anything still holds.                                       *)
Stamped(spec, editable, version) == [spec |-> spec, editable |-> editable, version |-> version]
Versions == {api[n].version : n \in {m \in Service : InKubernetes(m)}}
              \cup {heap[i].version : i \in DOMAIN heap}
NextVersion == 1 + Max(Versions \cup {0})

APIInit ==
    /\ api = [n \in Service |-> NONE]
    /\ present = Resource
    /\ heap = <<>>
    /\ store = [n \in Service |-> NoObject]
    /\ built = [n \in Service |-> NONE]
    /\ queue = {}
    /\ req = [c \in Client |-> Idle]
    /\ unseen = {}
    /\ mixed = {}
    /\ requests = 0
    /\ changes = 0

-----------------------------------------------------------------------------
(* The reconciler: the object is read from Kubernetes and becomes the      *)
(* stored one, unless it IsEqual to that.  Labels and other annotations    *)
(* do not count, nor does the version.  Every rebuild reads all specs.     *)
IsEqual(stored, new) == stored.spec = new.spec

Rebuild == built' = [n \in Service |-> IF store'[n] = NoObject THEN NONE ELSE heap'[store'[n]].spec]

ApplyVirtualService(n) ==
    /\ n \in queue
    /\ InKubernetes(n)
    /\ queue' = queue \ {n}
    /\ IF store[n] # NoObject /\ IsEqual(heap[store[n]], api[n])
       THEN UNCHANGED <<heap, store, built, unseen>>
       ELSE /\ heap' = Append(heap, api[n])
            /\ store' = [store EXCEPT ![n] = Len(heap')]
            /\ unseen' = unseen \ {n}
            /\ Rebuild
    /\ UNCHANGED <<api, present, req, mixed, requests, changes>>

DeleteFromStore(n) ==
    /\ n \in queue
    /\ ~ InKubernetes(n)
    /\ queue' = queue \ {n}
    /\ store' = [store EXCEPT ![n] = NoObject]
    /\ unseen' = unseen \ {n}
    /\ UNCHANGED heap
    /\ Rebuild
    /\ UNCHANGED <<api, present, req, mixed, requests, changes>>

-----------------------------------------------------------------------------
(* Other clients of Kubernetes.                                            *)
Written(n, object) ==
    /\ api' = [api EXCEPT ![n] = object]
    /\ queue' = queue \cup {n}

Apply(n) ==
    /\ changes < MaxChanges
    /\ \E spec \in Foreign, editable \in BOOLEAN :
         Written(n, Stamped(spec, editable, NextVersion))
    /\ unseen' = unseen \cup {n}
    /\ changes' = changes + 1
    /\ UNCHANGED <<present, heap, store, built, req, mixed, requests>>

(* After storing an object the reconciler may report its status: the       *)
(* answer with the new version is decoded into the object.                 *)
ReportStatus(n) ==
    /\ changes < MaxChanges
    /\ InKubernetes(n)
    /\ store[n] # NoObject
    /\ heap[store[n]].version = api[n].version
    /\ Written(n, [api[n] EXCEPT !.version = NextVersion])
    /\ heap' = [heap EXCEPT ![store[n]].version = NextVersion]
    /\ changes' = changes + 1
    /\ UNCHANGED <<present, store, built, req, unseen, mixed, requests>>

(* A write that only moves the version: a label, another annotation, or    *)
(* the status of an object that the reconciler read and did not store.     *)
Touch(n) ==
    /\ changes < MaxChanges
    /\ InKubernetes(n)
    /\ Written(n, [api[n] EXCEPT !.version = NextVersion])
    /\ unseen' = unseen \cup {n}
    /\ changes' = changes + 1
    /\ UNCHANGED <<present, heap, store, built, req, mixed, requests>>

(* A resource comes or goes, and the reconciler of its kind rebuilds.      *)
ChangeResource(x) ==
    /\ changes < MaxChanges
    /\ present' = IF x \in present THEN present \ {x} ELSE present \cup {x}
    /\ changes' = changes + 1
    /\ UNCHANGED <<heap, store>>
    /\ Rebuild
    /\ UNCHANGED <<api, queue, req, unseen, mixed, requests>>

-----------------------------------------------------------------------------
(* The object that a request works on: its own for a creation, the stored  *)
(* one for an update.                                                      *)
Works(c, pc) == req[c].pc = pc
Target(c) == IF req[c].ptr = 0 THEN req[c].own ELSE heap[req[c].ptr]
Continue(c, spec, pc) ==
    IF req[c].ptr = 0
    THEN /\ req' = [req EXCEPT ![c].own.spec = spec, ![c].pc = pc]
         /\ UNCHANGED heap
    ELSE /\ req' = [req EXCEPT ![c].pc = pc]
         /\ heap' = [heap EXCEPT ![req[c].ptr].spec = spec]

Leave(c) == req' = [req EXCEPT ![c] = Idle]
Refuse(c, spec) ==
    /\ Leave(c)
    /\ IF req[c].ptr = 0
       THEN UNCHANGED <<heap, mixed>>
       ELSE /\ heap' = [heap EXCEPT ![req[c].ptr].spec = spec]
            /\ mixed' = mixed \cup {req[c].ptr}
Others == <<api, present, store, built, queue, unseen, requests, changes>>

(* Lookups by UID with the authorizer's consent.                           *)
MayUse(x) == x \in present /\ x \in Allowed
Usable(s) ==
    LET bad == {i \in DOMAIN s : ~ MayUse(s[i])}
    IN  IF bad = {} THEN s
        ELSE SubSeq(s, 1, (CHOOSE i \in bad : \A j \in bad : i <= j) - 1)

(* CreateVirtualService up to the first lookup: validation, authorization, *)
(* initializeVirtualService.                                               *)
validateCreateVirtualServiceRequest(r) == r.body.nodes # NONE /\ r.body.template # NONE
initializeVirtualService(r) ==
    Stamped([EmptySpec EXCEPT !.nodes = r.body.nodes], TRUE, 0)
StartCreate(c, r) ==
    /\ req[c] = Idle
    /\ requests < MaxRequests
    /\ requests' = requests + 1
    /\ validateCreateVirtualServiceRequest(r)
    /\ req' = [req EXCEPT ![c] = [op |-> "create", name |-> r.name, body |-> r.body,
                                  pc |-> "template", ptr |-> 0,
                                  own |-> initializeVirtualService(r)]]
    /\ UNCHANGED <<api, present, heap, store, built, queue, unseen, mixed, changes>>

(* UpdateVirtualService up to the first lookup: the object by its UID,     *)
(* which must be editable; node IDs and extra fields are set at once.      *)
validateUpdateVirtualServiceRequest(body) == body.template # NONE
StartUpdate(c, n, body) ==
    /\ req[c] = Idle
    /\ requests < MaxRequests
    /\ requests' = requests + 1
    /\ validateUpdateVirtualServiceRequest(body)
    /\ store[n] # NoObject
    /\ heap[store[n]].editable
    /\ req' = [req EXCEPT ![c] = [op |-> "update", name |-> n, body |-> body,
                                  pc |-> "template", ptr |-> store[n], own |-> NONE]]
    /\ heap' = [heap EXCEPT ![store[n]].spec.nodes = body.nodes]
    /\ mixed' = IF \E d \in Client : req[d].ptr = store[n] THEN mixed \cup {store[n]} ELSE mixed
    /\ UNCHANGED <<api, present, store, built, queue, unseen, changes>>

-----------------------------------------------------------------------------
(* The steps both have in common.                                          *)
processTemplate(c) ==
    /\ Works(c, "template")
    /\ LET t == req[c].body.template
           o == req[c].body.options
           spec == Target(c).spec
       IN  IF MayUse(t)
           THEN /\ Continue(c, [spec EXCEPT !.template = t,
                                            !.options = IF o = <<>> THEN @ ELSE o], "listener")
                /\ UNCHANGED mixed
           ELSE Refuse(c, spec)
    /\ UNCHANGED Others

processListener(c) ==
    /\ Works(c, "listener")
    /\ LET l == req[c].body.listener
           spec == Target(c).spec
       IN  IF l = NONE \/ MayUse(l)
           THEN /\ Continue(c, [spec EXCEPT !.listener = IF l = NONE THEN @ ELSE l], "virtualHost")
                /\ UNCHANGED mixed
           ELSE Refuse(c, spec)
    /\ UNCHANGED Others

processVirtualHost(c) ==
    /\ Works(c, "virtualHost")
    /\ LET h == req[c].body.virtualHost
       IN  Continue(c, [Target(c).spec EXCEPT !.virtualHost = IF h = NONE THEN @ ELSE h],
                    "accessLogConfigs")
    /\ UNCHANGED <<mixed, Others>>

(* The lists are filled one element at a time; a failure leaves the        *)
(* elements before it.  The lookups of one list make one step here.        *)
(* A faulty variant: what is missing or not allowed is skipped.            *)
FillListSkipping(c, field, uids, next) ==
    /\ Continue(c, [Target(c).spec EXCEPT ![field] = SelectSeq(uids, MayUse)], next)
    /\ UNCHANGED mixed
FillList(c, field, uids, next) ==
    LET spec == [Target(c).spec EXCEPT ![field] = Usable(uids)]
    IN  IF Usable(uids) = uids
        THEN Continue(c, spec, next) /\ UNCHANGED mixed
        ELSE Refuse(c, spec)

processAccessLogConfigs(c) ==
    /\ Works(c, "accessLogConfigs")
    /\ LET uids == req[c].body.accessLogConfigs
       IN  IF uids = <<>>
           THEN Continue(c, Target(c).spec, "additionalRoutes") /\ UNCHANGED mixed
           ELSE FillList(c, "accessLogConfigs", uids, "additionalRoutes")
    /\ UNCHANGED Others

processAdditionalRoutes(c) ==
    /\ Works(c, "additionalRoutes")
    /\ FillList(c, "additionalRoutes", req[c].body.additionalRoutes, "additionalHttpFilters")
    /\ UNCHANGED Others

processAdditionalHTTPFilters(c) ==
    /\ Works(c, "additionalHttpFilters")
    /\ FillList(c, "additionalHttpFilters", req[c].body.additionalHttpFilters, "build")
    /\ UNCHANGED Others

References(spec) ==
    {spec.template, spec.listener} \cup Elements(spec.accessLogConfigs)
      \cup Elements(spec.additionalRoutes) \cup Elements(spec.additionalHttpFilters)
Buildable(spec) ==
    /\ References(spec) \ {NONE} \subseteq present
    /\ spec.virtualHost \notin Unbuildable

(* The last assignment, of useRemoteAddress, and the trial build: on a copy *)
(* of the store or on the store itself, of the object as it is now.        *)
Build(c) ==
    /\ Works(c, "build")
    /\ LET u == req[c].body.useRemoteAddress
           keep == req[c].op = "update" /\ u = NONE
           spec == [Target(c).spec EXCEPT !.useRemoteAddress = IF keep THEN @ ELSE u]
       IN  IF Buildable(spec)
           THEN Continue(c, spec, "commit") /\ UNCHANGED mixed
           ELSE Refuse(c, spec)
    /\ UNCHANGED Others

(* client.Create: Kubernetes refuses a name that is taken.                 *)
CommitCreate(c) ==
    /\ Works(c, "commit")
    /\ req[c].op = "create"
    /\ Leave(c)
    /\ IF InKubernetes(req[c].name)
       THEN UNCHANGED <<api, queue>>
       ELSE Written(req[c].name, [req[c].own EXCEPT !.version = NextVersion])
    /\ UNCHANGED <<present, heap, store, built, unseen, mixed, requests, changes>>

(* client.Update sends the object as it is now.  Kubernetes refuses a      *)
(* version that is not its own; otherwise the answer is decoded into the   *)
(* object, which is still the stored one unless the reconciler replaced    *)
(* it.                                                                     *)
(* A faulty variant: sent without its version, the object is not refused.  *)
CommitUpdateForced(c) ==
    /\ Works(c, "commit")
    /\ req[c].op = "update"
    /\ Leave(c)
    /\ IF InKubernetes(req[c].name)
       THEN /\ Written(req[c].name, [Target(c) EXCEPT !.version = NextVersion])
            /\ heap' = [heap EXCEPT ![req[c].ptr].version = NextVersion]
       ELSE UNCHANGED <<api, queue, heap>>
    /\ UNCHANGED <<present, store, built, unseen, mixed, requests, changes>>
CommitUpdate(c) ==
    /\ Works(c, "commit")
    /\ req[c].op = "update"
    /\ LET n == req[c].name
           accepted == InKubernetes(n) /\ api[n].version = Target(c).version
       IN  IF accepted
           THEN /\ Leave(c)
                /\ Written(n, [Target(c) EXCEPT !.version = NextVersion])
                /\ heap' = [heap EXCEPT ![req[c].ptr].version = NextVersion]
                /\ UNCHANGED mixed
           ELSE Refuse(c, Target(c).spec) /\ UNCHANGED <<api, queue>>
    /\ UNCHANGED <<present, store, built, unseen, requests, changes>>

(* DeleteVirtualService: the stored object must be editable; client.Delete *)
(* asks for its name.                                                      *)
StartDelete(c, n) ==
    /\ req[c] = Idle
    /\ requests < MaxRequests
    /\ requests' = requests + 1
    /\ store[n] # NoObject
    /\ heap[store[n]].editable
    /\ req' = [req EXCEPT ![c] = [Idle EXCEPT !.op = "delete", !.name = n, !.pc = "delete"]]
    /\ UNCHANGED <<api, present, heap, store, built, queue, unseen, mixed, changes>>
CommitDelete(c) ==
    /\ Works(c, "delete")
    /\ Leave(c)
    /\ api' = [api EXCEPT ![req[c].name] = NONE]
    /\ queue' = IF InKubernetes(req[c].name) THEN queue \cup {req[c].name} ELSE queue
    /\ UNCHANGED <<present, heap, store, built, unseen, mixed, requests, changes>>

APINext ==
    \/ \E n \in Service : \/ ApplyVirtualService(n) \/ DeleteFromStore(n)
                       \/ Apply(n) \/ Touch(n) \/ ReportStatus(n)
    \/ \E x \in Resource : ChangeResource(x)
    \/ \E c \in Client :
         \/ \E r \in Creations : StartCreate(c, r)
         \/ \E n \in Service, body \in Updates : StartUpdate(c, n, body)
         \/ \E n \in Service : StartDelete(c, n)
         \/ processTemplate(c) \/ processListener(c) \/ processVirtualHost(c)
         \/ processAccessLogConfigs(c) \/ processAdditionalRoutes(c)
         \/ processAdditionalHTTPFilters(c) \/ Build(c)
         \/ CommitCreate(c) \/ CommitUpdate(c) \/ CommitDelete(c)

APISpec == APIInit /\ [][APINext]_apiVars

-----------------------------------------------------------------------------
UpdateAccepted(c) == req[c].op = "update" /\ req'[c] = Idle /\ api' # api
CreateAccepted(c) == req[c].op = "create" /\ req'[c] = Idle /\ api' # api

(* What a body asks of an object: lists of routes and filters and the      *)
(* nodes are replaced, anything else only if the body has it.              *)
Replaced == {"nodes", "additionalRoutes", "additionalHttpFilters"}
Lists == {"options", "accessLogConfigs"}
Requested(old, body) ==
    [f \in Fields |->
       IF f \in Replaced THEN body[f]
       ELSE IF body[f] = (IF f \in Lists THEN <<>> ELSE NONE) THEN old[f] ELSE body[f]]

(* UpdateVirtualService never undoes a change that others made in          *)
(* Kubernetes and that the store does not have: the version in the object  *)
(* it sends is the one that the object's contents were read with, whatever *)
(* requests, reconciles and status reports touch it meanwhile.             *)
ForeignChangesKept ==
    [][\A c \in Client : UpdateAccepted(c) => req[c].name \notin unseen]_apiVars

(* UpdateVirtualService changes no VirtualService that is not editable in  *)
(* Kubernetes, although it asks the stored object, which the reconciler    *)
(* does not replace when only the annotation has changed.                  *)
EditableRespected ==
    [][\A c \in Client : UpdateAccepted(c) =>
         /\ api[req[c].name].editable
         /\ api'[req[c].name].editable]_apiVars

(* An update changes no more than it may: what others wrote and what is    *)
(* not editable stay.                                                      *)
UpdatesKeep == ForeignChangesKept /\ EditableRespected

(* A creation that CreateVirtualService reports as done replaces nothing   *)
(* and writes exactly what the request asks for, whatever resources come   *)
(* and go between its lookups.                                             *)
CreateAsRequested ==
    [][\A c \in Client : CreateAccepted(c) =>
         /\ ~ InKubernetes(req[c].name)
         /\ api'[req[c].name].spec = Requested(EmptySpec, req[c].body)]_apiVars

(* An update of an object that no failed update has touched and that no    *)
(* other request works on makes Kubernetes' object what the request asks   *)
(* for, on top of what Kubernetes had.                                     *)
LoneUpdateAsRequested ==
    [][\A c \in Client : UpdateAccepted(c) /\ req[c].ptr \notin mixed =>
         api'[req[c].name].spec = Requested(api[req[c].name].spec, req[c].body)]_apiVars

(* What the API reports as done is what was asked for.                     *)
WritesAsRequested == CreateAsRequested /\ LoneUpdateAsRequested

(* docs/xds.md: "When a Kubernetes CR changes, the update is propagated to *)
(* Envoy proxies within milliseconds".  Once no event and no request is    *)
(* left, the last rebuild has read what Kubernetes has.                    *)
UpdatePropagated ==
    queue = {} /\ (\A c \in Client : req[c] = Idle) =>
      \A n \in Service : built[n] = IF InKubernetes(n) THEN api[n].spec ELSE NONE

=============================================================================
