------------------------- MODULE ConvergenceProofs --------------------------
(***************************************************************************)
(* What holds once everybody is at rest: the store has what Kubernetes     *)
(* has, and the webhook's configuration trusts its certificate.            *)
(***************************************************************************)
EXTENDS Reconcilers, WebhookCerts, FiniteSetTheorems, TLAPS

(* Steps are first-order reasoning unless they name another prover.        *)
USE Zenon

-----------------------------------------------------------------------------
(***************************************************************************)
(* No change of Kubernetes is lost (QuiescentAgreement), and a status is   *)
(* written to the spec it was computed for only (StatusMatchesSpec), for   *)
(* any objects, changes, failures and restarts.  QuiescentAgreement is not *)
(* inductive: it says nothing of an object that a worker has in hand.  The *)
(* strengthening, Caught, speaks of every object outside the queue: its    *)
(* worker holds what the informer has, or the store has it.                *)
(***************************************************************************)

Worker == [pc  : {"idle", "apply", "status", "write", "list", "send"},
           obj : Object \cup {NONE},
           got : APIObject \cup {NONE},
           new : Status \cup {NONE}]

SyncTyped ==
    /\ kind \in KindMaps /\ kind \in [Object -> Kind]
    /\ api \in [Object -> APIObject \cup {NONE}]
    /\ informer \in [Object -> APIObject \cup {NONE}]
    /\ queue \subseteq Object
    /\ worker \in [Kind -> Worker]
    /\ \A k \in Kind : worker[k].pc # "idle" => worker[k].obj \in OfKind(k)
    /\ toSend \subseteq Object
    /\ phase \in {"loading", "filled", "ready"}
    /\ phase # "ready" => \A k \in Kind : worker[k].pc = "idle"
    /\ store \in [Object -> Specs \cup {NONE}]
    /\ status \in [Object -> Status]
    /\ untold \subseteq Object /\ skipped \subseteq Object
    /\ changes \in 0 .. MaxChanges

Follows(o) ==
    IF informer[o] = NONE THEN store[o] = NONE
    ELSE store[o] # NONE /\ store[o].means = informer[o].spec.means

InHand(o) == worker[kind[o]].pc = "apply" /\ worker[kind[o]].obj = o

Caught(o) ==
    o \notin queue \cup skipped =>
        /\ InHand(o) => worker[kind[o]].got = informer[o]
        /\ ~InHand(o) => Follows(o)
        /\ phase = "loading" => informer[o] = NONE

(* What the VirtualService worker has applied is what the store has.       *)
Applied ==
    LET w == worker["VirtualService"]
    IN  /\ w.pc \in {"status", "write"} => w.got # NONE /\ store[w.obj] = w.got.spec
        /\ w.pc = "write" => w.new \in Status

SyncInv == SyncTyped /\ (\A o \in Object : Caught(o)) /\ Applied

-----------------------------------------------------------------------------
(* An idle worker is one of the states a worker can be in.                 *)
LEMMA IdleType == Idle \in Worker
  BY DEF Idle, Worker

(* A status that is unset or computed from a spec is a status.             *)
LEMMA StatusesType == \A st : Statuses(st) \in [Object -> Status]
  BY DEF Statuses, StatusOf, Status

(* What a rebuild leaves: the store it was given, and statuses of the      *)
(* right type.                                                             *)
LEMMA RebuildFacts ==
    ASSUME SyncTyped, NEW st, NEW told, Rebuild(st, told)
    PROVE  store' = st /\ status' \in [Object -> Status] /\ untold' \subseteq Object
  BY StatusesType DEF Rebuild, SyncTyped, VS, OfKind

(* After Apply the store has what was applied, up to the comparison.       *)
LEMMA ApplyFacts ==
    ASSUME SyncTyped, NEW k, NEW o \in Object, NEW x \in Specs, NEW told,
           Apply(k, o, x, told)
    PROVE  /\ store' \in [Object -> Specs \cup {NONE}]
           /\ store'[o] # NONE /\ store'[o].means = x.means
           /\ k # "HttpFilter" => store'[o] = x
           /\ \A p \in Object : p # o => store'[p] = store[p]
           /\ status' \in [Object -> Status] /\ untold' \subseteq Object
  <1>1. CASE Unchanged(k, o, x)
    BY <1>1 DEF Apply, Unchanged, IsEqual, SyncTyped
  <1>2. CASE ~Unchanged(k, o, x)
    <2>1. Rebuild(Put(store, o, x), told)
      BY <1>2 DEF Apply
    <2>2. /\ store' = [store EXCEPT ![o] = x]
          /\ status' \in [Object -> Status] /\ untold' \subseteq Object
      BY <2>1, RebuildFacts DEF Put
    <2>3. store \in [Object -> Specs \cup {NONE}] /\ x # NONE
      BY ObjectsAssumption DEF SyncTyped
    <2> QED BY <2>2, <2>3
  <1> QED BY <1>1, <1>2

(* A deletion takes one object from the store and leaves the others.       *)
LEMMA DeleteFacts ==
    ASSUME SyncTyped, NEW o \in Object, Delete(o)
    PROVE  /\ store' \in [Object -> Specs \cup {NONE}]
           /\ store'[o] = NONE
           /\ \A p \in Object : p # o => store'[p] = store[p]
           /\ status' \in [Object -> Status] /\ untold' \subseteq Object
  <1>1. CASE store[o] = NONE
    BY <1>1 DEF Delete, SyncTyped
  <1>2. CASE store[o] # NONE
    <2>1. Rebuild(Put(store, o, NONE), {o})
      BY <1>2 DEF Delete
    <2>2. /\ store' = [store EXCEPT ![o] = NONE]
          /\ status' \in [Object -> Status] /\ untold' \subseteq Object
      BY <2>1, RebuildFacts DEF Put
    <2>3. store \in [Object -> Specs \cup {NONE}]
      BY DEF SyncTyped
    <2> QED BY <2>2, <2>3
  <1> QED BY <1>1, <1>2

(* An object that a step does not concern stays caught.                    *)
LEMMA Unconcerned ==
    ASSUME NEW o \in Object, Caught(o),
           informer'[o] = informer[o], store'[o] = store[o], kind' = kind,
           o \in queue => o \in queue', o \in skipped => o \in skipped',
           phase' = "loading" => phase = "loading",
           InHand(o)' <=> InHand(o),
           InHand(o) => worker'[kind[o]].got = worker[kind[o]].got
    PROVE  Caught(o)'
  BY DEF Caught, Follows

(* Before the initial load nothing is stored and nothing has been seen, so *)
(* nothing can have been missed.                                           *)
LEMMA SyncInitially == Init => SyncInv
  <1> SUFFICES ASSUME Init PROVE SyncInv
    OBVIOUS
  <1>1. SyncTyped
    <2>1. worker \in [Kind -> Worker] /\ \A k \in Kind : worker[k].pc = "idle"
      BY IdleType DEF Init, Idle
    <2>2. /\ kind \in KindMaps /\ kind \in [Object -> Kind]
          /\ api \in [Object -> APIObject \cup {NONE}] /\ informer = api
      BY ObjectsAssumption DEF Init
    <2>3. /\ store \in [Object -> Specs \cup {NONE}] /\ status \in [Object -> Status]
          /\ queue \subseteq Object /\ skipped \subseteq Object
          /\ changes \in 0 .. MaxChanges
      BY ObjectsAssumption, SMT DEF Init, Empty, Status, ListedObjects, UnlistedObjects
    <2> QED BY <2>1, <2>2, <2>3 DEF SyncTyped, Init
  <1>2. ASSUME NEW o \in Object PROVE Caught(o)
    <2>1. o \notin queue \cup skipped => informer[o] = NONE
      BY DEF Init, UnlistedObjects
    <2>2. ~InHand(o) /\ store[o] = NONE
      BY <1>1 DEF Init, InHand, Idle, Empty, SyncTyped
    <2> QED BY <2>1, <2>2 DEF Caught, Follows
  <1>3. Applied
    BY DEF Init, Applied, Idle, Kind
  <1> QED BY <1>1, <1>2, <1>3 DEF SyncInv

-----------------------------------------------------------------------------
(* The API server, the watch, start-up and restarts.                       *)

(* The initial load stores what the informers have; what they do not have  *)
(* yet is still to be delivered.                                           *)
LEMMA FillStep ==
    ASSUME SyncInv, FillFromKubernetes
    PROVE  SyncInv'
  <1> USE DEF SyncInv
  <1>1. /\ UNCHANGED <<kind, api, informer, queue, worker, toSend, status, untold,
                       skipped, changes>>
        /\ phase = "loading" /\ phase' = "filled"
        /\ store' = [o \in Object |->
                        IF informer[o] # NONE /\ Loaded(o, informer[o])
                        THEN informer[o].spec ELSE NONE]
    BY DEF FillFromKubernetes, counters
  <1>2. store' \in [Object -> Specs \cup {NONE}]
    BY <1>1 DEF SyncTyped, APIObject
  <1>3. SyncTyped'
    BY <1>1, <1>2 DEF SyncTyped, OfKind
  <1>4. ASSUME NEW o \in Object PROVE Caught(o)'
    <2>1. ~InHand(o)'
      BY <1>1 DEF SyncTyped, InHand
    <2>2. o \notin queue \cup skipped => informer[o] = NONE
      BY <1>1 DEF Caught
    <2> QED BY <1>1, <2>1, <2>2 DEF Caught, Follows
  <1>5. Applied'
    BY <1>1 DEF Applied, SyncTyped, Kind
  <1> QED BY <1>3, <1>4, <1>5

(* The gate opens after the first rebuild and lets the queued objects      *)
(* through.                                                                *)
LEMMA OpenGateStep ==
    ASSUME SyncInv, OpenGate
    PROVE  SyncInv'
  <1> USE DEF SyncInv
  <1>1. /\ UNCHANGED <<kind, api, informer, queue, worker, toSend, skipped, changes>>
        /\ phase = "filled" /\ phase' = "ready" /\ store' = store
        /\ status' \in [Object -> Status] /\ untold' \subseteq Object
    BY RebuildFacts DEF OpenGate, counters
  <1>2. SyncTyped'
    BY <1>1 DEF SyncTyped, OfKind
  <1>3. ASSUME NEW o \in Object PROVE Caught(o)'
    BY <1>1, Unconcerned DEF InHand
  <1>4. Applied'
    BY <1>1 DEF Applied
  <1> QED BY <1>2, <1>3, <1>4

(* A change in Kubernetes reaches no queue yet: the watch has still to     *)
(* deliver it.                                                             *)
LEMMA ChangeObjectStep ==
    ASSUME SyncInv, NEW c \in Object, ChangeObject(c)
    PROVE  SyncInv'
  <1> USE DEF SyncInv
  <1>1. UNCHANGED <<kind, informer, queue, worker, toSend, phase, store, status,
                    untold, skipped>>
    BY DEF ChangeObject
  <1>2. changes' \in 0 .. MaxChanges /\ changes + 1 \in 0 .. MaxChanges
    BY ObjectsAssumption, SMT DEF ChangeObject, CanChange, SyncTyped
  <1>3. api' \in [Object -> APIObject \cup {NONE}]
    <2>1. CASE api' = [api EXCEPT ![c] = NONE]
      BY <2>1 DEF SyncTyped
    <2>2. ASSUME NEW x \in NewObjects(kind[c]),
                 api' = [api EXCEPT ![c] =
                    IF api[c] = NONE THEN x ELSE [x EXCEPT !.status = api[c].status]]
          PROVE  api' \in [Object -> APIObject \cup {NONE}]
      <3>1. x \in APIObject
        BY <1>2 DEF NewObjects, APIObject, Status, Class
      <3>2. api[c] # NONE => [x EXCEPT !.status = api[c].status] \in APIObject
        BY <3>1 DEF APIObject, SyncTyped
      <3> QED BY <2>2, <3>1, <3>2 DEF SyncTyped
    <2> QED BY <2>1, <2>2 DEF ChangeObject
  <1>4. SyncTyped'
    BY <1>1, <1>2, <1>3 DEF SyncTyped, OfKind
  <1>5. ASSUME NEW o \in Object PROVE Caught(o)'
    BY <1>1, Unconcerned DEF InHand
  <1>6. Applied'
    BY <1>1 DEF Applied
  <1> QED BY <1>4, <1>5, <1>6

(* An event that arrives queues its object or marks it as skipped.         *)
LEMMA DeliverStep ==
    ASSUME SyncInv, NEW d \in Object, Deliver(d)
    PROVE  SyncInv'
  <1> USE DEF SyncInv
  <1>1. /\ UNCHANGED <<kind, api, worker, toSend, phase, store, status, untold, changes>>
        /\ informer' = [informer EXCEPT ![d] = api[d]]
        /\ \/ queue' = queue \cup {d} /\ skipped' = skipped \ {d}
           \/ skipped' = skipped \cup {d} /\ queue' = queue
    BY DEF Deliver, counters
  <1>2. SyncTyped'
    BY <1>1 DEF SyncTyped, OfKind
  <1>3. ASSUME NEW o \in Object PROVE Caught(o)'
    <2>1. CASE o = d
      BY <1>1, <2>1 DEF Caught
    <2>2. CASE o # d
      <3>1. informer'[o] = informer[o]
        BY <1>1, <2>2 DEF SyncTyped
      <3> QED BY <1>1, <2>2, <3>1, Unconcerned DEF InHand
    <2> QED BY <2>1, <2>2
  <1>4. Applied'
    BY <1>1 DEF Applied
  <1> QED BY <1>2, <1>3, <1>4

(* A restart empties the store and starts over from the list of all        *)
(* objects.                                                                *)
LEMMA RestartStep ==
    ASSUME SyncInv, Restart
    PROVE  SyncInv'
  <1>1. /\ UNCHANGED <<kind, api, changes>> /\ informer' = api
        /\ queue' = ListedObjects(api) /\ skipped' = UnlistedObjects(api)
        /\ worker' = [k \in Kind |-> Idle] /\ toSend' = {} /\ phase' = "loading"
        /\ store' = Empty /\ status' = [o \in Object |-> "valid"] /\ untold' = {}
    BY DEF Restart
  <1>2. worker' \in [Kind -> Worker] /\ \A k \in Kind : worker'[k].pc = "idle"
    BY <1>1, IdleType DEF Idle
  <1>3. /\ store' \in [Object -> Specs \cup {NONE}] /\ status' \in [Object -> Status]
        /\ queue' \subseteq Object /\ skipped' \subseteq Object
    BY <1>1 DEF Empty, Status, ListedObjects, UnlistedObjects
  <1>4. SyncTyped'
    BY <1>1, <1>2, <1>3 DEF SyncTyped, SyncInv
  <1>5. ASSUME NEW o \in Object PROVE Caught(o)'
    <2>1. o \notin queue' \cup skipped' => informer'[o] = NONE
      BY <1>1 DEF UnlistedObjects
    <2>2. ~InHand(o)' /\ store'[o] = NONE
      BY <1>1, <1>2, <1>4 DEF InHand, Empty, SyncTyped
    <2> QED BY <2>1, <2>2 DEF Caught, Follows
  <1>6. Applied'
    BY <1>2 DEF Applied, Kind
  <1> QED BY <1>4, <1>5, <1>6 DEF SyncInv

-----------------------------------------------------------------------------
(* Workers.                                                                *)

(* A step of one reconciler leaves the workers of the other kinds alone.   *)
LEMMA WorkerFacts ==
    ASSUME SyncTyped, NEW k \in Kind, NEW w, worker' = [worker EXCEPT ![k] = w]
    PROVE  worker'[k] = w /\ \A j \in Kind : j # k => worker'[j] = worker[j]
  BY DEF SyncTyped

(* A worker takes an object out of the queue with what the informer has.   *)
LEMMA GetStep ==
    ASSUME SyncInv, NEW k \in Kind, Get(k)
    PROVE  SyncInv'
  <1> USE DEF SyncInv
  <1>1. PICK g \in queue \cap OfKind(k) :
            /\ worker' = [worker EXCEPT ![k] =
                  [pc |-> "apply", obj |-> g, got |-> informer[g], new |-> NONE]]
            /\ worker[k].pc = "idle"
            /\ queue' = queue \ {g}
    BY DEF Get, Step
  <1> DEFINE w == [pc |-> "apply", obj |-> g, got |-> informer[g], new |-> NONE]
  <1>2. /\ UNCHANGED <<kind, api, informer, toSend, phase, store, status, untold,
                       skipped, changes>>
        /\ phase = "ready"
    BY DEF Get, counters
  <1>3. worker' = [worker EXCEPT ![k] = w] /\ g \in Object /\ kind[g] = k
    BY <1>1 DEF OfKind, SyncTyped
  <1>4. w \in Worker
    BY <1>3 DEF Worker, SyncTyped
  <1> HIDE DEF w
  <1>5. worker'[k] = w /\ \A j \in Kind : j # k => worker'[j] = worker[j]
    BY <1>3, WorkerFacts
  <1>6. w.pc = "apply" /\ w.obj = g /\ w.got = informer[g]
    BY DEF w
  <1>7. SyncTyped'
    BY <1>1, <1>2, <1>3, <1>4, <1>5, <1>6, SMT DEF SyncTyped, OfKind
  <1>8. ASSUME NEW o \in Object PROVE Caught(o)'
    <2>1. CASE o = g
      BY <1>2, <1>3, <1>5, <1>6, <2>1 DEF Caught, InHand
    <2>2. CASE o # g
      <3>1. (InHand(o)' <=> InHand(o)) /\ (InHand(o) => worker'[kind[o]].got = worker[kind[o]].got)
        <4>1. CASE kind[o] = k
          BY <1>1, <1>2, <1>5, <1>6, <2>2, <4>1 DEF InHand
        <4>2. CASE kind[o] # k
          BY <1>2, <1>5, <4>2 DEF InHand, SyncTyped
        <4> QED BY <4>1, <4>2
      <3> QED BY <1>1, <1>2, <2>2, <3>1, Unconcerned
    <2> QED BY <2>1, <2>2
  <1>9. Applied'
    BY <1>2, <1>5, <1>6 DEF Applied, Kind
  <1> QED BY <1>7, <1>8, <1>9

(* A worker that leaves the object it had, or goes on with it: all objects *)
(* stay caught if that one is in the store or back in the queue.           *)
LEMMA WorkerStep ==
    ASSUME SyncInv, NEW k \in Kind, NEW w \in Worker,
           NEW b \in Object, b = worker[k].obj,
           worker[k].pc # "idle", worker' = [worker EXCEPT ![k] = w],
           w.pc # "apply", w.pc # "idle" => w.obj = b,
           UNCHANGED <<kind, informer, skipped, phase, changes>>,
           api' \in [Object -> APIObject \cup {NONE}],
           toSend' \subseteq Object,
           queue \subseteq queue', queue' \subseteq Object,
           store' \in [Object -> Specs \cup {NONE}],
           status' \in [Object -> Status], untold' \subseteq Object,
           \A p \in Object : p # b => store'[p] = store[p],
           b \notin queue' \cup skipped => Follows(b)'
    PROVE  SyncTyped' /\ \A o \in Object : Caught(o)'
  <1> USE DEF SyncInv
  <1>1. worker'[k] = w /\ \A j \in Kind : j # k => worker'[j] = worker[j]
    BY WorkerFacts
  <1>2. phase = "ready" /\ kind[b] = k
    BY DEF SyncTyped, OfKind
  <1>3. SyncTyped'
    BY <1>1, <1>2 DEF SyncTyped, OfKind
  <1>4. ASSUME NEW o \in Object PROVE Caught(o)'
    <2>1. CASE o = b
      BY <1>1, <1>2, <2>1 DEF Caught, InHand
    <2>2. CASE o # b
      <3>1. (InHand(o)' <=> InHand(o)) /\ (InHand(o) => worker'[kind[o]].got = worker[kind[o]].got)
        <4>1. CASE kind[o] = k
          BY <1>1, <2>2, <4>1 DEF InHand
        <4>2. CASE kind[o] # k
          BY <1>1, <4>2 DEF InHand, SyncTyped
        <4> QED BY <4>1, <4>2
      <3> QED BY <1>2, <2>2, <3>1, Unconcerned
    <2> QED BY <2>1, <2>2
  <1> QED BY <1>3, <1>4

(* The outcome of an apply: what the informer had, unless the object has   *)
(* been queued since.                                                      *)
LEMMA AppliedFollows ==
    ASSUME SyncInv, NEW k \in Kind, NEW b \in Object, b = worker[k].obj,
           worker[k].pc = "apply", informer' = informer, skipped' = skipped,
           queue \subseteq queue', b \notin queue' \cup skipped,
           IF worker[k].got = NONE THEN store'[b] = NONE
           ELSE store'[b] # NONE /\ store'[b].means = worker[k].got.spec.means
    PROVE  Follows(b)'
  <1>1. kind[b] = k
    BY DEF SyncInv, SyncTyped, OfKind
  <1>2. worker[k].got = informer[b]
    BY <1>1 DEF SyncInv, Caught, InHand
  <1> QED BY <1>2 DEF Follows

(* An object whose worker is past the apply is in the store.               *)
LEMMA PastFollows ==
    ASSUME SyncInv, NEW k \in Kind, NEW b \in Object, b = worker[k].obj,
           worker[k].pc # "apply", worker[k].pc # "idle", UNCHANGED <<informer, store, skipped>>,
           queue \subseteq queue', b \notin queue' \cup skipped
    PROVE  Follows(b)'
  <1>1. kind[b] = k
    BY DEF SyncInv, SyncTyped, OfKind
  <1> QED BY <1>1 DEF SyncInv, Caught, InHand, Follows

(* A reconciler of a kind that has no further steps: it applies or         *)
(* deletes, or fails and is queued again.                                  *)
LEMMA ApplyOrDeleteStep ==
    ASSUME SyncInv, NEW k \in Kind \ {"VirtualService"}, ApplyOrDelete(k)
    PROVE  SyncInv'
  <1> USE DEF SyncInv
  <1> DEFINE b == worker[k].obj
             x == worker[k].got
  <1>1. /\ UNCHANGED <<kind, api, informer, queue, toSend, phase, skipped, changes>>
        /\ worker[k].pc = "apply" /\ worker' = [worker EXCEPT ![k] = Idle]
        /\ IF x = NONE THEN Delete(b) ELSE Apply(k, b, x.spec, {})
    BY DEF ApplyOrDelete, Done, Step, counters
  <1>2. b \in Object /\ kind[b] = k /\ (x # NONE => x.spec \in Specs)
    BY <1>1 DEF SyncTyped, OfKind, Worker, APIObject
  <1>3. /\ store' \in [Object -> Specs \cup {NONE}]
        /\ status' \in [Object -> Status] /\ untold' \subseteq Object
        /\ \A p \in Object : p # b => store'[p] = store[p]
        /\ IF x = NONE THEN store'[b] = NONE
           ELSE store'[b] # NONE /\ store'[b].means = x.spec.means
    <2>1. CASE x = NONE
      BY <1>1, <1>2, <2>1, DeleteFacts
    <2>2. CASE x # NONE
      <3>1. SyncTyped
        BY DEF SyncInv
      <3>2. PICK s \in Specs : s = x.spec
        BY <1>2, <2>2
      <3>3. Apply(k, b, s, {})
        BY <1>1, <2>2, <3>2
      <3> HIDE DEF b, x
      <3> QED BY ONLY <1>2, <2>2, <3>1, <3>2, <3>3, ApplyFacts, SMTT(30)
    <2> QED BY <2>1, <2>2
  <1>4. PICK c \in Object : c = b
    BY <1>2
  <1>5. c \notin queue' \cup skipped => Follows(c)'
    BY <1>1, <1>3, <1>4, AppliedFollows
  <1>6. SyncTyped' /\ \A o \in Object : Caught(o)'
    <2>1. /\ api' \in [Object -> APIObject \cup {NONE}] /\ toSend' \subseteq Object
          /\ queue \subseteq queue' /\ queue' \subseteq Object
      BY <1>1 DEF SyncTyped
    <2>2. Idle \in Worker /\ Idle.pc = "idle"
      BY IdleType DEF Idle
    <2>3. \A p \in Object : p # c => store'[p] = store[p]
      BY <1>3, <1>4
    <2> HIDE DEF b, x, SyncInv
    <2> QED BY <1>1, <1>3, <1>4, <1>5, <2>1, <2>2, <2>3, WorkerStep DEF b
  <1>7. Applied'
    <2>1. worker'["VirtualService"] = worker["VirtualService"]
      BY <1>1, WorkerFacts DEF Kind
    <2>2. worker["VirtualService"].pc # "idle" =>
            /\ worker["VirtualService"].obj \in Object
            /\ kind[worker["VirtualService"].obj] = "VirtualService"
      BY DEF SyncTyped, OfKind, Kind
    <2> QED BY <1>2, <1>3, <2>1, <2>2 DEF Applied
  <1> QED BY <1>6, <1>7

(* The deletion by the reconcilers of VirtualServices and of templates.    *)
LEMMA DeleteOfStep ==
    ASSUME SyncInv, NEW k \in {"VirtualService", "VirtualServiceTemplate"},
           DeleteOf(k)
    PROVE  SyncInv'
  <1> USE DEF SyncInv
  <1> DEFINE b == worker[k].obj
  <1>0. k \in Kind
    BY DEF Kind
  <1>1. /\ UNCHANGED <<kind, api, informer, toSend, phase, skipped, changes>>
        /\ worker[k].pc = "apply" /\ worker[k].got = NONE
        /\ worker' = [worker EXCEPT ![k] = Idle]
        /\ queue' \in {queue, queue \cup {b}} /\ Delete(b)
    BY DEF DeleteOf, Retry, Done, Step, counters
  <1>2. b \in Object /\ kind[b] = k
    BY <1>0, <1>1 DEF SyncTyped, OfKind
  <1>3. /\ store' \in [Object -> Specs \cup {NONE}]
        /\ status' \in [Object -> Status] /\ untold' \subseteq Object
        /\ \A p \in Object : p # b => store'[p] = store[p]
        /\ store'[b] = NONE
    BY <1>1, <1>2, DeleteFacts
  <1>4. PICK c \in Object : c = b
    BY <1>2
  <1>5. queue \subseteq queue' /\ queue' \subseteq Object
    BY <1>1, <1>2 DEF SyncTyped
  <1>6. c \notin queue' \cup skipped => Follows(c)'
    BY <1>0, <1>1, <1>3, <1>4, <1>5, AppliedFollows
  <1>7. SyncTyped' /\ \A o \in Object : Caught(o)'
    BY <1>0, <1>1, <1>3, <1>4, <1>5, <1>6, IdleType, WorkerStep, ZenonT(60) DEF Idle, SyncTyped
  <1>8. Applied'
    <2>1. CASE k = "VirtualService"
      <3>1. worker'["VirtualService"] = Idle
        BY <1>0, <1>1, <2>1, WorkerFacts
      <3> QED BY <3>1, SMT DEF Applied, Idle
    <2>2. CASE k # "VirtualService"
      <3>1. worker'["VirtualService"] = worker["VirtualService"]
        BY <1>0, <1>1, <2>2, WorkerFacts DEF Kind
      <3>2. worker["VirtualService"].pc # "idle" =>
              /\ worker["VirtualService"].obj \in Object
              /\ kind[worker["VirtualService"].obj] = "VirtualService"
        BY DEF SyncTyped, OfKind, Kind
      <3> QED BY <1>2, <1>3, <2>2, <3>1, <3>2 DEF Applied
    <2> QED BY <2>1, <2>2
  <1> QED BY <1>7, <1>8

(* The reconciler of VirtualServices applies the object it has read.       *)
LEMMA ApplyVirtualServiceStep ==
    ASSUME SyncInv, ApplyVirtualService
    PROVE  SyncInv'
  <1> USE DEF SyncInv
  <1> DEFINE k == "VirtualService"
             b == worker[k].obj
             x == worker[k].got
             w == [worker[k] EXCEPT !.pc = "status"]
  <1>0. k \in Kind
    BY DEF Kind
  <1>1. /\ UNCHANGED <<kind, api, informer, queue, toSend, phase, skipped, changes>>
        /\ worker[k].pc = "apply" /\ worker' = [worker EXCEPT ![k] = w]
        /\ x # NONE /\ Apply(k, b, x.spec, {})
    BY DEF ApplyVirtualService, Step, counters
  <1>2. b \in Object /\ kind[b] = k /\ x.spec \in Specs
    BY <1>0, <1>1 DEF SyncTyped, OfKind, Worker, APIObject
  <1>3. w \in Worker /\ w.pc = "status" /\ w.obj = b /\ w.got = x
    BY <1>0 DEF SyncTyped, Worker
  <1>4. /\ store' \in [Object -> Specs \cup {NONE}]
        /\ status' \in [Object -> Status] /\ untold' \subseteq Object
        /\ \A p \in Object : p # b => store'[p] = store[p]
        /\ store'[b] # NONE /\ store'[b] = x.spec
    <2>1. SyncTyped
      BY DEF SyncInv
    <2>2. PICK s \in Specs : s = x.spec
      BY <1>2
    <2>3. Apply(k, b, s, {}) /\ k # "HttpFilter"
      BY <1>1, <2>2
    <2> HIDE DEF b, x, k
    <2>4. /\ store' \in [Object -> Specs \cup {NONE}]
          /\ store'[b] # NONE /\ (k # "HttpFilter" => store'[b] = s)
          /\ \A p \in Object : p # b => store'[p] = store[p]
          /\ status' \in [Object -> Status] /\ untold' \subseteq Object
      BY <1>2, <2>1, <2>2, <2>3, ApplyFacts, ZenonT(60)
    <2> QED BY <2>2, <2>3, <2>4
  <1>5. PICK c \in Object : c = b
    BY <1>2
  <1> HIDE DEF w
  <1>6. c \notin queue' \cup skipped => Follows(c)'
    BY <1>0, <1>1, <1>4, <1>5, AppliedFollows
  <1>7. SyncTyped' /\ \A o \in Object : Caught(o)'
    BY <1>0, <1>1, <1>3, <1>4, <1>5, <1>6, WorkerStep DEF SyncTyped
  <1>8. Applied'
    <2>1. worker'["VirtualService"] = w
      BY <1>0, <1>1, WorkerFacts
    <2> QED BY <1>1, <1>3, <1>4, <2>1 DEF Applied
  <1> QED BY <1>7, <1>8

(* It then looks up the status that the rebuild recorded.                  *)
LEMMA ReadStatusStep ==
    ASSUME SyncInv, ReadStatus
    PROVE  SyncInv'
  <1> USE DEF SyncInv
  <1> DEFINE k == "VirtualService"
             b == worker[k].obj
             v == [worker[k] EXCEPT !.pc = "write", !.new = status[b]]
  <1>0. k \in Kind
    BY DEF Kind
  <1>1. /\ UNCHANGED <<kind, api, informer, queue, toSend, phase, store, status,
                       skipped, changes>>
        /\ worker[k].pc = "status" /\ untold' = untold \ {b}
        /\ \/ worker' = [worker EXCEPT ![k] = v]
           \/ worker' = [worker EXCEPT ![k] = Idle]
    BY DEF ReadStatus, Done, Step, counters
  <1>2. b \in Object
    BY <1>0, <1>1 DEF SyncTyped, OfKind
  <1>3. /\ v \in Worker /\ v.pc = "write" /\ v.obj = b /\ v.got = worker[k].got
        /\ v.new \in Status /\ Idle \in Worker /\ Idle.pc = "idle"
    BY <1>0, <1>2, IdleType DEF SyncTyped, Worker, Idle
  <1>4. PICK c \in Object : c = b
    BY <1>2
  <1>5. c \notin queue' \cup skipped => Follows(c)'
    BY <1>0, <1>1, <1>4, PastFollows
  <1>6. /\ store' \in [Object -> Specs \cup {NONE}]
        /\ status' \in [Object -> Status] /\ untold' \subseteq Object
        /\ api' \in [Object -> APIObject \cup {NONE}] /\ toSend' \subseteq Object
        /\ queue' \subseteq Object
    BY <1>1 DEF SyncTyped
  <1>7. PICK w \in Worker : /\ worker' = [worker EXCEPT ![k] = w]
                            /\ w.pc \in {"write", "idle"}
                            /\ w.pc # "idle" => /\ w.obj = b /\ w.got = worker[k].got
                                                /\ w.new \in Status
    BY <1>1, <1>3
  <1>8. SyncTyped' /\ \A o \in Object : Caught(o)'
    BY <1>0, <1>1, <1>4, <1>5, <1>6, <1>7, WorkerStep
  <1>9. Applied'
    <2>1. worker'["VirtualService"] = w
      BY <1>0, <1>7, WorkerFacts
    <2> QED BY <1>1, <1>7, <2>1 DEF Applied
  <1> QED BY <1>8, <1>9

(* The write of a status changes the status only.                          *)
LEMMA WriteStatusStep ==
    ASSUME SyncInv, WriteStatus \/ WriteStatusFails
    PROVE  SyncInv'
  <1> USE DEF SyncInv
  <1> DEFINE k == "VirtualService"
             b == worker[k].obj
  <1>0. k \in Kind
    BY DEF Kind
  <1>1. /\ UNCHANGED <<kind, informer, toSend, phase, store, status, untold,
                       skipped, changes>>
        /\ worker[k].pc = "write" /\ worker' = [worker EXCEPT ![k] = Idle]
        /\ queue' \in {queue, queue \cup {b}}
        /\ \/ api' = api
           \/ api[b] = worker[k].got /\ api' = [api EXCEPT ![b].status = worker[k].new]
    BY DEF WriteStatus, WriteStatusFails, Retry, Done, Step, counters
  <1>2. b \in Object /\ worker[k].got # NONE
    BY <1>0, <1>1 DEF SyncTyped, OfKind, Applied
  <1>3. PICK c \in Object : c = b
    BY <1>2
  <1>4. queue \subseteq queue' /\ queue' \subseteq Object
    BY <1>1, <1>2 DEF SyncTyped
  <1>5. c \notin queue' \cup skipped => Follows(c)'
    BY <1>0, <1>1, <1>3, <1>4, PastFollows
  <1>6. api' \in [Object -> APIObject \cup {NONE}]
    <2>1. CASE api' = api
      BY <2>1 DEF SyncTyped
    <2>2. CASE api[b] = worker[k].got /\ api' = [api EXCEPT ![b].status = worker[k].new]
      <3>1. api[b] \in APIObject
        BY <1>2, <2>2 DEF SyncTyped
      <3>2. worker[k].new \in Status
        BY <1>1 DEF Applied
      <3>3. [api[b] EXCEPT !.status = worker[k].new] \in APIObject
        BY <3>1, <3>2 DEF APIObject
      <3> QED BY <1>2, <2>2, <3>3 DEF SyncTyped
    <2> QED BY <1>1, <2>1, <2>2
  <1>7. Idle \in Worker /\ Idle.pc = "idle"
    BY IdleType DEF Idle
  <1>8. SyncTyped' /\ \A o \in Object : Caught(o)'
    BY <1>0, <1>1, <1>3, <1>4, <1>5, <1>6, <1>7, WorkerStep DEF SyncTyped
  <1>9. Applied'
    <2>1. worker'["VirtualService"] = Idle
      BY <1>0, <1>1, WorkerFacts
    <2> QED BY <2>1, SMT DEF Applied, Idle
  <1> QED BY <1>8, <1>9

(* The template worker concerns no VirtualService that is being applied.   *)
LEMMA AppliedKept ==
    ASSUME SyncInv, NEW k \in Kind \ {"VirtualService"}, NEW b \in Object, NEW w,
           kind[b] = k, worker' = [worker EXCEPT ![k] = w],
           \A p \in Object : p # b => store'[p] = store[p]
    PROVE  Applied'
  <1>1. worker'["VirtualService"] = worker["VirtualService"]
    BY WorkerFacts DEF Kind, SyncInv
  <1>2. worker["VirtualService"].pc # "idle" =>
          /\ worker["VirtualService"].obj \in Object
          /\ kind[worker["VirtualService"].obj] = "VirtualService"
    BY DEF SyncInv, SyncTyped, OfKind, Kind
  <1> QED BY <1>1, <1>2 DEF SyncInv, Applied

(* The reconciler of templates applies the template it has read.           *)
LEMMA ApplyTemplateStep ==
    ASSUME SyncInv, ApplyVirtualServiceTemplate
    PROVE  SyncInv'
  <1> USE DEF SyncInv
  <1> DEFINE k == "VirtualServiceTemplate"
             b == worker[k].obj
             x == worker[k].got
             v == [worker[k] EXCEPT !.pc = "list"]
  <1>0. k \in Kind \ {"VirtualService"}
    BY DEF Kind
  <1>1. /\ UNCHANGED <<kind, api, informer, queue, toSend, phase, skipped, changes>>
        /\ worker[k].pc = "apply" /\ x # NONE
        /\ \/ worker' = [worker EXCEPT ![k] = v]
           \/ worker' = [worker EXCEPT ![k] = Idle]
        /\ \E told : Apply(k, b, x.spec, told)
    BY DEF ApplyVirtualServiceTemplate, Done, Step, counters
  <1>2. b \in Object /\ kind[b] = k /\ x.spec \in Specs
    BY <1>0, <1>1 DEF SyncTyped, OfKind, Worker, APIObject
  <1>3. /\ v \in Worker /\ v.pc = "list" /\ v.obj = b
        /\ Idle \in Worker /\ Idle.pc = "idle"
    BY <1>0, IdleType DEF SyncTyped, Worker, Idle
  <1>4. PICK w \in Worker : /\ worker' = [worker EXCEPT ![k] = w]
                            /\ w.pc \in {"list", "idle"}
                            /\ w.pc # "idle" => w.obj = b
    BY <1>1, <1>3
  <1>5. /\ store' \in [Object -> Specs \cup {NONE}]
        /\ status' \in [Object -> Status] /\ untold' \subseteq Object
        /\ \A p \in Object : p # b => store'[p] = store[p]
        /\ store'[b] # NONE /\ store'[b].means = x.spec.means
    <2>1. PICK told : Apply(k, b, x.spec, told)
      BY <1>1
    <2> HIDE DEF k, b, x
    <2> QED BY <1>2, <2>1, ApplyFacts
  <1>6. PICK c \in Object : c = b
    BY <1>2
  <1>7. c \notin queue' \cup skipped => Follows(c)'
    BY <1>0, <1>1, <1>5, <1>6, AppliedFollows
  <1>8. SyncTyped' /\ \A o \in Object : Caught(o)'
    BY <1>0, <1>1, <1>4, <1>5, <1>6, <1>7, WorkerStep DEF SyncTyped
  <1>9. Applied'
    BY <1>0, <1>2, <1>4, <1>5, AppliedKept
  <1> QED BY <1>8, <1>9

(* It then lists the users of the template and sends them, one by one, to  *)
(* the channel of the VirtualServices.                                     *)
LEMMA SendStep ==
    ASSUME SyncInv, ListUsers \/ SendVS \/ AllSent
    PROVE  SyncInv'
  <1> USE DEF SyncInv
  <1> DEFINE k == "VirtualServiceTemplate"
             b == worker[k].obj
             v == [worker[k] EXCEPT !.pc = "send"]
  <1>0. k \in Kind \ {"VirtualService"}
    BY DEF Kind
  <1>1. /\ UNCHANGED <<kind, api, informer, phase, store, status, untold, skipped, changes>>
        /\ worker[k].pc \in {"list", "send"}
        /\ \/ worker' = [worker EXCEPT ![k] = v]
           \/ worker' = [worker EXCEPT ![k] = Idle]
           \/ worker' = worker /\ worker[k].pc = "send"
        /\ queue' = queue \/ \E u \in toSend : queue' = queue \cup {u}
        /\ toSend' \subseteq toSend \/ toSend' = GetVirtualServicesByTemplate(b)
    BY DEF ListUsers, SendVS, AllSent, Done, Step, counters
  <1>2. b \in Object /\ kind[b] = k
    BY <1>0, <1>1 DEF SyncTyped, OfKind
  <1>3. /\ v \in Worker /\ v.pc = "send" /\ v.obj = b
        /\ Idle \in Worker /\ Idle.pc = "idle"
    BY <1>0, IdleType DEF SyncTyped, Worker, Idle
  <1>4. worker[k] \in Worker /\ worker = [worker EXCEPT ![k] = worker[k]]
    BY <1>0 DEF SyncTyped
  <1>5. PICK w \in Worker : /\ worker' = [worker EXCEPT ![k] = w]
                            /\ w.pc \in {"send", "idle"}
                            /\ w.pc # "idle" => w.obj = b
    BY <1>1, <1>3, <1>4
  <1>6. /\ queue \subseteq queue' /\ queue' \subseteq Object /\ toSend' \subseteq Object
        /\ api' \in [Object -> APIObject \cup {NONE}]
        /\ store' \in [Object -> Specs \cup {NONE}]
        /\ status' \in [Object -> Status] /\ untold' \subseteq Object
    BY <1>1 DEF SyncTyped, GetVirtualServicesByTemplate, VS, OfKind
  <1>7. PICK c \in Object : c = b
    BY <1>2
  <1>8. c \notin queue' \cup skipped => Follows(c)'
    BY <1>0, <1>1, <1>6, <1>7, PastFollows
  <1>9. SyncTyped' /\ \A o \in Object : Caught(o)'
    <2>1. /\ UNCHANGED <<kind, informer, skipped, phase, changes>> /\ worker[k].pc # "idle"
          /\ w.pc # "apply" /\ (w.pc # "idle" => w.obj = c) /\ c = worker[k].obj
          /\ \A p \in Object : p # c => store'[p] = store[p]
      BY <1>1, <1>5, <1>7
    <2> HIDE DEF b, v, SyncInv
    <2> QED BY <1>0, <1>5, <1>6, <1>8, <2>1, WorkerStep
  <1>10. Applied'
    BY <1>0, <1>1, <1>2, <1>5, AppliedKept
  <1> QED BY <1>9, <1>10

(* Every step of the reconcilers keeps the invariant.                      *)
LEMMA SyncNextStep ==
    ASSUME SyncInv, [Next]_vars
    PROVE  SyncInv'
  <1>1. CASE UNCHANGED vars
    BY <1>1 DEF vars, counters, SyncInv, SyncTyped, OfKind, Caught, InHand, Follows, Applied
  <1>2. CASE FillFromKubernetes \/ OpenGate \/ \E o \in Object : Deliver(o)
    BY <1>2, FillStep, OpenGateStep, DeliverStep
  <1>3. CASE ReconcileVirtualService
    BY <1>3, GetStep, DeleteOfStep, ApplyVirtualServiceStep, ReadStatusStep,
       WriteStatusStep DEF ReconcileVirtualService, Kind
  <1>4. CASE ReconcileVirtualServiceTemplate
    BY <1>4, GetStep, DeleteOfStep, ApplyTemplateStep, SendStep
       DEF ReconcileVirtualServiceTemplate, Kind
  <1>5. ASSUME NEW k \in Kind \ {"VirtualService"}, Reconcile(k)
        PROVE  SyncInv'
    BY <1>5, GetStep, ApplyOrDeleteStep DEF Reconcile
  <1>6. CASE \/ ReconcileSecret \/ ReconcileListener \/ ReconcileCluster
             \/ ReconcileRoute \/ ReconcileHttpFilter \/ ReconcilePolicy
             \/ ReconcileAccessLogConfig \/ ReconcileTracing
    BY <1>5, <1>6 DEF ReconcileSecret, ReconcileListener, ReconcileCluster,
       ReconcileRoute, ReconcileHttpFilter, ReconcilePolicy, ReconcileAccessLogConfig,
       ReconcileTracing, Kind
  <1>7. CASE \E o \in Object : ChangeObject(o)
    BY <1>7, ChangeObjectStep
  <1>8. CASE Restart
    BY <1>8, RestartStep
  <1>9. ASSUME NEW k \in Kind, GetFails(k)
        PROVE  SyncInv'
    BY <1>9 DEF GetFails, SyncInv, SyncTyped, OfKind, Caught, InHand, Follows, Applied
  <1>10. CASE WriteStatusFails
    BY <1>10, WriteStatusStep
  <1> QED BY <1>1, <1>2, <1>3, <1>4, <1>6, <1>7, <1>8, <1>9, <1>10 DEF Next, Work

(* The variables keep their types, and workers their kinds.                *)
THEOREM TypeCorrect ==
    Behaviour => []TypeOK
  <1>1. SyncInv => TypeOK
    BY DEF SyncInv, SyncTyped, TypeOK, Worker
  <1>2. Init => SyncInv
    BY SyncInitially
  <1>3. SyncInv /\ [Next]_vars => SyncInv'
    BY SyncNextStep
  <1> QED BY <1>1, <1>2, <1>3, PTL DEF Behaviour

(* No change of any object is lost on its way to the store, whatever fails *)
(* and whenever the process restarts: the informer's events, the retried   *)
(* requests and the filling of the store cover for each other.             *)
THEOREM NothingLost ==
    Behaviour => []QuiescentAgreement
  <1>1. SyncInv => QuiescentAgreement
    <2> SUFFICES ASSUME SyncInv, NEW o \in Object \ skipped, ~Pending(o)
                 PROVE  Agrees(o)
      BY DEF QuiescentAgreement
    <2>1. informer[o] = api[o] /\ o \notin queue \cup skipped /\ ~InHand(o)
      BY DEF Pending, InHand
    <2> QED BY <2>1 DEF SyncInv, Caught, Follows, Agrees
  <1>2. Init => SyncInv
    BY SyncInitially
  <1>3. SyncInv /\ [Next]_vars => SyncInv'
    BY SyncNextStep
  <1> QED BY <1>1, <1>2, <1>3, PTL DEF Behaviour

(* Only the changes of users and the write of a status change an object of *)
(* Kubernetes, and only the write changes a status that is there.          *)
LEMMA StatusStep ==
    ASSUME SyncInv, [Next]_vars, NEW v \in VS,
           api[v] # NONE, api'[v] # NONE, api'[v].status # api[v].status
    PROVE  store[v] = api[v].spec
  <1> USE DEF SyncInv
  <1>0. v \in Object /\ api[v] \in APIObject
    BY DEF SyncTyped, VS, OfKind
  <1>1. CASE \E o \in Object : ChangeObject(o)
    <2>1. PICK o \in Object : ChangeObject(o)
      BY <1>1
    <2>2. PICK x \in NewObjects(kind[o]) :
            api' = [api EXCEPT ![o] =
                IF api[o] = NONE THEN x ELSE [x EXCEPT !.status = api[o].status]]
      BY <2>1, <1>0 DEF ChangeObject, SyncTyped
    <2>3. /\ v # o => api'[v] = api[v]
          /\ v = o => api'[v].status = api[v].status
      BY <1>0, <2>2 DEF SyncTyped, NewObjects
    <2> QED BY <2>3
  <1>2. CASE WriteStatus
    <2> DEFINE w == worker["VirtualService"]
    <2>1. w.pc = "write" /\ (api[w.obj] = w.got \/ UNCHANGED api)
      BY <1>2 DEF WriteStatus
    <2>2. api[w.obj] = w.got /\ api' = [api EXCEPT ![w.obj].status = w.new]
      BY <1>2, <2>1 DEF WriteStatus
    <2>3. v = w.obj
      BY <1>0, <2>2 DEF SyncTyped
    <2> QED BY <2>1, <2>2, <2>3 DEF Applied
  <1>3. CASE UNCHANGED api
    BY <1>3
  <1>4. \/ UNCHANGED api \/ WriteStatus \/ \E o \in Object : ChangeObject(o)
    BY DEF vars, Next, Work, FillFromKubernetes, OpenGate, Deliver,
       ReconcileVirtualService, ReconcileVirtualServiceTemplate, Reconcile,
       ReconcileSecret, ReconcileListener, ReconcileCluster, ReconcileRoute,
       ReconcileHttpFilter, ReconcilePolicy, ReconcileAccessLogConfig,
       ReconcileTracing, Get, DeleteOf, ApplyOrDelete, ApplyVirtualService, ReadStatus,
       WriteStatusFails, ApplyVirtualServiceTemplate, ListUsers, SendVS, AllSent,
       GetFails, Restart
  <1> QED BY <1>1, <1>2, <1>3, <1>4

(* A status reaches Kubernetes only beside the spec it was computed for.   *)
THEOREM StatusOfItsSpec ==
    Behaviour => StatusMatchesSpec
  <1>1. Init => SyncInv
    BY SyncInitially
  <1>2. SyncInv /\ [Next]_vars => SyncInv'
    BY SyncNextStep
  <1>3. SyncInv /\ [Next]_vars =>
          [\A v \in VS :
              (api[v] # NONE /\ api'[v] # NONE /\ api'[v].status # api[v].status)
                  => store[v] = api[v].spec]_vars
    BY StatusStep
  <1> QED BY <1>1, <1>2, <1>3, PTL DEF Behaviour, StatusMatchesSpec

-----------------------------------------------------------------------------
(***************************************************************************)
(* TrustedAtRest holds for any number of replicas, faults and days.  The   *)
(* argument goes replica by replica: a manager that runs and has nothing   *)
(* to do has seen the configuration trust the secret, because every write  *)
(* of either object since puts a request in its queue; one that is about   *)
(* to write the bundle holds the authority of the secret, or has a request *)
(* in its queue.  The versions that updates are checked against do not     *)
(* enter: without them, too, the last writer is followed by a              *)
(* reconciliation of every manager.                                        *)
(***************************************************************************)

Holding == {"lookup", "put", "readcfg", "putcfg"}

Shapes ==
    /\ mode \in [Replica -> {"init", "start", "run"}]
    /\ pc \in [Replica -> {"idle", "get", "create"} \cup Holding]
    /\ requests \in [Replica -> BOOLEAN]
    /\ mine = [r \in Replica |-> mine[r]]

Signed(r) == pc[r] \in Holding => mine[r].ca # NoCA

HoldsCurrent(r) ==
    mode[r] = "run" /\ pc[r] \in {"readcfg", "putcfg"} /\ ~requests[r] =>
        secret # NONE /\ secret.ca = mine[r].ca

Trusted == secret # NONE /\ secret.ca # NoCA /\ bundle = secret.ca

Rests(r) == mode[r] = "run" /\ pc[r] = "idle" /\ ~requests[r]

CertsInv == Shapes /\ \A r \in Replica : Signed(r) /\ HoldsCurrent(r) /\ (Rests(r) => Trusted)

(* Among more numbers than authorities in use there is a new one.          *)
LEMMA NewAuthorityNew == NewAuthority \in Nat /\ NewAuthority # NoCA
  <1>1. IsFiniteSet({mine[r].ca : r \in Replica})
    <2> DEFINE T == {mine[r].ca : r \in Replica}
               f == [r \in Replica |-> mine[r].ca]
    <2>1. f \in Surjection(Replica, T)
      BY DEF Surjection
    <2> QED BY <2>1, FS_Surjection, ReplicasAssumption
  <1>2. IsFiniteSet(InUse)
    <2>1. IsFiniteSet({bundle}) /\ IsFiniteSet(IF secret = NONE THEN {} ELSE {secret.ca})
      BY FS_EmptySet, FS_Singleton
    <2> QED BY <1>1, <2>1, FS_Union DEF InUse
  <1> DEFINE m == Cardinality(InUse) + 1
  <1>3. m \in Nat /\ m > Cardinality(InUse)
    BY <1>2, FS_CardinalityType, SMT
  <1>4. IsFiniteSet(1..m) /\ Cardinality(1..m) = m
    BY <1>3, FS_Interval, SMT
  <1>5. ~ (1..m \subseteq InUse)
    <2> SUFFICES ASSUME 1..m \subseteq InUse PROVE FALSE
      OBVIOUS
    <2>1. Cardinality(1..m) <= Cardinality(InUse)
      BY <1>2, FS_Subset
    <2> QED BY <1>3, <1>4, <2>1, <1>2, FS_CardinalityType, SMT
  <1>6. NewAuthority \in 1..m
    BY <1>5 DEF NewAuthority
  <1> QED BY <1>6, SMT DEF NoCA

(* At the start there is no secret, the bundles are empty and every        *)
(* replica is about to read.                                               *)
LEMMA CertsInitially == CertsInit => CertsInv
  BY DEF CertsInit, CertsInv, Shapes, Signed, HoldsCurrent, Rests, Holding

(* A write of an object leaves a request with every manager that runs.     *)
LEMMA Noticed ==
    ASSUME Shapes, NEW object, NEW q \in Replica
    PROVE  /\ SetupWithManager(object, TRUE) \in [Replica -> BOOLEAN]
           /\ SetupWithManager(object, FALSE) \in [Replica -> BOOLEAN]
           /\ mode[q] = "run" => SetupWithManager(object, TRUE)[q]
           /\ requests[q] <=> SetupWithManager(object, FALSE)[q]
  BY DEF SetupWithManager, Shapes

(* A failed call ends what the replica was doing; it will be repeated.     *)
LEMMA AbortStep ==
    ASSUME CertsInv, NEW r \in Replica, Abort(r)
    PROVE  CertsInv'
  <1> USE DEF CertsInv
  <1>1. Shapes'
    BY DEF Shapes, Abort, Holding
  <1>2. ASSUME NEW q \in Replica PROVE (Signed(q) /\ HoldsCurrent(q) /\ (Rests(q) => Trusted))'
    <2>1. CASE q = r
      BY <2>1 DEF Shapes, Abort, Holding, Signed, HoldsCurrent, Rests
    <2>2. CASE q # r
      <3>1. /\ pc'[q] = pc[q] /\ mode'[q] = mode[q] /\ mine'[q] = mine[q]
            /\ requests'[q] = requests[q] /\ secret' = secret /\ bundle' = bundle
        BY <2>2 DEF Shapes, Abort
      <3> QED BY <3>1 DEF Signed, HoldsCurrent, Rests, Trusted
    <2> QED BY <2>1, <2>2
  <1> QED BY <1>1, <1>2

(* A step of r that writes neither object and leaves all queues but its own*)
(* alone concerns no other replica.                                        *)
LEMMA OthersKeep ==
    ASSUME CertsInv, NEW r \in Replica, NEW q \in Replica, q # r,
           secret' = secret, bundle' = bundle,
           mode'[q] = mode[q], pc'[q] = pc[q], mine'[q] = mine[q], requests'[q] = requests[q]
    PROVE  (Signed(q) /\ HoldsCurrent(q) /\ (Rests(q) => Trusted))'
  BY DEF CertsInv, Signed, HoldsCurrent, Rests, Trusted

(* After a write that is noticed nobody rests or holds what is not current.*)
LEMMA AllQueued ==
    ASSUME NEW q \in Replica, Signed(q)', mode'[q] = "run" => requests'[q]
    PROVE  (Signed(q) /\ HoldsCurrent(q) /\ (Rests(q) => Trusted))'
  BY DEF HoldsCurrent, Rests

(* Reading the secret: it is there, missing, or about to expire.           *)
LEMMA GetSecretStep ==
    ASSUME CertsInv, NEW r \in Replica, GetSecret(r)
    PROVE  CertsInv'
  <1> USE DEF CertsInv
  <1>1. /\ secret' = secret /\ bundle' = bundle /\ mode' = mode /\ requests' = requests
        /\ Shapes' /\ pc[r] = "get"
        /\ \A q \in Replica \ {r} : pc'[q] = pc[q] /\ mine'[q] = mine[q]
    BY DEF GetSecret, Generate, Shapes, Holding
  <1>2. (Signed(r) /\ HoldsCurrent(r) /\ (Rests(r) => Trusted))'
    <2>1. CASE pc' = [pc EXCEPT ![r] = "create"]
      BY <1>1, <2>1 DEF Shapes, Signed, HoldsCurrent, Rests, Holding
    <2>2. CASE Generate(r)
      <3>1. pc'[r] = "lookup" /\ mine'[r] = NewCertificate(r)
        BY <2>2 DEF Generate, Shapes
      <3>2. mine'[r].ca # NoCA
        BY <3>1, NewAuthorityNew, SMT DEF NewCertificate
      <3> QED BY <3>1, <3>2 DEF Signed, HoldsCurrent, Rests
    <2>3. CASE /\ IF secret = NONE THEN FALSE ELSE ~Outdated(r, secret)
               /\ mine' = [mine EXCEPT ![r] = secret]
               /\ pc' = [pc EXCEPT ![r] = "readcfg"]
      <3>1. pc'[r] = "readcfg" /\ mine'[r] = secret /\ secret # NONE
        BY <2>3 DEF Shapes
      <3>2. secret.ca # NoCA
        BY <2>3 DEF Outdated, InitShouldUpdate, ShouldUpdateCertificate
      <3> QED BY <1>1, <3>1, <3>2 DEF Signed, HoldsCurrent, Rests
    <2> QED BY <2>1, <2>2, <2>3 DEF GetSecret
  <1> QED BY <1>1, <1>2, OthersKeep

(* Creating the secret fails when another replica was first.               *)
LEMMA CreateSecretStep ==
    ASSUME CertsInv, NEW r \in Replica, CreateSecret(r)
    PROVE  CertsInv'
  <1>1. CASE secret = NONE
    <2> USE DEF CertsInv
    <2>1. /\ mode' = mode /\ requests' = SetupWithManager("secret", TRUE)
          /\ Generate(r)
      BY <1>1 DEF CreateSecret
    <2>2. /\ Shapes' /\ pc'[r] = "lookup" /\ mine'[r] = NewCertificate(r)
          /\ \A q \in Replica \ {r} : pc'[q] = pc[q] /\ mine'[q] = mine[q]
      BY <2>1, Noticed DEF Generate, Shapes, Holding
    <2>3. mine'[r].ca # NoCA
      BY <2>2, NewAuthorityNew, SMT DEF NewCertificate
    <2>4. ASSUME NEW q \in Replica
          PROVE  (Signed(q) /\ HoldsCurrent(q) /\ (Rests(q) => Trusted))'
      <3>1. Signed(q)'
        BY <2>2, <2>3 DEF Signed
      <3>2. mode'[q] = "run" => requests'[q]
        BY <2>1, Noticed
      <3> QED BY <3>1, <3>2, AllQueued
    <2> QED BY <2>2, <2>4
  <1>2. CASE secret # NONE
    BY <1>2, AbortStep DEF CreateSecret
  <1> QED BY <1>1, <1>2

(* Reading the secret once more before it is replaced.                     *)
LEMMA LookupSecretStep ==
    ASSUME CertsInv, NEW r \in Replica, LookupSecret(r)
    PROVE  CertsInv'
  <1> USE DEF CertsInv
  <1>1. /\ secret' = secret /\ bundle' = bundle /\ mode' = mode /\ requests' = requests
        /\ mine' = mine /\ Shapes' /\ pc[r] = "lookup" /\ pc'[r] = "put"
        /\ \A q \in Replica \ {r} : pc'[q] = pc[q]
    BY DEF LookupSecret, Shapes, Holding
  <1>2. (Signed(r) /\ HoldsCurrent(r) /\ (Rests(r) => Trusted))'
    BY <1>1 DEF Signed, HoldsCurrent, Rests, Holding
  <1> QED BY <1>1, <1>2, OthersKeep

(* Replacing the secret fails when it is not the version that was read.    *)
LEMMA PutSecretStep ==
    ASSUME CertsInv, NEW r \in Replica, PutSecret(r)
    PROVE  CertsInv'
  <1>1. CASE ~stale[r]
    <2> USE DEF CertsInv
    <2>1. /\ mode' = mode /\ mine' = mine /\ requests' = SetupWithManager("secret", TRUE)
          /\ pc[r] = "put" /\ pc' = [pc EXCEPT ![r] = "readcfg"]
      BY <1>1 DEF PutSecret
    <2>2. /\ Shapes' /\ pc'[r] = "readcfg"
          /\ \A q \in Replica \ {r} : pc'[q] = pc[q]
      BY <2>1, Noticed DEF Shapes, Holding
    <2>3. ASSUME NEW q \in Replica
          PROVE  (Signed(q) /\ HoldsCurrent(q) /\ (Rests(q) => Trusted))'
      <3>1. Signed(q)'
        BY <2>1, <2>2 DEF Signed, Holding
      <3>2. mode'[q] = "run" => requests'[q]
        BY <2>1, Noticed
      <3> QED BY <3>1, <3>2, AllQueued
    <2> QED BY <2>2, <2>3
  <1>2. CASE stale[r]
    BY <1>2, AbortStep DEF PutSecret
  <1> QED BY <1>1, <1>2

(* Reading the webhook configuration after the secret.                     *)
LEMMA GetConfigurationStep ==
    ASSUME CertsInv, NEW r \in Replica, GetConfiguration(r)
    PROVE  CertsInv'
  <1> USE DEF CertsInv
  <1>1. /\ secret' = secret /\ bundle' = bundle /\ mode' = mode /\ requests' = requests
        /\ mine' = mine /\ Shapes' /\ pc[r] = "readcfg" /\ pc'[r] = "putcfg"
        /\ \A q \in Replica \ {r} : pc'[q] = pc[q]
    BY DEF GetConfiguration, Shapes, Holding
  <1>2. (Signed(r) /\ HoldsCurrent(r) /\ (Rests(r) => Trusted))'
    BY <1>1 DEF Signed, HoldsCurrent, Rests, Holding
  <1> QED BY <1>1, <1>2, OthersKeep

(* A replica that writes what the configuration has already wakes nobody:  *)
(* then it holds the authority of the secret, or has a request itself.     *)
LEMMA PutConfigurationStep ==
    ASSUME CertsInv, NEW r \in Replica, PutConfiguration(r)
    PROVE  CertsInv'
  <1>1. CASE /\ bundle' = CABundle(r)
             /\ Finish(r, bundle' # bundle)
             /\ mine' = [mine EXCEPT ![r] = EmptySecret]
             /\ UNCHANGED <<secret, now>>
    <2> USE DEF CertsInv
    <2> DEFINE wake == SetupWithManager("configuration", bundle' # bundle)
    <2>1. /\ wake \in [Replica -> BOOLEAN]
          /\ \A q \in Replica : bundle' # bundle /\ mode[q] = "run" => wake[q]
          /\ \A q \in Replica : bundle' = bundle => wake[q] = requests[q]
          /\ \A q \in Replica : requests[q] => wake[q]
      BY DEF SetupWithManager, Shapes
    <2> HIDE DEF wake
    <2>2. /\ pc[r] = "putcfg" /\ bundle' = mine[r].ca /\ secret' = secret
          /\ mode' = [mode EXCEPT ![r] = IF @ = "init" THEN "start" ELSE "run"]
          /\ pc' = [pc EXCEPT ![r] = IF mode[r] = "init" THEN "get" ELSE "idle"]
          /\ requests' = [wake EXCEPT ![r] = @ \/ mode[r] = "start"]
          /\ mine' = [mine EXCEPT ![r] = EmptySecret]
      BY <1>1 DEF PutConfiguration, Finish, CABundle, wake
    <2>3. Shapes'
      BY <2>1, <2>2 DEF Shapes, Holding
    <2>4. ASSUME NEW q \in Replica
          PROVE  (Signed(q) /\ HoldsCurrent(q) /\ (Rests(q) => Trusted))'
      <3>1. CASE q = r
        <4>1. pc'[r] \in {"get", "idle"}
          BY <2>2 DEF Shapes
        <4>2. (Rests(r) => Trusted)'
          <5> SUFFICES ASSUME Rests(r)' PROVE Trusted'
            OBVIOUS
          <5>1. mode[r] # "init" /\ mode[r] # "start"
            BY <2>1, <2>2 DEF Shapes, Rests
          <5>2. mode[r] = "run" /\ ~wake[r]
            BY <2>1, <2>2, <5>1 DEF Shapes, Rests
          <5>3. ~requests[r]
            BY <2>1, <5>2
          <5>4. secret # NONE /\ secret.ca = mine[r].ca /\ mine[r].ca # NoCA
            BY <2>2, <5>2, <5>3 DEF HoldsCurrent, Signed, Holding
          <5> QED BY <5>4, <2>2 DEF Trusted
        <4> QED BY <3>1, <4>1, <4>2 DEF Signed, HoldsCurrent, Holding
      <3>2. CASE q # r
        <4>1. /\ pc'[q] = pc[q] /\ mode'[q] = mode[q] /\ mine'[q] = mine[q]
              /\ requests'[q] = wake[q]
          BY <2>1, <2>2, <3>2 DEF Shapes
        <4>2. CASE bundle' = bundle
          BY <4>1, <4>2, <2>1, <2>2, <3>2, OthersKeep
        <4>3. CASE bundle' # bundle
          BY <4>1, <4>3, <2>1, AllQueued DEF Signed
        <4> QED BY <4>2, <4>3
      <3> QED BY <3>1, <3>2
    <2> QED BY <2>3, <2>4
  <1>2. CASE /\ pc' = [pc EXCEPT ![r] = "readcfg"]
             /\ UNCHANGED <<secret, bundle, now, mode, mine, stale, requests, timer>>
    <2> USE DEF CertsInv
    <2>1. /\ secret' = secret /\ bundle' = bundle /\ mode' = mode /\ requests' = requests
          /\ mine' = mine /\ Shapes' /\ pc[r] = "putcfg" /\ pc'[r] = "readcfg"
          /\ \A q \in Replica \ {r} : pc'[q] = pc[q]
      BY <1>2 DEF PutConfiguration, Shapes, Holding
    <2>2. (Signed(r) /\ HoldsCurrent(r) /\ (Rests(r) => Trusted))'
      BY <2>1 DEF Signed, HoldsCurrent, Rests, Holding
    <2> QED BY <2>1, <2>2, OthersKeep
  <1>3. CASE Abort(r)
    BY <1>3, AbortStep
  <1> QED BY <1>1, <1>2, <1>3 DEF PutConfiguration

(* Writing the certificate authority into the configuration.               *)
LEMMA ReconcileStep ==
    ASSUME CertsInv, NEW r \in Replica, ReconcileWebhook(r)
    PROVE  CertsInv'
  <1> USE DEF CertsInv
  <1>1. /\ secret' = secret /\ bundle' = bundle /\ mode' = mode
        /\ mine' = mine /\ Shapes' /\ pc'[r] = "get"
        /\ \A q \in Replica \ {r} : pc'[q] = pc[q] /\ requests'[q] = requests[q]
    BY DEF ReconcileWebhook, Shapes, Holding
  <1>2. (Signed(r) /\ HoldsCurrent(r) /\ (Rests(r) => Trusted))'
    BY <1>1 DEF Signed, HoldsCurrent, Rests, Holding
  <1> QED BY <1>1, <1>2, OthersKeep

(* A crash loses what the replica held in memory, and it starts over.      *)
LEMMA CrashStep ==
    ASSUME CertsInv, NEW r \in Replica, Crash(r)
    PROVE  CertsInv'
  <1> USE DEF CertsInv
  <1>0. PICK to \in {"init", "start"} : mode' = [mode EXCEPT ![r] = to]
    BY DEF Crash
  <1>1. /\ secret' = secret /\ bundle' = bundle
        /\ Shapes' /\ pc'[r] = "get"
        /\ \A q \in Replica \ {r} : /\ pc'[q] = pc[q] /\ requests'[q] = requests[q]
                                     /\ mode'[q] = mode[q] /\ mine'[q] = mine[q]
    BY <1>0 DEF Crash, Shapes, Holding
  <1>2. (Signed(r) /\ HoldsCurrent(r) /\ (Rests(r) => Trusted))'
    BY <1>1 DEF Signed, HoldsCurrent, Rests, Holding
  <1> QED BY <1>1, <1>2, OthersKeep

(* An upgrade empties the bundles of the configuration, which wakes the    *)
(* reconcilers.                                                            *)
LEMMA ApplyManifestStep ==
    ASSUME CertsInv, ApplyManifest
    PROVE  CertsInv'
  <1> USE DEF CertsInv
  <1>1. /\ secret' = secret /\ mode' = mode /\ pc' = pc /\ mine' = mine
        /\ requests' = SetupWithManager("configuration", bundle' # bundle)
    BY DEF ApplyManifest
  <1>2. Shapes'
    BY <1>1 DEF Shapes, SetupWithManager
  <1>3. ASSUME NEW q \in Replica
        PROVE  (Signed(q) /\ HoldsCurrent(q) /\ (Rests(q) => Trusted))'
    <2>1. CASE bundle' = bundle
      <3>1. requests'[q] = requests[q]
        BY <1>1, <2>1 DEF SetupWithManager, Shapes
      <3> QED BY <1>1, <2>1, <3>1 DEF Signed, HoldsCurrent, Rests, Trusted
    <2>2. CASE bundle' # bundle
      <3>1. mode'[q] = "run" => requests'[q]
        BY <1>1, <2>2 DEF SetupWithManager
      <3> QED BY <1>1, <3>1, AllQueued DEF Signed
    <2> QED BY <2>1, <2>2
  <1> QED BY <1>2, <1>3

(* Every step of the replicas keeps the invariant.                         *)
LEMMA CertsNextStep ==
    ASSUME CertsInv, [CertsNext]_certVars
    PROVE  CertsInv'
  <1>1. CASE Tick \/ UNCHANGED certVars
    BY <1>1 DEF Tick, certVars, CertsInv, Shapes, Signed, HoldsCurrent, Rests, Trusted
  <1>2. CASE ApplyManifest
    BY <1>2, ApplyManifestStep
  <1>3. ASSUME NEW r \in Replica, CertsStep(r) \/ FailCall(r) \/ Crash(r)
        PROVE  CertsInv'
    BY <1>3, GetSecretStep, CreateSecretStep, LookupSecretStep, PutSecretStep,
       GetConfigurationStep, PutConfigurationStep, ReconcileStep, AbortStep, CrashStep
       DEF CertsStep, FailCall
  <1> QED BY <1>1, <1>2, <1>3 DEF CertsNext

(* Whatever replicas there are and however calls fail and replicas crash,  *)
(* once every manager runs and none has a request to serve, the webhook    *)
(* configuration trusts the authority of the certificate in the secret     *)
(* (cmd/init-cert, ReconcileCertificates).                                 *)
THEOREM Trust ==
    CertsSpec => []TrustedAtRest
  <1>1. CertsInv => TrustedAtRest
    BY ReplicasAssumption DEF CertsInv, TrustedAtRest, AtRest, Rests, Trusted
  <1>2. CertsInv /\ [CertsNext]_certVars => CertsInv'
    BY CertsNextStep
  <1> QED BY <1>1, <1>2, CertsInitially, PTL DEF CertsSpec

-----------------------------------------------------------------------------
(* The certificate does not expire.  Time passes only while every manager  *)
(* rests, so what is held was fresh and still is; and a timer of a manager *)
(* that rests is no later than the threshold of the certificate in the     *)
(* secret, because whoever writes another certificate wakes the manager.   *)
Lives ==
    /\ Shapes
    /\ now \in Nat
    /\ secret = NONE \/ secret \in Cert
    /\ mine \in [Replica -> Cert]
    /\ timer = [r \in Replica |-> timer[r]]
    /\ \A r \in Replica : timer[r] = NONE \/ timer[r] \in Nat

Fresh(r) == pc[r] \in Holding => mine[r].until > now

Backed(r) ==
    pc[r] \in {"readcfg", "putcfg"} \/ timer[r] # NONE =>
        secret # NONE /\ secret.until > now

TimerOfManager(r) == timer[r] # NONE => mode[r] = "run"

Current(r) ==
    mode[r] = "run" /\ pc[r] \in {"readcfg", "putcfg"} /\ ~requests[r] => mine[r] = secret

Timely(r) ==
    pc[r] = "idle" /\ ~requests[r] /\ timer[r] # NONE => timer[r] <= RequeueAt(secret)

Kept(r) == Fresh(r) /\ Backed(r) /\ TimerOfManager(r) /\ Current(r) /\ Timely(r)

LInv == Lives /\ \A r \in Replica : Kept(r)

(* At the start there is no certificate that could expire.                 *)
LEMMA InitiallyLives == CertsInit => LInv
  <1> SUFFICES ASSUME CertsInit PROVE LInv
    OBVIOUS
  <1>1. Shapes /\ now = 0 /\ secret = NONE
    BY DEF CertsInit, Shapes, Holding
  <1>2. mine \in [Replica -> Cert] /\ timer = [r \in Replica |-> NONE]
    BY DEF CertsInit, EmptySecret, NoCA, Cert
  <1>3. \A r \in Replica : pc[r] = "get"
    BY DEF CertsInit
  <1> QED BY <1>1, <1>2, <1>3 DEF LInv, Lives, Kept, Fresh, Backed, TimerOfManager,
                                  Current, Timely, Holding

(* A certificate that is made now is valid for longer than now.            *)
LEMMA NewCertificateLives ==
    ASSUME Lives, NEW r \in Replica
    PROVE  NewCertificate(r) \in Cert /\ NewCertificate(r).until > now
  BY NewAuthorityNew, LifetimesAssumption, SMT DEF NewCertificate, Cert, Lives

(* A step that leaves secret, clock and the state of a replica alone keeps *)
(* what is known of that replica.                                          *)
LEMMA OthersLive ==
    ASSUME LInv, NEW q \in Replica, secret' = secret, now' = now,
           mode'[q] = mode[q], pc'[q] = pc[q], mine'[q] = mine[q],
           timer'[q] = timer[q], requests[q] => requests'[q]
    PROVE  Kept(q)'
  BY DEF LInv, Kept, Fresh, Backed, TimerOfManager, Current, Timely, RequeueAt

(* After a failed call the certificate is still valid and the replica will *)
(* look again in time.                                                     *)
LEMMA AbortLives ==
    ASSUME LInv, NEW r \in Replica, Abort(r)
    PROVE  LInv'
  <1> USE DEF LInv
  <1>1. /\ secret' = secret /\ now' = now /\ mode' = mode /\ timer' = timer
        /\ pc'[r] = (IF mode[r] = "run" THEN "idle" ELSE "get")
        /\ requests'[r] = (mode[r] = "run")
        /\ \A q \in Replica \ {r} : pc'[q] = pc[q] /\ mine'[q] = mine[q] /\ requests'[q] = requests[q]
    BY DEF Abort, Lives, Shapes
  <1>2. Lives'
    BY DEF Lives, Shapes, Abort, Holding, EmptySecret, NoCA, Cert
  <1>3. Kept(r)'
    BY <1>1 DEF Kept, Fresh, Backed, TimerOfManager, Current, Timely, Holding
  <1> QED BY <1>1, <1>2, <1>3, OthersLive

(* A replica that reads a certificate near its end goes on to replace it.  *)
LEMMA GetSecretLives ==
    ASSUME LInv, NEW r \in Replica, GetSecret(r)
    PROVE  LInv'
  <1> USE DEF LInv
  <1>1. /\ secret' = secret /\ now' = now /\ mode' = mode /\ requests' = requests
        /\ timer' = timer
        /\ \A q \in Replica \ {r} : pc'[q] = pc[q] /\ mine'[q] = mine[q]
    BY DEF GetSecret, Generate, Lives, Shapes
  <1>2. Lives' /\ Kept(r)'
    <2>1. CASE pc' = [pc EXCEPT ![r] = "create"] /\ UNCHANGED mine
      <3>1. Lives'
        BY <1>1, <2>1 DEF Lives, Shapes
      <3>2. pc'[r] = "create"
        BY <2>1 DEF Lives, Shapes
      <3> QED BY <1>1, <3>1, <3>2
              DEF Kept, Fresh, Backed, TimerOfManager, Current, Timely, Holding
    <2>2. CASE Generate(r)
      <3>1. Lives'
        BY <1>1, <2>2, NewCertificateLives DEF Generate, Lives, Shapes, Holding
      <3>2. pc'[r] = "lookup" /\ mine'[r].until > now
        BY <2>2, NewCertificateLives DEF Generate, Lives, Shapes
      <3> QED BY <1>1, <3>1, <3>2
              DEF Kept, Fresh, Backed, TimerOfManager, Current, Timely
    <2>3. CASE /\ IF secret = NONE THEN FALSE ELSE ~Outdated(r, secret)
               /\ mine' = [mine EXCEPT ![r] = secret]
               /\ pc' = [pc EXCEPT ![r] = "readcfg"]
      <3>1. secret # NONE /\ secret \in Cert
        BY <2>3 DEF Lives
      <3>2. Lives'
        BY <1>1, <2>3, <3>1 DEF Lives, Shapes, Holding
      <3>3. pc'[r] = "readcfg" /\ mine'[r] = secret
        BY <2>3 DEF Lives, Shapes
      <3>4. secret.until > now
        BY <2>3, <3>1, LifetimesAssumption, SMT
        DEF Outdated, InitShouldUpdate, ShouldUpdateCertificate, Lives, Cert
      <3> QED BY <1>1, <3>1, <3>2, <3>3, <3>4
              DEF Kept, Fresh, Backed, TimerOfManager, Current, Timely
    <2> QED BY <2>1, <2>2, <2>3 DEF GetSecret
  <1> QED BY <1>1, <1>2, OthersLive

(* While there is no secret nobody has a timer or holds a certificate that *)
(* was written.                                                            *)
LEMMA CreateSecretLives ==
    ASSUME LInv, NEW r \in Replica, CreateSecret(r)
    PROVE  LInv'
  <1>1. CASE secret = NONE
    <2> USE DEF LInv
    <2>1. /\ mode' = mode /\ now' = now /\ timer' = timer /\ secret' = EmptySecret
          /\ requests' = SetupWithManager("secret", TRUE) /\ Generate(r)
      BY <1>1 DEF CreateSecret
    <2>2. /\ pc'[r] = "lookup" /\ mine'[r] = NewCertificate(r)
          /\ \A q \in Replica \ {r} : pc'[q] = pc[q] /\ mine'[q] = mine[q]
      BY <2>1 DEF Generate, Lives, Shapes
    <2>3. Shapes' /\ mine' \in [Replica -> Cert]
      BY <2>1, NewCertificateLives DEF Generate, Lives, Shapes, Holding, SetupWithManager
    <2>4. Lives'
      BY <2>1, <2>3 DEF Lives, EmptySecret, NoCA, Cert
    <2>5. ASSUME NEW q \in Replica PROVE Kept(q)'
      <3>1. timer[q] = NONE /\ pc[q] \notin {"readcfg", "putcfg"}
        BY <1>1 DEF Kept, Backed
      <3>2. Fresh(q)'
        BY <2>1, <2>2, NewCertificateLives DEF Kept, Fresh
      <3> QED BY <2>1, <2>2, <3>1, <3>2
              DEF Kept, Backed, TimerOfManager, Current, Timely
    <2> QED BY <2>4, <2>5
  <1>2. CASE secret # NONE
    BY <1>2, AbortLives DEF CreateSecret
  <1> QED BY <1>1, <1>2

(* What replaces the secret is valid, and everyone who waits for the       *)
(* secret is told.                                                         *)
LEMMA PutSecretLives ==
    ASSUME LInv, NEW r \in Replica, PutSecret(r)
    PROVE  LInv'
  <1>1. CASE ~stale[r]
    <2> USE DEF LInv
    <2>1. /\ mode' = mode /\ now' = now /\ timer' = timer /\ mine' = mine
          /\ requests' = SetupWithManager("secret", TRUE) /\ secret' = mine[r]
          /\ pc[r] = "put" /\ pc' = [pc EXCEPT ![r] = "readcfg"]
      BY <1>1 DEF PutSecret
    <2>2. Shapes'
      BY <2>1 DEF Lives, Shapes, Holding, SetupWithManager
    <2>3. Lives'
      BY <2>1, <2>2 DEF Lives
    <2>4. mine[r].until > now /\ mine[r] # NONE
      BY <2>1, LifetimesAssumption DEF Kept, Fresh, Holding, Lives
    <2>5. ASSUME NEW q \in Replica PROVE Kept(q)'
      <3>1. mode[q] = "run" => requests'[q]
        BY <2>1 DEF SetupWithManager
      <3>2. Fresh(q)'
        BY <2>1, <2>4 DEF Kept, Fresh, Lives, Shapes, Holding
      <3> QED BY <2>1, <2>4, <3>1, <3>2
              DEF Kept, Backed, TimerOfManager, Current, Timely
    <2> QED BY <2>3, <2>5
  <1>2. CASE stale[r]
    BY <1>2, AbortLives DEF PutSecret
  <1> QED BY <1>1, <1>2

(* The other calls of a replica, and its crash, leave the secret alone.    *)
LEMMA CallLives ==
    ASSUME LInv, NEW r \in Replica,
           LookupSecret(r) \/ GetConfiguration(r) \/ ReconcileWebhook(r) \/ Crash(r)
    PROVE  LInv'
  <1> USE DEF LInv
  <1>1. CASE LookupSecret(r)
    <2>1. /\ UNCHANGED <<secret, now, mode, requests, timer, mine>>
          /\ pc[r] = "lookup" /\ pc'[r] = "put"
          /\ \A q \in Replica \ {r} : pc'[q] = pc[q]
      BY <1>1 DEF LookupSecret, Lives, Shapes
    <2>2. Lives'
      BY <1>1, <2>1 DEF LookupSecret, Lives, Shapes, Holding
    <2>3. Kept(r)'
      BY <2>1 DEF Kept, Fresh, Backed, TimerOfManager, Current, Timely, Holding
    <2> QED BY <2>1, <2>2, <2>3, OthersLive
  <1>2. CASE GetConfiguration(r)
    <2>1. /\ UNCHANGED <<secret, now, mode, requests, timer, mine>>
          /\ pc[r] = "readcfg" /\ pc'[r] = "putcfg"
          /\ \A q \in Replica \ {r} : pc'[q] = pc[q]
      BY <1>2 DEF GetConfiguration, Lives, Shapes
    <2>2. Lives'
      BY <1>2, <2>1 DEF GetConfiguration, Lives, Shapes, Holding
    <2>3. Kept(r)'
      BY <2>1 DEF Kept, Fresh, Backed, TimerOfManager, Current, Timely, Holding
    <2> QED BY <2>1, <2>2, <2>3, OthersLive
  <1>3. CASE ReconcileWebhook(r)
    <2>1. /\ UNCHANGED <<secret, now, mode, mine>>
          /\ pc'[r] = "get" /\ timer'[r] \in {timer[r], NONE}
          /\ \A q \in Replica \ {r} : pc'[q] = pc[q] /\ timer'[q] = timer[q]
                                       /\ requests'[q] = requests[q]
      BY <1>3 DEF ReconcileWebhook, Lives, Shapes
    <2>2. Shapes' /\ timer' = [q \in Replica |-> timer'[q]]
      BY <1>3 DEF ReconcileWebhook, Lives, Shapes, Holding
    <2>3. Lives'
      BY <2>1, <2>2 DEF Lives
    <2>4. Kept(r)'
      BY <2>1 DEF Kept, Fresh, Backed, TimerOfManager, Current, Timely, Holding
    <2> QED BY <2>1, <2>3, <2>4, OthersLive
  <1>4. CASE Crash(r)
    <2>0. PICK to \in {"init", "start"} : mode' = [mode EXCEPT ![r] = to]
      BY <1>4 DEF Crash
    <2>1. /\ UNCHANGED <<secret, now>>
          /\ pc'[r] = "get" /\ timer'[r] = NONE
          /\ \A q \in Replica \ {r} : /\ pc'[q] = pc[q] /\ timer'[q] = timer[q]
                                       /\ requests'[q] = requests[q] /\ mode'[q] = mode[q]
                                       /\ mine'[q] = mine[q]
      BY <1>4, <2>0 DEF Crash, Lives, Shapes
    <2>2. Shapes' /\ timer' = [q \in Replica |-> timer'[q]] /\ mine' \in [Replica -> Cert]
      BY <1>4, <2>0 DEF Crash, Lives, Shapes, Holding, EmptySecret, NoCA, Cert
    <2>3. Lives'
      BY <2>1, <2>2 DEF Lives
    <2>4. Kept(r)'
      BY <2>1 DEF Kept, Fresh, Backed, TimerOfManager, Current, Timely, Holding
    <2> QED BY <2>1, <2>3, <2>4, OthersLive
  <1> QED BY <1>1, <1>2, <1>3, <1>4

(* The reconciler sets its timer by the certificate it holds, which is that*)
(* of the secret unless it is called again anyway.                         *)
LEMMA PutConfigurationLives ==
    ASSUME LInv, NEW r \in Replica, PutConfiguration(r)
    PROVE  LInv'
  <1>1. CASE /\ Finish(r, bundle' # bundle)
             /\ mine' = [mine EXCEPT ![r] = EmptySecret]
             /\ UNCHANGED <<secret, now>>
    <2> USE DEF LInv
    <2> DEFINE wake == SetupWithManager("configuration", bundle' # bundle)
    <2>1. wake \in [Replica -> BOOLEAN] /\ \A q \in Replica : requests[q] => wake[q]
      BY DEF SetupWithManager, Lives, Shapes
    <2> HIDE DEF wake
    <2>2. /\ pc[r] = "putcfg" /\ secret' = secret /\ now' = now
          /\ mode' = [mode EXCEPT ![r] = IF @ = "init" THEN "start" ELSE "run"]
          /\ pc' = [pc EXCEPT ![r] = IF mode[r] = "init" THEN "get" ELSE "idle"]
          /\ requests' = [wake EXCEPT ![r] = @ \/ mode[r] = "start"]
          /\ timer' = [timer EXCEPT ![r] =
                IF mode[r] = "run" THEN Earliest(@, RequeueAt(mine[r])) ELSE @]
          /\ mine' = [mine EXCEPT ![r] = EmptySecret]
      BY <1>1 DEF PutConfiguration, Finish, wake
    <2>3. secret # NONE /\ secret.until > now
      BY <2>2 DEF Kept, Backed
    <2>4. /\ RequeueAt(mine[r]) \in Nat
          /\ Earliest(timer[r], RequeueAt(mine[r])) \in Nat
          /\ Earliest(timer[r], RequeueAt(mine[r])) <= RequeueAt(mine[r])
      <3>1. RequeueAt(mine[r]) \in Nat
        BY LifetimesAssumption, SMT DEF RequeueAt, Lives, Cert
      <3> QED BY <3>1, SMT DEF Earliest, Lives
    <2>5. Shapes' /\ mine' \in [Replica -> Cert]
      BY <2>1, <2>2 DEF Lives, Shapes, Holding, EmptySecret, NoCA, Cert
    <2>6. /\ timer' = [q \in Replica |-> timer'[q]]
          /\ \A q \in Replica : timer'[q] = NONE \/ timer'[q] \in Nat
      BY <2>2, <2>4 DEF Lives
    <2>7. Lives'
      BY <2>2, <2>5, <2>6 DEF Lives
    <2>8. Kept(r)'
      <3>1. pc'[r] \in {"get", "idle"} /\ mode'[r] = (IF mode[r] = "init" THEN "start" ELSE "run")
        BY <2>2 DEF Lives, Shapes
      <3>2. TimerOfManager(r)'
        BY <2>2, <3>1 DEF TimerOfManager, Kept, Lives, Shapes
      <3>3. Timely(r)'
        <4> SUFFICES ASSUME pc'[r] = "idle", ~requests'[r], timer'[r] # NONE
                     PROVE  timer'[r] <= RequeueAt(secret)
          BY <2>2 DEF Timely, RequeueAt
        <4>1. mode[r] = "run" /\ ~requests[r]
          BY <2>1, <2>2 DEF Lives, Shapes
        <4>2. mine[r] = secret
          BY <2>2, <4>1 DEF Kept, Current
        <4> QED BY <2>2, <2>4, <4>1, <4>2 DEF Lives
      <3> QED BY <2>2, <2>3, <3>1, <3>2, <3>3 DEF Kept, Fresh, Backed, Current, Holding
    <2>9. ASSUME NEW q \in Replica, q # r PROVE Kept(q)'
      <3>1. /\ pc'[q] = pc[q] /\ mode'[q] = mode[q] /\ mine'[q] = mine[q]
            /\ timer'[q] = timer[q] /\ requests'[q] = wake[q]
        BY <2>1, <2>2, <2>9 DEF Lives, Shapes
      <3> QED BY <2>1, <2>2, <3>1, OthersLive
    <2> QED BY <2>7, <2>8, <2>9
  <1>2. CASE /\ pc' = [pc EXCEPT ![r] = "readcfg"]
             /\ UNCHANGED <<secret, bundle, now, mode, mine, stale, requests, timer>>
    <2> USE DEF LInv
    <2>1. /\ pc[r] = "putcfg" /\ pc'[r] = "readcfg"
          /\ \A q \in Replica \ {r} : pc'[q] = pc[q]
      BY <1>2 DEF PutConfiguration, Lives, Shapes
    <2>2. Lives'
      BY <1>2 DEF Lives, Shapes, Holding
    <2>3. Kept(r)'
      BY <1>2, <2>1 DEF Kept, Fresh, Backed, TimerOfManager, Current, Timely, Holding
    <2> QED BY <1>2, <2>1, <2>2, <2>3, OthersLive
  <1>3. CASE Abort(r)
    BY <1>3, AbortLives
  <1> QED BY <1>1, <1>2, <1>3 DEF PutConfiguration

(* A day passes: the timers that are set lie ahead, and the certificate    *)
(* outlives them by the threshold.                                         *)
LEMMA TickLives ==
    ASSUME LInv, Tick
    PROVE  LInv'
  <1> USE DEF LInv
  <1>1. now' = now + 1 /\ UNCHANGED <<secret, bundle, mode, pc, mine, stale, requests, timer>>
    BY DEF Tick
  <1>2. Lives'
    BY <1>1, SMT DEF Lives, Shapes
  <1>3. ASSUME NEW r \in Replica PROVE Kept(r)'
    <2>1. pc[r] = "idle" /\ ~requests[r] /\ ~Due(r)
      BY DEF Tick
    <2>2. timer[r] # NONE => secret # NONE /\ secret.until > now + 1
      <3> SUFFICES ASSUME timer[r] # NONE PROVE secret # NONE /\ secret.until > now + 1
        OBVIOUS
      <3>1. secret # NONE /\ secret.until \in Nat
        BY DEF Kept, Backed, Lives, Cert
      <3>2. timer[r] \in Nat /\ timer[r] > now /\ timer[r] <= RequeueAt(secret)
        BY <2>1, SMT DEF Kept, Timely, Due, Lives
      <3> QED BY <3>1, <3>2, LifetimesAssumption, SMT DEF RequeueAt, Lives
    <2> QED BY <1>1, <2>1, <2>2
            DEF Kept, Fresh, Backed, TimerOfManager, Current, Timely, Holding, RequeueAt
  <1> QED BY <1>2, <1>3

(* Every step keeps the certificate valid and its renewal due in time.     *)
LEMMA NextLives ==
    ASSUME LInv, [CertsNext]_certVars
    PROVE  LInv'
  <1>1. CASE UNCHANGED certVars
    BY <1>1 DEF certVars, LInv, Lives, Shapes, Kept, Fresh, Backed, TimerOfManager,
                Current, Timely, RequeueAt
  <1>2. CASE Tick
    BY <1>2, TickLives
  <1>3. CASE ApplyManifest
    <2> USE DEF LInv
    <2>1. /\ UNCHANGED <<secret, now, mode, pc, mine, timer>>
          /\ requests' = SetupWithManager("configuration", bundle' # bundle)
      BY <1>3 DEF ApplyManifest
    <2>2. Shapes' /\ \A q \in Replica : requests[q] => requests'[q]
      BY <2>1 DEF SetupWithManager, Lives, Shapes
    <2>3. Lives'
      BY <2>1, <2>2 DEF Lives
    <2> QED BY <2>1, <2>2, <2>3, OthersLive
  <1>4. ASSUME NEW r \in Replica, CertsStep(r) \/ FailCall(r) \/ Crash(r)
        PROVE  LInv'
    BY <1>4, GetSecretLives, CreateSecretLives, PutSecretLives, CallLives,
       PutConfigurationLives, AbortLives DEF CertsStep, FailCall
  <1> QED BY <1>1, <1>2, <1>3, <1>4 DEF CertsNext

(* However long the managers run, and whatever the replicas write in       *)
(* between, a certificate is renewed before it expires: RequeueAfter fires *)
(* for the certificate that is in the secret then.  Needed are a threshold *)
(* of a day at least and certificates that live at all.                    *)
THEOREM Renewal ==
    CertsSpec => []NeverExpires
  <1>1. LInv => NeverExpires
    BY DEF LInv, Kept, Backed, NeverExpires
  <1>2. LInv /\ [CertsNext]_certVars => LInv'
    BY NextLives
  <1> QED BY <1>1, <1>2, InitiallyLives, PTL DEF CertsSpec

=============================================================================
