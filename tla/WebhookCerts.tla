---------------------------- MODULE WebhookCerts ----------------------------
(***************************************************************************)
(* The certificate of the validating webhooks.  It lives in a Kubernetes   *)
(* Secret; the authority that signed it must be the CA bundle of the       *)
(* ValidatingWebhookConfiguration, or the API server refuses to call the   *)
(* webhooks.  Three pieces of code write the two objects, in every replica *)
(* of the controller: the init container (cmd/init-cert), the start of the *)
(* manager (cmd/main.go) and the WebhookReconciler of the running manager. *)
(*                                                                         *)
(* Every call to the API server is a step of its own, so the replicas      *)
(* interleave between reading an object and writing it back.  A            *)
(* certificate is the number of the authority that signed it and the time  *)
(* it expires.  The resource version an update is checked against is       *)
(* modelled by "stale": another replica wrote the object since r read it.  *)
(***************************************************************************)
EXTENDS Naturals, FiniteSets, Absent

CONSTANTS Replica,        \* the pods of the deployment
          MaxCertFaults,  \* bound on failed calls, crashes and upgrades
          MaxTime,        \* bound on the clock
          InitThreshold,  \* remaining life under which the init container renews
          InitValidity,   \* life of the certificates it generates
          Threshold,      \* the same two for the reconciler
          Validity

VARIABLES secret,   \* the TLS secret: NONE or its certificate
          bundle,   \* the authority the webhook configuration trusts for
                    \* the webhooks called through a Service
          now,      \* the clock
          mode,     \* the program a replica runs: "init", "start" or "run"
          pc,       \* its next call
          mine,     \* the certificate it holds in certSecret
          stale,    \* the object it is about to write has changed
          requests, \* a reconcile request waits in its work queue
          timer,    \* when RequeueAfter adds the next one
          failures  \* failed calls, crashes and upgrades so far

certVars == <<secret, bundle, now, mode, pc, mine, stale, requests, timer, failures>>

NoCA == 0
Cert == [ca : Nat, until : Nat]

ASSUME ReplicasAssumption == IsFiniteSet(Replica) /\ Replica # {}
ASSUME LifetimesAssumption ==
    /\ NONE \notin Cert
    /\ Threshold \in Nat \ {0} /\ InitThreshold \in Nat
    /\ Validity \in Nat \ {0} /\ InitValidity \in Nat \ {0}

EmptySecret == [ca |-> NoCA, until |-> 0]

(* The init container renews a certificate with less than its threshold
   left; the reconciler one whose validation fails at its own threshold.
   A secret without an authority is renewed by both.  Both thresholds are
   reached within the unit of the clock. *)
InitShouldUpdate(s) == s.ca = NoCA \/ s.until <= now + InitThreshold

ShouldUpdateCertificate(s) == s.ca = NoCA \/ s.until <= now + Threshold

Outdated(r, s) ==
    IF mode[r] = "init" THEN InitShouldUpdate(s) ELSE ShouldUpdateCertificate(s)

(* A generated authority differs from every one still in use. *)
InUse == {mine[r].ca : r \in Replica} \cup {bundle}
            \cup (IF secret = NONE THEN {} ELSE {secret.ca})

NewAuthority ==
    CHOOSE n \in 1 .. Cardinality(InUse) + 1 : n \notin InUse

NewCertificate(r) ==
    [ca |-> NewAuthority,
     until |-> now + (IF mode[r] = "init" THEN InitValidity ELSE Validity)]

(* Faulty variant: the reconciler does not watch the configuration. *)
SetupWithManagerSecretOnly(object, changed) ==
    [q \in Replica |-> requests[q] \/ (changed /\ object = "secret" /\ mode[q] = "run")]

(* Watches of the reconciler: a change of the secret or of the webhook
   configuration puts a request in the queue of every running manager. *)
SetupWithManager(object, changed) ==
    [q \in Replica |-> requests[q] \/ (changed /\ mode[q] = "run")]

Touch(r, at) == [q \in Replica |-> stale[q] \/ (q # r /\ pc[q] = at)]

CertsInit ==
    /\ secret = NONE /\ bundle = NoCA
    /\ now = 0 /\ failures = 0
    /\ \E first \in {"init", "start"} :   \* with or without the init container
          mode = [r \in Replica |-> first]
    /\ pc = [r \in Replica |-> "get"]
    /\ mine = [r \in Replica |-> EmptySecret]
    /\ stale = [r \in Replica |-> FALSE]
    /\ requests = [r \in Replica |-> FALSE]
    /\ timer = [r \in Replica |-> NONE]

(* An error ends the step: the init container and the start of the manager
   exit and are started again, the reconciler puts its request back. *)
Abort(r) ==
    /\ pc' = [pc EXCEPT ![r] = IF mode[r] = "run" THEN "idle" ELSE "get"]
    /\ requests' = [requests EXCEPT ![r] = mode[r] = "run"]
    /\ stale' = [stale EXCEPT ![r] = FALSE]
    /\ mine' = [mine EXCEPT ![r] = EmptySecret]
    /\ UNCHANGED <<secret, bundle, now, mode, timer>>

Generate(r) ==
    /\ mine' = [mine EXCEPT ![r] = NewCertificate(r)]
    /\ pc' = [pc EXCEPT ![r] = "lookup"]

(* The Get that starts the init container and ReconcileCertificates: a
   missing secret is generated at once by the former and created empty
   first by the latter; an outdated one is generated anew. *)
GetSecret(r) ==
    /\ pc[r] = "get"
    /\ \/ /\ secret = NONE /\ mode[r] # "init"
          /\ pc' = [pc EXCEPT ![r] = "create"]
          /\ UNCHANGED mine
       \/ /\ IF secret = NONE THEN mode[r] = "init" ELSE Outdated(r, secret)
          /\ Generate(r)
       \/ /\ IF secret = NONE THEN FALSE ELSE ~Outdated(r, secret)
          /\ mine' = [mine EXCEPT ![r] = secret]
          /\ pc' = [pc EXCEPT ![r] = "readcfg"]
    /\ UNCHANGED <<secret, bundle, now, mode, stale, requests, timer, failures>>

(* The Create that follows a failed Get: it fails when another replica has
   created the secret since. *)
CreateSecret(r) ==
    /\ pc[r] = "create"
    /\ IF secret = NONE
       THEN /\ secret' = EmptySecret
            /\ Generate(r)
            /\ requests' = SetupWithManager("secret", TRUE)
            /\ stale' = Touch(r, "put")
            /\ UNCHANGED <<bundle, now, mode, timer>>
       ELSE Abort(r)
    /\ UNCHANGED failures

(* controllerutil.CreateOrUpdate: a Get, then a Create or an Update that
   the API server refuses when the object has changed in between. *)
LookupSecret(r) ==
    /\ pc[r] = "lookup"
    /\ pc' = [pc EXCEPT ![r] = "put"]
    /\ stale' = [stale EXCEPT ![r] = FALSE]
    /\ UNCHANGED <<secret, bundle, now, mode, mine, requests, timer, failures>>

PutSecret(r) ==
    /\ pc[r] = "put"
    /\ IF stale[r]
       THEN Abort(r)
       ELSE /\ secret' = mine[r]
            /\ requests' = SetupWithManager("secret", TRUE)
            /\ stale' = Touch(r, "put")
            /\ pc' = [pc EXCEPT ![r] = "readcfg"]
            /\ UNCHANGED <<bundle, now, mode, mine, timer>>
    /\ UNCHANGED failures

GetConfiguration(r) ==
    /\ pc[r] = "readcfg"
    /\ pc' = [pc EXCEPT ![r] = "putcfg"]
    /\ stale' = [stale EXCEPT ![r] = FALSE]
    /\ UNCHANGED <<secret, bundle, now, mode, mine, requests, timer, failures>>

(* Every webhook called through a Service of the cluster gets the bundle. *)
CABundle(r) == mine[r].ca

(* Faulty variant: the threshold is left out. *)
RequeueAtExpiry(c) == c.until

(* Reconcile asks to be called again one second after the certificate
   falls under the threshold, a second being nothing in the unit of the
   clock.  The delaying queue keeps the earliest of two times for the same
   request. *)
RequeueAt(c) == IF c.until < Threshold THEN 0 ELSE c.until - Threshold

Earliest(a, b) == IF a = NONE THEN b ELSE IF a < b THEN a ELSE b

(* The three callers after the configuration is written: the init container
   ends and the manager starts; the manager runs and its informers deliver
   both objects; the reconciler sets its timer. *)
Finish(r, changed) ==
    /\ mode' = [mode EXCEPT ![r] = IF @ = "init" THEN "start" ELSE "run"]
    /\ pc' = [pc EXCEPT ![r] = IF mode[r] = "init" THEN "get" ELSE "idle"]
    /\ requests' = [SetupWithManager("configuration", changed) EXCEPT ![r] = @ \/ mode[r] = "start"]
    /\ timer' = [timer EXCEPT ![r] =
                    IF mode[r] = "run" THEN Earliest(@, RequeueAt(mine[r])) ELSE @]

(* The Update of the webhook configuration.  On a conflict the reconciler
   reads it again, a few times (RetryOnConflict); the init container fails. *)
PutConfiguration(r) ==
    /\ pc[r] = "putcfg"
    /\ \/ /\ ~stale[r]
          /\ bundle' = CABundle(r)
          /\ stale' = IF bundle' # bundle THEN Touch(r, "putcfg") ELSE stale
          /\ Finish(r, bundle' # bundle)
          /\ mine' = [mine EXCEPT ![r] = EmptySecret]
          /\ UNCHANGED <<secret, now>>
       \/ /\ stale[r] /\ mode[r] # "init"
          /\ pc' = [pc EXCEPT ![r] = "readcfg"]
          /\ UNCHANGED <<secret, bundle, now, mode, mine, stale, requests, timer>>
       \/ stale[r] /\ Abort(r)
    /\ UNCHANGED failures

Due(r) == IF timer[r] = NONE THEN FALSE ELSE timer[r] <= now

(* A request leaves the work queue.  Reconcile reads the secret first and
   returns the error when there is none. *)
ReconcileWebhook(r) ==
    /\ mode[r] = "run" /\ pc[r] = "idle"
    /\ requests[r] \/ Due(r)
    /\ secret # NONE
    /\ requests' = [requests EXCEPT ![r] = FALSE]
    /\ timer' = [timer EXCEPT ![r] = IF Due(r) THEN NONE ELSE @]
    /\ pc' = [pc EXCEPT ![r] = "get"]
    /\ UNCHANGED <<secret, bundle, now, mode, mine, stale, failures>>

(* A call to the API server fails, or its answer is lost. *)
FailCall(r) ==
    /\ failures < MaxCertFaults
    /\ pc[r] # "idle"
    /\ failures' = failures + 1
    /\ Abort(r)

(* A replica crashes.  Its manager container is started again, or its pod
   is replaced and the init container runs first. *)
Crash(r) ==
    /\ failures < MaxCertFaults
    /\ failures' = failures + 1
    /\ \E to \in {"init", "start"} :
          /\ mode[r] = "init" => to = "init"
          /\ mode' = [mode EXCEPT ![r] = to]
    /\ pc' = [pc EXCEPT ![r] = "get"]
    /\ requests' = [requests EXCEPT ![r] = FALSE]
    /\ timer' = [timer EXCEPT ![r] = NONE]
    /\ stale' = [stale EXCEPT ![r] = FALSE]
    /\ mine' = [mine EXCEPT ![r] = EmptySecret]
    /\ UNCHANGED <<secret, bundle, now>>

(* The manifest of the webhook configuration is applied again, by an upgrade
   of the chart for one: its bundles are empty. *)
ApplyManifest ==
    /\ failures < MaxCertFaults
    /\ failures' = failures + 1
    /\ bundle' = NoCA
    /\ requests' = SetupWithManager("configuration", bundle' # bundle)
    /\ stale' = [q \in Replica |-> stale[q] \/ (bundle' # bundle /\ pc[q] = "putcfg")]
    /\ UNCHANGED <<secret, now, mode, pc, mine, timer>>

(* Time passes only between reconciliations: the unit is a day, and a
   reconciliation that is due is over within it. *)
Tick ==
    /\ now < MaxTime
    /\ \A r \in Replica : pc[r] = "idle" /\ ~requests[r] /\ ~Due(r)
    /\ now' = now + 1
    /\ UNCHANGED <<secret, bundle, mode, pc, mine, stale, requests, timer, failures>>

CertsStep(r) ==
    \/ GetSecret(r) \/ CreateSecret(r) \/ LookupSecret(r) \/ PutSecret(r)
    \/ GetConfiguration(r) \/ PutConfiguration(r) \/ ReconcileWebhook(r)

CertsNext == Tick \/ ApplyManifest \/ \E r \in Replica : CertsStep(r) \/ FailCall(r) \/ Crash(r)

CertsSpec == CertsInit /\ [][CertsNext]_certVars

(* The init container is restarted by the kubelet, a request of the work
   queue is served and the API server answers: every replica goes on. *)
CertsFairSpec == CertsSpec /\ \A r \in Replica : WF_certVars(CertsStep(r))

-----------------------------------------------------------------------------

AtRest == \A r \in Replica : mode[r] = "run" /\ pc[r] = "idle" /\ ~requests[r]

(* When every manager runs and none has a request to serve, the webhook
   configuration trusts the authority of the certificate in the secret,
   whatever replicas generated certificates at the same time, lost a
   conflict, failed or crashed between the two writes
   (ReconcileCertificates, cmd/init-cert). *)
TrustedAtRest ==
    AtRest => secret # NONE /\ secret.ca # NoCA /\ bundle = secret.ca

(* While some manager has reconciled since it started, the certificate in
   the secret has not expired: the timer of Reconcile fires before it does,
   and what another replica wrote in between is noticed. *)
NeverExpires ==
    (\E r \in Replica : mode[r] = "run" /\ timer[r] # NONE) => secret.until > now

(* Whatever failed, in the end the configuration trusts the certificate of
   the secret for good. *)
TrustSettles == <>[](secret # NONE /\ bundle = secret.ca)
=============================================================================
