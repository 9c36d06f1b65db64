--------------------------- MODULE MCConvergence ---------------------------
(***************************************************************************)
(* What must come to rest in the right state, one part at a time:          *)
(*   reconcilers  Reconcilers: a VirtualService and one resource that it   *)
(*                refers to, of each of the other kinds in turn;           *)
(*   files        ConfigReload, without requests;                          *)
(*   certificate  WebhookCerts: two replicas.                              *)
(***************************************************************************)
EXTENDS Reconcilers, ConfigReload, WebhookCerts

CONSTANT Parts

VARIABLE part

allVars == <<part, vars, configVars, certVars>>

MCInit ==
    /\ part \in Parts
    /\ Init
    /\ part # "reconcilers" => kind = CHOOSE k \in KindMaps : TRUE
    /\ part # "reconcilers" => api = Empty
    /\ ConfigInit
    /\ part # "files" => /\ file = CHOOSE f \in StaticFiles : TRUE
                         /\ dir.of = CHOOSE c \in AccessFiles : TRUE
                         /\ ~auth
    /\ CertsInit
    /\ part # "certificate" => \A r \in Replica : mode[r] = "init"

MCNext ==
    \/ /\ part = "reconcilers"
       /\ Next
       /\ UNCHANGED <<part, configVars, certVars>>
    \/ /\ part = "files"
       /\ ConfigNext
       /\ UNCHANGED <<part, vars, certVars>>
    \/ /\ part = "certificate"
       /\ CertsNext
       /\ UNCHANGED <<part, vars, configVars>>

-----------------------------------------------------------------------------
(* The fairness of each part, while it is the one that runs.               *)
Reconciling(A) == part = "reconcilers" /\ A

ReconcilerFairness ==
    /\ WF_vars(Reconciling(FillFromKubernetes)) /\ WF_vars(Reconciling(OpenGate))
    /\ \A o \in Object : WF_vars(Reconciling(Deliver(o)))
    /\ WF_vars(Reconciling(ReconcileVirtualService))
    /\ WF_vars(Reconciling(ReconcileVirtualServiceTemplate))
    /\ WF_vars(Reconciling(ReconcileSecret)) /\ WF_vars(Reconciling(ReconcileListener))
    /\ WF_vars(Reconciling(ReconcileCluster)) /\ WF_vars(Reconciling(ReconcileRoute))
    /\ WF_vars(Reconciling(ReconcileHttpFilter)) /\ WF_vars(Reconciling(ReconcilePolicy))
    /\ WF_vars(Reconciling(ReconcileAccessLogConfig))
    /\ WF_vars(Reconciling(ReconcileTracing))

FilesFairness ==
    /\ WF_configVars(part = "files" /\ Boot)
    /\ WF_configVars(part = "files" /\ Watch)
    /\ WF_configVars(part = "files" /\ Write)

CertificateFairness ==
    \A r \in Replica : WF_certVars(part = "certificate" /\ CertsStep(r))

MCSpec ==
    /\ MCInit
    /\ [][MCNext]_allVars
    /\ ReconcilerFairness
    /\ FilesFairness
    /\ CertificateFairness

-----------------------------------------------------------------------------
MCObject == {"v", "x"}

MCKindMaps ==
    {[o \in MCObject |-> IF o = "v" THEN "VirtualService" ELSE k] :
        k \in Kind \ {"VirtualService"}}

MCRefs == [o \in MCObject |-> IF o = "v" THEN {"x"} ELSE {}]

(* A valid spec, the same one written differently, and an invalid one.     *)
MCSpecs ==
    {[means |-> "good", bytes |-> 1], [means |-> "good", bytes |-> 2],
     [means |-> "bad", bytes |-> 1]}

MCInitObjects ==
    {[o \in MCObject |-> NONE],
     [o \in MCObject |-> [spec |-> [means |-> "good", bytes |-> 1],
                          status |-> "valid", class |-> "cached", born |-> 0]]}

-----------------------------------------------------------------------------
MCAccessFiles == {[model |-> TRUE, policy |-> "p1"], [model |-> TRUE, policy |-> "p2"],
                  [model |-> TRUE, policy |-> Torn], [model |-> FALSE, policy |-> "p1"]}

MCStaticFiles == {[nodes |-> <<"n1">>, groups |-> <<"g1">>], [nodes |-> <<"n2", "n1">>, groups |-> Absent]}

-----------------------------------------------------------------------------
(* WebhookCerts: in the end the certificate is trusted for good.           *)
CertificateSettles == part = "certificate" => TrustSettles

=============================================================================
