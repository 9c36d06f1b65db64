--------------------------- MODULE ResourceStore ---------------------------
(***************************************************************************)
(* OptimizedStore: the resources by name and the indices kept beside them. *)
(* Every kind has an index by UID; VirtualServices are also indexed by the *)
(* template they use and Clusters by the name inside their spec, which is  *)
(* what routes refer to.  The indices are changed in place by every Set    *)
(* and Delete and never rebuilt.                                           *)
(*                                                                         *)
(* A resource that is deleted and created again keeps its name and gets    *)
(* another UID; the store may see the second one without having been told  *)
(* of the deletion.  A UID is therefore a name with an incarnation.        *)
(* Listeners, templates, routes, filters, access logs, policies and        *)
(* tracings are all kept in the same way; `other' stands for one of them.  *)
(***************************************************************************)
EXTENDS Naturals, FiniteSets, Absent

CONSTANTS
    Name,      \* names of resources (one set serves all kinds)
    Inc,       \* incarnations of a resource
    Template,  \* names of VirtualServiceTemplates
    SpecName   \* cluster names inside specs

(* NONE is no entry, no template, or a spec that does not unmarshal.       *)
ASSUME NoneAssumption ==
    /\ NONE \notin Template /\ NONE \notin SpecName
    /\ NONE \notin [name : Name, inc : Inc, ref : Template \cup {NONE}]
    /\ NONE \notin [name : Name, inc : Inc, ref : SpecName \cup {NONE}]
    /\ NONE \notin [name : Name, inc : Inc, ref : {NONE}]

Uid == Name \X Inc

Object(Ref) == [name : Name, inc : Inc, ref : Ref \cup {NONE}]

VSObject      == Object(Template)
ClusterObject == Object(SpecName)
OtherObject   == Object({})

UidOf(o) == <<o.name, o.inc>>

VARIABLES
    virtualServices, uidToVS, templateToVS,
    clusters, uidToCluster, specClusters,
    others, otherByUID,
    collided   \* history: two stored clusters have had one spec name

vsVars      == <<virtualServices, uidToVS, templateToVS>>
clusterVars == <<clusters, uidToCluster, specClusters, collided>>
otherVars   == <<others, otherByUID>>
vars        == <<vsVars, clusterVars, otherVars>>

-----------------------------------------------------------------------------
StoredIn(map) == {map[x] : x \in Name} \ {NONE}

Collision(map) ==
    \E m, n \in Name : /\ m # n /\ map[m] # NONE /\ map[n] # NONE
                       /\ map[m].ref # NONE /\ map[m].ref = map[n].ref

(* Whichever stored object has that UID.                                   *)
ByUID(map) ==
    [u \in Uid |-> IF map[u[1]] # NONE /\ map[u[1]].inc = u[2]
                   THEN map[u[1]] ELSE NONE]

FillOthers ==
    /\ others \in [Name -> OtherObject \cup {NONE}]
    /\ \A n \in Name : others[n] # NONE => others[n].name = n
    /\ otherByUID = ByUID(others)

(* FillFromKubernetes puts the lists it was given into empty maps; of      *)
(* clusters with one spec name the last one listed keeps the entry.        *)
Init ==
    /\ virtualServices \in [Name -> VSObject \cup {NONE}]
    /\ \A n \in Name : virtualServices[n] # NONE => virtualServices[n].name = n
    /\ uidToVS = ByUID(virtualServices)
    /\ templateToVS = [t \in Template |->
                        {o \in StoredIn(virtualServices) : o.ref = t}]
    /\ clusters \in [Name -> ClusterObject \cup {NONE}]
    /\ \A n \in Name : clusters[n] # NONE => clusters[n].name = n
    /\ uidToCluster = ByUID(clusters)
    /\ specClusters \in [SpecName -> ClusterObject \cup {NONE}]
    /\ \A s \in SpecName :
        LET cs == {o \in StoredIn(clusters) : o.ref = s}
        IN  specClusters[s] \in IF cs = {} THEN {NONE} ELSE cs
    /\ FillOthers
    /\ collided = Collision(clusters)

-----------------------------------------------------------------------------
(* Index by UID.                                                           *)

DropUID(index, old) ==
    IF old = NONE THEN index ELSE [index EXCEPT ![UidOf(old)] = NONE]

SetUID(index, old, o) == [DropUID(index, old) EXCEPT ![UidOf(o)] = o]

(* Index by template: a list per template, at most one entry per UID.      *)

RemoveFromTemplateIndex(index, old) ==
    IF old = NONE \/ old.ref = NONE
       \/ ~\E e \in index[old.ref] : UidOf(e) = UidOf(old)
    THEN index
    ELSE LET e == CHOOSE e \in index[old.ref] : UidOf(e) = UidOf(old)
         IN  [index EXCEPT ![old.ref] = @ \ {e}]

UpdateTemplateIndex(index, o) ==
    IF o.ref = NONE \/ \E e \in index[o.ref] : UidOf(e) = UidOf(o)
    THEN index
    ELSE [index EXCEPT ![o.ref] = @ \cup {o}]

(* Faulty variant: a VirtualService that is already listed is not replaced.*)
AppendToTemplate(index, old, o) == UpdateTemplateIndex(index, o)

MoveInTemplateIndex(index, old, o) ==
    UpdateTemplateIndex(RemoveFromTemplateIndex(index, old), o)

SetVirtualService(o) ==
    LET old == virtualServices[o.name]
    IN  /\ virtualServices' = [virtualServices EXCEPT ![o.name] = o]
        /\ uidToVS' = SetUID(uidToVS, old, o)
        /\ templateToVS' = MoveInTemplateIndex(templateToVS, old, o)
        /\ UNCHANGED <<clusterVars, otherVars>>

DeleteVirtualService(n) ==
    LET old == virtualServices[n]
    IN  /\ old # NONE
        /\ virtualServices' = [virtualServices EXCEPT ![n] = NONE]
        /\ uidToVS' = DropUID(uidToVS, old)
        /\ templateToVS' = RemoveFromTemplateIndex(templateToVS, old)
        /\ UNCHANGED <<clusterVars, otherVars>>

-----------------------------------------------------------------------------
(* Index by the name inside the spec.  The entry goes by name, whichever   *)
(* cluster holds it.                                                       *)

DropSpec(index, old) ==
    IF old = NONE \/ old.ref = NONE THEN index
    ELSE [index EXCEPT ![old.ref] = NONE]

SetSpec(index, o) ==
    IF o.ref = NONE THEN index ELSE [index EXCEPT ![o.ref] = o]

SetCluster(o) ==
    LET old == clusters[o.name]
    IN  /\ clusters' = [clusters EXCEPT ![o.name] = o]
        /\ uidToCluster' = SetUID(uidToCluster, old, o)
        /\ specClusters' = SetSpec(DropSpec(specClusters, old), o)
        /\ collided' = (collided \/ Collision(clusters'))
        /\ UNCHANGED <<vsVars, otherVars>>

DeleteCluster(n) ==
    LET old == clusters[n]
    IN  /\ old # NONE
        /\ clusters' = [clusters EXCEPT ![n] = NONE]
        /\ uidToCluster' = DropUID(uidToCluster, old)
        /\ specClusters' = DropSpec(specClusters, old)
        /\ UNCHANGED <<collided, vsVars, otherVars>>

-----------------------------------------------------------------------------
SetOther(o) ==
    /\ others' = [others EXCEPT ![o.name] = o]
    /\ otherByUID' = SetUID(otherByUID, others[o.name], o)
    /\ UNCHANGED <<vsVars, clusterVars>>

DeleteOther(n) ==
    /\ others[n] # NONE
    /\ others' = [others EXCEPT ![n] = NONE]
    /\ otherByUID' = DropUID(otherByUID, others[n])
    /\ UNCHANGED <<vsVars, clusterVars>>

Next ==
    \/ \E o \in VSObject : SetVirtualService(o)
    \/ \E n \in Name : DeleteVirtualService(n)
    \/ \E o \in ClusterObject : SetCluster(o)
    \/ \E n \in Name : DeleteCluster(n)
    \/ \E o \in OtherObject : SetOther(o)
    \/ \E n \in Name : DeleteOther(n)

Spec == Init /\ [][Next]_vars

-----------------------------------------------------------------------------
IsStore(map, Objects) ==
    /\ map \in [Name -> Objects \cup {NONE}]
    /\ \A n \in Name : map[n] # NONE => map[n].name = n

(* The maps hold objects under their own names, the indices hold objects.  *)
TypeOK ==
    /\ IsStore(virtualServices, VSObject)
    /\ uidToVS \in [Uid -> VSObject \cup {NONE}]
    /\ templateToVS \in [Template -> SUBSET VSObject]
    /\ IsStore(clusters, ClusterObject)
    /\ uidToCluster \in [Uid -> ClusterObject \cup {NONE}]
    /\ specClusters \in [SpecName -> ClusterObject \cup {NONE}]
    /\ IsStore(others, OtherObject)
    /\ otherByUID \in [Uid -> OtherObject \cup {NONE}]
    /\ collided \in BOOLEAN

(* A UID finds the stored object that has it and nothing else, also when   *)
(* a resource was deleted and created again between two calls of Set.      *)
UidIndexExact ==
    /\ uidToVS = ByUID(virtualServices)
    /\ uidToCluster = ByUID(clusters)
    /\ otherByUID = ByUID(others)

(* The VirtualServices listed for a template, which the template's         *)
(* reconciler notifies and its webhook validates, are exactly the stored   *)
(* ones that use it, in their stored version.                              *)
TemplateIndexExact ==
    \A t \in Template :
        templateToVS[t] = {o \in StoredIn(virtualServices) : o.ref = t}

(* The index by spec name never finds a cluster that was deleted, renamed  *)
(* or replaced by another version.                                         *)
SpecIndexSound ==
    \A s \in SpecName : specClusters[s] # NONE =>
        specClusters[s] \in StoredIn(clusters) /\ specClusters[s].ref = s

(* As long as no two stored clusters have had the same name in their specs,*)
(* every stored cluster is found by it.                                    *)
SpecIndexComplete ==
    ~collided => \A o \in StoredIn(clusters) : o.ref # NONE => specClusters[o.ref] = o

(* Every lookup beside the one by name agrees with the maps by name.       *)
IndicesExact == UidIndexExact /\ TemplateIndexExact /\ SpecIndexSound /\ SpecIndexComplete

=============================================================================
