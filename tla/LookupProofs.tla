---------------------------- MODULE LookupProofs ----------------------------
(***************************************************************************)
(* Tables that follow what they are of: the indices of the store its       *)
(* objects, the registry the open streams, and the cache of HTTP filters   *)
(* the stored filters and policies; and the answers that the read side of  *)
(* the management API looks up.                                            *)
(***************************************************************************)
EXTENDS ResourceStore, Streams, FilterCaching, Queries, TLAPS

(* Steps are first-order reasoning unless they name another prover.        *)
USE Zenon

-----------------------------------------------------------------------------
(***************************************************************************)
(* The indices of the store are exact, for any number of resources.  The   *)
(* indices by UID and by template are inductive by themselves: each step   *)
(* computes the new index from the old one and the object that is replaced,*)
(* and the lemmas below show that the result is what a rebuild from the    *)
(* changed map would give.  Completeness of the index by spec name also    *)
(* needs that a collision never goes unnoticed.                            *)
(***************************************************************************)

(* A collision of spec names is remembered.                                *)
CollisionNoticed == Collision(clusters) => collided

Inv ==
    /\ TypeOK
    /\ UidIndexExact
    /\ TemplateIndexExact
    /\ SpecIndexSound
    /\ CollisionNoticed
    /\ SpecIndexComplete

-----------------------------------------------------------------------------
(* The index by UID holds objects of the map's kind.                       *)
LEMMA ByUIDTyped ==
    ASSUME NEW Ref, NEW map, IsStore(map, Object(Ref))
    PROVE  ByUID(map) \in [Uid -> Object(Ref) \cup {NONE}]
<1>1. \A u \in Uid : u[1] \in Name
  BY DEF Uid
<1> QED BY <1>1 DEF ByUID, IsStore

(* A changed map is still a map of objects under their own names.          *)
LEMMA StoreTyped ==
    ASSUME NEW Ref, NEW map, IsStore(map, Object(Ref))
    PROVE  /\ \A o \in Object(Ref) : IsStore([map EXCEPT ![o.name] = o], Object(Ref))
           /\ \A n \in Name : IsStore([map EXCEPT ![n] = NONE], Object(Ref))
BY DEF IsStore, Object

(* Replacing an object in a map and in its index by UID commutes with      *)
(* computing the index: SetX.                                              *)
LEMMA SetUIDExact ==
    ASSUME NEW Ref, NONE \notin Object(Ref),
           NEW map, IsStore(map, Object(Ref)), NEW o \in Object(Ref)
    PROVE  SetUID(ByUID(map), map[o.name], o) = ByUID([map EXCEPT ![o.name] = o])
<1> DEFINE old == map[o.name]
           new == [map EXCEPT ![o.name] = o]
<1>1. o.name \in Name /\ o.inc \in Inc /\ UidOf(o) \in Uid
  BY DEF Object, UidOf, Uid
<1>2. old # NONE => old \in Object(Ref) /\ old.name = o.name /\ UidOf(old) \in Uid
  BY <1>1 DEF IsStore, Object, UidOf, Uid
<1>3. \A u \in Uid : u = <<u[1], u[2]>> /\ u[1] \in Name /\ u[2] \in Inc
  BY SMT DEF Uid
<1>4. o # NONE
  OBVIOUS
<1>5. ASSUME NEW u \in Uid
      PROVE  SetUID(ByUID(map), old, o)[u] = ByUID(new)[u]
  <2>1. CASE u = UidOf(o)
    BY <2>1, <1>1, <1>2, <1>4 DEF SetUID, DropUID, ByUID, UidOf, IsStore
  <2>2. CASE u # UidOf(o) /\ u[1] = o.name
    <3>1. u[2] # o.inc
      BY <2>2, <1>3 DEF UidOf
    <3>2. ByUID(new)[u] = NONE
      BY <2>2, <3>1, <1>1 DEF ByUID, IsStore
    <3>3. CASE old # NONE /\ u = UidOf(old)
      BY <3>2, <3>3, <2>2, <1>2 DEF SetUID, DropUID, ByUID
    <3>4. CASE ~(old # NONE /\ u = UidOf(old))
      <4>1. ByUID(map)[u] = NONE
        BY <3>4, <2>2, <1>2, <1>3 DEF ByUID, UidOf
      <4>2. QED BY <4>1, <3>2, <3>4, <2>2 DEF SetUID, DropUID, ByUID
    <3> QED BY <3>3, <3>4
  <2>3. CASE u[1] # o.name
    <3>1. u # UidOf(o) /\ (old # NONE => u # UidOf(old))
      BY <2>3, <1>2, SMT DEF UidOf
    <3>2. SetUID(ByUID(map), old, o)[u] = ByUID(map)[u]
      BY <3>1 DEF SetUID, DropUID, ByUID
    <3>3. new[u[1]] = map[u[1]]
      BY <2>3, <1>3 DEF IsStore
    <3> QED BY <3>2, <3>3 DEF ByUID
  <2> QED BY <2>1, <2>2, <2>3
<1>6. ByUID(map) \in [Uid -> Object(Ref) \cup {NONE}]
  BY ByUIDTyped
<1>7. ByUID(new) \in [Uid -> Object(Ref) \cup {NONE}]
  BY ByUIDTyped, StoreTyped
<1>8. SetUID(ByUID(map), old, o) \in [Uid -> Object(Ref) \cup {NONE}]
  BY <1>1, <1>2, <1>6 DEF SetUID, DropUID
<1> HIDE DEF old, new
<1>9. SetUID(ByUID(map), old, o) = ByUID(new)
  BY <1>5, <1>7, <1>8, SMT
<1> QED BY <1>9 DEF old, new

(* The same for taking an object out: DeleteX.                             *)
LEMMA DropUIDExact ==
    ASSUME NEW Ref, NONE \notin Object(Ref),
           NEW map, IsStore(map, Object(Ref)), NEW n \in Name, map[n] # NONE
    PROVE  DropUID(ByUID(map), map[n]) = ByUID([map EXCEPT ![n] = NONE])
<1> DEFINE new == [map EXCEPT ![n] = NONE]
<1>1. map[n] \in Object(Ref) /\ map[n].name = n /\ UidOf(map[n]) \in Uid
  BY DEF IsStore, Object, UidOf, Uid
<1>2. \A u \in Uid : u = <<u[1], u[2]>> /\ u[1] \in Name /\ u[2] \in Inc
  BY SMT DEF Uid
<1>3. ASSUME NEW u \in Uid
      PROVE  DropUID(ByUID(map), map[n])[u] = ByUID(new)[u]
  <2>1. CASE u[1] = n
    <3>1. ByUID(new)[u] = NONE
      BY <2>1 DEF ByUID, IsStore
    <3>2. CASE u = UidOf(map[n])
      BY <3>1, <3>2 DEF DropUID, ByUID
    <3>3. CASE u # UidOf(map[n])
      <4>1. map[n].inc # u[2]
        BY <2>1, <3>3, <1>1, <1>2 DEF UidOf
      <4> QED BY <4>1, <3>1, <3>3, <2>1 DEF DropUID, ByUID
    <3> QED BY <3>2, <3>3
  <2>2. CASE u[1] # n
    <3>1. u # UidOf(map[n])
      BY <2>2, <1>1, SMT DEF UidOf
    <3>2. new[u[1]] = map[u[1]]
      BY <2>2, <1>2 DEF IsStore
    <3> QED BY <3>1, <3>2 DEF DropUID, ByUID
  <2> QED BY <2>1, <2>2
<1>4. ByUID(map) \in [Uid -> Object(Ref) \cup {NONE}]
  BY ByUIDTyped
<1>5. ByUID(new) \in [Uid -> Object(Ref) \cup {NONE}]
  BY ByUIDTyped, StoreTyped
<1>6. DropUID(ByUID(map), map[n]) \in [Uid -> Object(Ref) \cup {NONE}]
  BY <1>1, <1>4 DEF DropUID
<1> HIDE DEF new
<1>7. DropUID(ByUID(map), map[n]) = ByUID(new)
  BY <1>3, <1>5, <1>6, SMT
<1> QED BY <1>7 DEF new

(* Two stored objects with one UID are one object.                         *)
LEMMA UidUnique ==
    ASSUME NEW Ref, NEW map, IsStore(map, Object(Ref)),
           NEW a \in StoredIn(map), NEW b \in StoredIn(map), UidOf(a) = UidOf(b)
    PROVE  a = b
BY SMT DEF StoredIn, IsStore, UidOf

(* What is stored once an object is set or removed.                        *)
LEMMA StoredAfter ==
    ASSUME NEW Ref, NONE \notin Object(Ref), NEW map, IsStore(map, Object(Ref))
    PROVE  /\ \A o \in Object(Ref) :
                StoredIn([map EXCEPT ![o.name] = o]) =
                    (StoredIn(map) \ {map[o.name]}) \cup {o}
           /\ \A n \in Name :
                StoredIn([map EXCEPT ![n] = NONE]) = StoredIn(map) \ {map[n]}
<1>1. ASSUME NEW o \in Object(Ref)
      PROVE  StoredIn([map EXCEPT ![o.name] = o]) =
                    (StoredIn(map) \ {map[o.name]}) \cup {o}
  <2>1. o.name \in Name /\ o # NONE /\ DOMAIN map = Name
    BY DEF Object, IsStore
  <2>2. \A m \in Name : m # o.name /\ map[m] # NONE => map[m] # map[o.name]
    BY <2>1 DEF IsStore
  <2> QED BY <2>1, <2>2 DEF StoredIn
<1>2. ASSUME NEW n \in Name
      PROVE  StoredIn([map EXCEPT ![n] = NONE]) = StoredIn(map) \ {map[n]}
  <2>1. \A m \in Name : m # n /\ map[m] # NONE => map[m] # map[n]
    BY DEF IsStore
  <2> QED BY <2>1 DEF StoredIn, IsStore
<1> QED BY <1>1, <1>2

-----------------------------------------------------------------------------
(* The index by template.                                                  *)

(* The VirtualServices of a map that use template t.                       *)
Using(map, t) == {o \in StoredIn(map) : o.ref = t}

(* Taking a stored VirtualService out of an exact index leaves the others. *)
LEMMA RemoveFromTemplateExact ==
    ASSUME NEW map, IsStore(map, VSObject), NEW n \in Name,
           NEW index \in [Template -> SUBSET VSObject],
           \A t \in Template : index[t] = Using(map, t)
    PROVE  /\ RemoveFromTemplateIndex(index, map[n]) \in [Template -> SUBSET VSObject]
           /\ \A t \in Template :
                RemoveFromTemplateIndex(index, map[n])[t] = Using(map, t) \ {map[n]}
<1> DEFINE old == map[n]
<1>1. CASE old = NONE \/ old.ref = NONE
  <2>1. \A t \in Template : old \notin Using(map, t)
    BY <1>1, NoneAssumption DEF Using, StoredIn
  <2> QED BY <1>1, <2>1 DEF RemoveFromTemplateIndex
<1>2. CASE old # NONE /\ old.ref # NONE
  <2>1. old \in VSObject /\ old.ref \in Template /\ old \in StoredIn(map)
    BY <1>2 DEF IsStore, VSObject, Object, StoredIn
  <2>2. old \in index[old.ref]
    BY <2>1 DEF Using
  <2>3. \A e \in index[old.ref] : UidOf(e) = UidOf(old) <=> e = old
    BY <2>1, UidUnique, SMT DEF Using, VSObject
  <2>4. (CHOOSE e \in index[old.ref] : UidOf(e) = UidOf(old)) = old
    BY <2>2, <2>3
  <2>5. RemoveFromTemplateIndex(index, old) = [index EXCEPT ![old.ref] = @ \ {old}]
    BY <1>2, <2>2, <2>4 DEF RemoveFromTemplateIndex
  <2>6. \A t \in Template : t # old.ref => old \notin Using(map, t)
    BY DEF Using
  <2> QED BY <2>1, <2>5, <2>6
<1> QED BY <1>1, <1>2

(* Setting a VirtualService moves it to the template it now uses, in its   *)
(* new version.                                                            *)
LEMMA MoveInTemplateExact ==
    ASSUME NEW map, IsStore(map, VSObject), NEW o \in VSObject,
           NEW index \in [Template -> SUBSET VSObject],
           \A t \in Template : index[t] = Using(map, t)
    PROVE  /\ MoveInTemplateIndex(index, map[o.name], o) \in [Template -> SUBSET VSObject]
           /\ \A t \in Template :
                MoveInTemplateIndex(index, map[o.name], o)[t] =
                    Using([map EXCEPT ![o.name] = o], t)
<1> DEFINE old == map[o.name]
           mid == RemoveFromTemplateIndex(index, old)
           new == [map EXCEPT ![o.name] = o]
<1>1. o.name \in Name /\ o.ref \in Template \cup {NONE}
  BY DEF VSObject, Object
<1>2. /\ mid \in [Template -> SUBSET VSObject]
      /\ \A t \in Template : mid[t] = Using(map, t) \ {old}
  BY <1>1, RemoveFromTemplateExact, SMT
<1>3. \A t \in Template :
        /\ o.ref = t => Using(new, t) = (Using(map, t) \ {old}) \cup {o}
        /\ o.ref # t => Using(new, t) = Using(map, t) \ {old}
  <2>1. NONE \notin Object(Template)
    BY NoneAssumption DEF Object
  <2>2. StoredIn(new) = (StoredIn(map) \ {old}) \cup {o}
    BY <2>1, StoredAfter, SMT DEF VSObject
  <2> QED BY <2>2 DEF Using
<1>4. \A t \in Template : \A e \in mid[t] : UidOf(e) # UidOf(o)
  <2>1. \A e \in StoredIn(map) : e # old => e.name # o.name
    BY <1>1, SMT DEF StoredIn, IsStore
  <2> QED BY <2>1, <1>2 DEF Using, UidOf
<1>5. MoveInTemplateIndex(index, map[o.name], o) = UpdateTemplateIndex(mid, o)
  BY DEF MoveInTemplateIndex
<1>6. SUFFICES /\ UpdateTemplateIndex(mid, o) \in [Template -> SUBSET VSObject]
               /\ \A t \in Template : UpdateTemplateIndex(mid, o)[t] = Using(new, t)
  BY <1>5
<1> HIDE DEF mid, new
<1>7. CASE o.ref = NONE
  <2>1. UpdateTemplateIndex(mid, o) = mid
    BY <1>7 DEF UpdateTemplateIndex
  <2>2. \A t \in Template : o.ref # t
    BY <1>7, NoneAssumption
  <2> QED BY <2>1, <2>2, <1>2, <1>3
<1>8. CASE o.ref # NONE
  <2>1. UpdateTemplateIndex(mid, o) = [mid EXCEPT ![o.ref] = @ \cup {o}]
    BY <1>1, <1>4, <1>8 DEF UpdateTemplateIndex
  <2>2. UpdateTemplateIndex(mid, o) \in [Template -> SUBSET VSObject]
    BY <2>1, <1>1, <1>2, <1>8, SMT
  <2>3. ASSUME NEW t \in Template
        PROVE  UpdateTemplateIndex(mid, o)[t] = Using(new, t)
    <3>1. CASE t = o.ref
      BY <3>1, <2>1, <1>2, <1>3
    <3>2. CASE t # o.ref
      BY <3>2, <2>1, <1>2, <1>3
    <3> QED BY <3>1, <3>2
  <2> QED BY <2>2, <2>3
<1> QED BY <1>7, <1>8

-----------------------------------------------------------------------------
(* The actions.                                                            *)

(* No kind of object is confused with a missing entry.                     *)
LEMMA NoneIsNoObject ==
    NONE \notin VSObject /\ NONE \notin ClusterObject /\ NONE \notin OtherObject
BY NoneAssumption DEF VSObject, ClusterObject, OtherObject, Object

(* The initial maps and indices agree: FillFromKubernetes.                 *)
LEMMA InitInv == Init => Inv
<1> SUFFICES ASSUME Init PROVE Inv
  OBVIOUS
<1>1. /\ IsStore(virtualServices, VSObject)
      /\ IsStore(clusters, ClusterObject)
      /\ IsStore(others, OtherObject)
  BY DEF Init, FillOthers, IsStore
<1>2. /\ ByUID(virtualServices) \in [Uid -> VSObject \cup {NONE}]
      /\ ByUID(clusters) \in [Uid -> ClusterObject \cup {NONE}]
      /\ ByUID(others) \in [Uid -> OtherObject \cup {NONE}]
  BY <1>1, ByUIDTyped DEF VSObject, ClusterObject, OtherObject
<1>3. StoredIn(virtualServices) \subseteq VSObject
  BY <1>1 DEF StoredIn, IsStore
<1>4. TypeOK
  BY <1>1, <1>2, <1>3 DEF Init, FillOthers, TypeOK, Collision
<1>5. UidIndexExact /\ TemplateIndexExact /\ CollisionNoticed
  BY DEF Init, FillOthers, UidIndexExact, TemplateIndexExact, CollisionNoticed
<1>6. SpecIndexSound
  BY DEF Init, SpecIndexSound
<1>7. SpecIndexComplete
  <2> SUFFICES ASSUME ~Collision(clusters), NEW o \in StoredIn(clusters), o.ref # NONE
               PROVE  specClusters[o.ref] = o
    BY DEF Init, SpecIndexComplete
  <2>1. o.ref \in SpecName
    BY <1>1, SMT DEF StoredIn, IsStore, ClusterObject, Object
  <2>2. \A c \in StoredIn(clusters) : c.ref = o.ref => c = o
    BY DEF Collision, StoredIn
  <2> QED BY <2>1, <2>2 DEF Init
<1> QED BY <1>4, <1>5, <1>6, <1>7 DEF Inv

(* SetVirtualService keeps the VirtualService indices exact.               *)
LEMMA SetVirtualServiceInv ==
    ASSUME Inv, NEW o \in VSObject, SetVirtualService(o)
    PROVE  Inv'
<1>1. /\ IsStore(virtualServices, VSObject)
      /\ uidToVS = ByUID(virtualServices)
      /\ templateToVS \in [Template -> SUBSET VSObject]
      /\ \A t \in Template : templateToVS[t] = Using(virtualServices, t)
  BY DEF Inv, TypeOK, UidIndexExact, TemplateIndexExact, Using
<1>2. IsStore(virtualServices', VSObject)
  BY <1>1, StoreTyped DEF SetVirtualService, VSObject
<1>3. uidToVS' = ByUID(virtualServices')
  BY <1>1, SetUIDExact, NoneIsNoObject DEF SetVirtualService, VSObject
<1>4. uidToVS' \in [Uid -> VSObject \cup {NONE}]
  BY <1>2, <1>3, ByUIDTyped DEF VSObject
<1>5. /\ templateToVS' \in [Template -> SUBSET VSObject]
      /\ \A t \in Template : templateToVS'[t] = Using(virtualServices', t)
  <2>1. /\ templateToVS' = MoveInTemplateIndex(templateToVS, virtualServices[o.name], o)
        /\ virtualServices' = [virtualServices EXCEPT ![o.name] = o]
    BY DEF SetVirtualService
  <2>2. /\ MoveInTemplateIndex(templateToVS, virtualServices[o.name], o)
                \in [Template -> SUBSET VSObject]
        /\ \A t \in Template :
            MoveInTemplateIndex(templateToVS, virtualServices[o.name], o)[t] =
                Using([virtualServices EXCEPT ![o.name] = o], t)
    BY <1>1, MoveInTemplateExact, SMT
  <2> QED BY <2>1, <2>2
<1>6. UNCHANGED <<clusters, uidToCluster, specClusters, others, otherByUID, collided>>
  BY DEF SetVirtualService, clusterVars, otherVars
<1>7. TypeOK'
  BY <1>2, <1>4, <1>5, <1>6 DEF Inv, TypeOK
<1>8. UidIndexExact'
  BY <1>3, <1>6 DEF Inv, UidIndexExact
<1>9. TemplateIndexExact'
  BY <1>5 DEF TemplateIndexExact, Using
<1>10. SpecIndexSound' /\ CollisionNoticed' /\ SpecIndexComplete'
  BY <1>6 DEF Inv, SpecIndexSound, CollisionNoticed, SpecIndexComplete
<1> QED BY <1>7, <1>8, <1>9, <1>10 DEF Inv

(* So does DeleteVirtualService.                                           *)
LEMMA DeleteVirtualServiceInv ==
    ASSUME Inv, NEW n \in Name, DeleteVirtualService(n)
    PROVE  Inv'
<1>1. /\ IsStore(virtualServices, VSObject)
      /\ uidToVS = ByUID(virtualServices)
      /\ templateToVS \in [Template -> SUBSET VSObject]
      /\ \A t \in Template : templateToVS[t] = Using(virtualServices, t)
  BY DEF Inv, TypeOK, UidIndexExact, TemplateIndexExact, Using
<1>2. IsStore(virtualServices', VSObject)
  BY <1>1, StoreTyped DEF DeleteVirtualService, VSObject
<1>3. uidToVS' = ByUID(virtualServices')
  BY <1>1, DropUIDExact, NoneIsNoObject DEF DeleteVirtualService, VSObject
<1>4. uidToVS' \in [Uid -> VSObject \cup {NONE}]
  BY <1>2, <1>3, ByUIDTyped DEF VSObject
<1>5. /\ templateToVS' \in [Template -> SUBSET VSObject]
      /\ \A t \in Template :
            templateToVS'[t] = Using(virtualServices, t) \ {virtualServices[n]}
  <2>1. templateToVS' = RemoveFromTemplateIndex(templateToVS, virtualServices[n])
    BY DEF DeleteVirtualService
  <2> QED BY <1>1, <2>1, RemoveFromTemplateExact, SMT
<1>6. StoredIn(virtualServices') = StoredIn(virtualServices) \ {virtualServices[n]}
  BY <1>1, StoredAfter, NoneIsNoObject DEF DeleteVirtualService, VSObject
<1>7. UNCHANGED <<clusters, uidToCluster, specClusters, others, otherByUID, collided>>
  BY DEF DeleteVirtualService, clusterVars, otherVars
<1>8. TypeOK'
  BY <1>2, <1>4, <1>5, <1>7 DEF Inv, TypeOK
<1>9. UidIndexExact'
  BY <1>3, <1>7 DEF Inv, UidIndexExact
<1>10. TemplateIndexExact'
  BY <1>5, <1>6, SMT DEF TemplateIndexExact, Using
<1>11. SpecIndexSound' /\ CollisionNoticed' /\ SpecIndexComplete'
  BY <1>7 DEF Inv, SpecIndexSound, CollisionNoticed, SpecIndexComplete
<1> QED BY <1>8, <1>9, <1>10, <1>11 DEF Inv

(* SetCluster keeps the index by spec name sound, and complete while spec  *)
(* names are distinct.                                                     *)
LEMMA SetClusterInv ==
    ASSUME Inv, NEW o \in ClusterObject, SetCluster(o)
    PROVE  Inv'
<1> DEFINE old == clusters[o.name]
<1>1. /\ IsStore(clusters, ClusterObject)
      /\ uidToCluster = ByUID(clusters)
      /\ specClusters \in [SpecName -> ClusterObject \cup {NONE}]
  BY DEF Inv, TypeOK, UidIndexExact
<1>2. /\ clusters' = [clusters EXCEPT ![o.name] = o]
      /\ uidToCluster' = SetUID(uidToCluster, old, o)
      /\ specClusters' = SetSpec(DropSpec(specClusters, old), o)
      /\ collided' = (collided \/ Collision(clusters'))
      /\ UNCHANGED <<virtualServices, uidToVS, templateToVS, others, otherByUID>>
  BY DEF SetCluster, vsVars, otherVars
<1>3. IsStore(clusters', ClusterObject)
  BY <1>1, <1>2, StoreTyped DEF ClusterObject
<1>4. uidToCluster' = ByUID(clusters')
  BY <1>1, <1>2, SetUIDExact, NoneIsNoObject DEF ClusterObject
<1>5. uidToCluster' \in [Uid -> ClusterObject \cup {NONE}]
  BY <1>3, <1>4, ByUIDTyped DEF ClusterObject
<1>6. StoredIn(clusters') = (StoredIn(clusters) \ {old}) \cup {o}
  <2>1. /\ NONE \notin Object(SpecName) /\ o \in Object(SpecName)
        /\ IsStore(clusters, Object(SpecName))
    BY <1>1, NoneIsNoObject DEF ClusterObject
  <2>2. StoredIn([clusters EXCEPT ![o.name] = o]) = (StoredIn(clusters) \ {old}) \cup {o}
    BY <2>1, StoredAfter, SMT
  <2> QED BY <2>2, <1>2
<1>7. /\ o.name \in Name /\ o.ref \in SpecName \cup {NONE} /\ o # NONE
      /\ old # NONE => old.ref \in SpecName \cup {NONE} /\ old \in StoredIn(clusters)
  BY <1>1, NoneIsNoObject DEF ClusterObject, Object, IsStore, StoredIn
<1>8. specClusters' \in [SpecName -> ClusterObject \cup {NONE}]
  BY <1>1, <1>2, <1>7 DEF SetSpec, DropSpec
<1>9. \A s \in SpecName : specClusters'[s] =
        IF s = o.ref THEN o
        ELSE IF old # NONE /\ s = old.ref THEN NONE ELSE specClusters[s]
  <2> DEFINE mid == DropSpec(specClusters, old)
  <2>1. /\ mid \in [SpecName -> ClusterObject \cup {NONE}]
        /\ \A s \in SpecName : mid[s] =
            IF old # NONE /\ s = old.ref THEN NONE ELSE specClusters[s]
    BY <1>1, <1>7, NoneAssumption DEF DropSpec
  <2>2. specClusters' = SetSpec(mid, o)
    BY <1>2
  <2> HIDE DEF mid
  <2> QED BY <2>1, <2>2, <1>7, NoneAssumption DEF SetSpec
<1>10. SpecIndexSound'
  <2> SUFFICES ASSUME NEW s \in SpecName, specClusters'[s] # NONE
               PROVE  specClusters'[s] \in StoredIn(clusters') /\ specClusters'[s].ref = s
    BY DEF SpecIndexSound
  <2>1. CASE s = o.ref
    BY <2>1, <1>6, <1>9
  <2>2. CASE s # o.ref
    <3>1. specClusters'[s] = specClusters[s] /\ ~(old # NONE /\ s = old.ref)
      BY <2>2, <1>9
    <3>2. specClusters[s] \in StoredIn(clusters) /\ specClusters[s].ref = s
      BY <3>1 DEF Inv, SpecIndexSound
    <3> QED BY <3>1, <3>2, <1>6 DEF StoredIn
  <2> QED BY <2>1, <2>2
<1>11. CollisionNoticed'
  BY <1>2 DEF CollisionNoticed
<1>12. SpecIndexComplete'
  <2> SUFFICES ASSUME ~collided', NEW c \in StoredIn(clusters'), c.ref # NONE
               PROVE  specClusters'[c.ref] = c
    BY DEF SpecIndexComplete
  <2>1. ~collided /\ ~Collision(clusters')
    BY <1>2
  <2>2. c.ref \in SpecName
    BY <1>3, SMT DEF StoredIn, IsStore, ClusterObject, Object
  <2>3. CASE c = o
    BY <2>2, <2>3, <1>9
  <2>4. CASE c # o
    <3>1. c \in StoredIn(clusters) /\ c # old
      BY <2>4, <1>6
    <3>2. specClusters[c.ref] = c
      BY <3>1, <2>1 DEF Inv, SpecIndexComplete
    <3>3. c.ref # o.ref
      <4>1. PICK m \in Name : clusters'[m] = c
        BY DEF StoredIn
      <4>2. clusters'[o.name] = o /\ m # o.name
        BY <4>1, <2>4, <1>1, <1>2, <1>7 DEF IsStore
      <4> QED BY <4>1, <4>2, <2>1, <1>7 DEF Collision, StoredIn
    <3>4. old # NONE => c.ref # old.ref
      <4>1. PICK m \in Name : clusters[m] = c
        BY <3>1 DEF StoredIn
      <4>2. ~Collision(clusters)
        BY <2>1 DEF Inv, CollisionNoticed
      <4> QED BY <4>1, <4>2, <3>1, <1>7 DEF Collision, StoredIn
    <3> QED BY <3>2, <3>3, <3>4, <2>2, <1>9
  <2> QED BY <2>3, <2>4
<1>13. TypeOK'
  BY <1>2, <1>3, <1>5, <1>8 DEF Inv, TypeOK, Collision
<1>14. UidIndexExact' /\ TemplateIndexExact'
  BY <1>2, <1>4 DEF Inv, UidIndexExact, TemplateIndexExact
<1> QED BY <1>10, <1>11, <1>12, <1>13, <1>14 DEF Inv

(* DeleteCluster takes the entry of the deleted cluster's spec name out.   *)
LEMMA DeleteClusterInv ==
    ASSUME Inv, NEW n \in Name, DeleteCluster(n)
    PROVE  Inv'
<1> DEFINE old == clusters[n]
<1>1. /\ IsStore(clusters, ClusterObject)
      /\ uidToCluster = ByUID(clusters)
      /\ specClusters \in [SpecName -> ClusterObject \cup {NONE}]
  BY DEF Inv, TypeOK, UidIndexExact
<1>2. /\ old # NONE
      /\ clusters' = [clusters EXCEPT ![n] = NONE]
      /\ uidToCluster' = DropUID(uidToCluster, old)
      /\ specClusters' = DropSpec(specClusters, old)
      /\ collided' = collided
      /\ UNCHANGED <<virtualServices, uidToVS, templateToVS, others, otherByUID>>
  BY DEF DeleteCluster, vsVars, otherVars
<1>3. IsStore(clusters', ClusterObject)
  BY <1>1, <1>2, StoreTyped DEF ClusterObject
<1>4. uidToCluster' = ByUID(clusters')
  BY <1>1, <1>2, DropUIDExact, NoneIsNoObject DEF ClusterObject
<1>5. uidToCluster' \in [Uid -> ClusterObject \cup {NONE}]
  BY <1>3, <1>4, ByUIDTyped DEF ClusterObject
<1>6. StoredIn(clusters') = StoredIn(clusters) \ {old}
  BY <1>1, <1>2, StoredAfter, NoneIsNoObject DEF ClusterObject
<1>7. old.ref \in SpecName \cup {NONE} /\ old \in StoredIn(clusters)
  BY <1>1, <1>2 DEF ClusterObject, Object, IsStore, StoredIn
<1>8. /\ specClusters' \in [SpecName -> ClusterObject \cup {NONE}]
      /\ \A s \in SpecName : specClusters'[s] =
            IF s = old.ref THEN NONE ELSE specClusters[s]
  BY <1>1, <1>2, <1>7, NoneAssumption DEF DropSpec
<1>9. SpecIndexSound'
  <2> SUFFICES ASSUME NEW s \in SpecName, specClusters'[s] # NONE
               PROVE  specClusters'[s] \in StoredIn(clusters') /\ specClusters'[s].ref = s
    BY DEF SpecIndexSound
  <2>1. specClusters'[s] = specClusters[s] /\ s # old.ref
    BY <1>8
  <2>2. specClusters[s] \in StoredIn(clusters) /\ specClusters[s].ref = s
    BY <2>1 DEF Inv, SpecIndexSound
  <2> QED BY <2>1, <2>2, <1>6
<1>10. CollisionNoticed'
  BY <1>2 DEF Inv, CollisionNoticed, Collision, TypeOK, IsStore
<1>11. SpecIndexComplete'
  <2> SUFFICES ASSUME ~collided', NEW c \in StoredIn(clusters'), c.ref # NONE
               PROVE  specClusters'[c.ref] = c
    BY DEF SpecIndexComplete
  <2>1. ~collided /\ ~Collision(clusters)
    BY <1>2 DEF Inv, CollisionNoticed
  <2>2. c \in StoredIn(clusters) /\ c # old
    BY <1>6
  <2>3. c.ref \in SpecName
    BY <2>2, <1>1, SMT DEF StoredIn, IsStore, ClusterObject, Object
  <2>4. specClusters[c.ref] = c
    BY <2>1, <2>2 DEF Inv, SpecIndexComplete
  <2>5. c.ref # old.ref
    BY <2>1, <2>2, <1>2 DEF Collision, StoredIn
  <2> QED BY <2>3, <2>4, <2>5, <1>8
<1>12. TypeOK'
  BY <1>2, <1>3, <1>5, <1>8 DEF Inv, TypeOK
<1>13. UidIndexExact' /\ TemplateIndexExact'
  BY <1>2, <1>4 DEF Inv, UidIndexExact, TemplateIndexExact
<1> QED BY <1>9, <1>10, <1>11, <1>12, <1>13 DEF Inv

(* SetX and DeleteX of the other kinds keep their index by UID exact.      *)
LEMMA OtherInv ==
    ASSUME Inv, \/ \E o \in OtherObject : SetOther(o)
                \/ \E n \in Name : DeleteOther(n)
    PROVE  Inv'
<1>1. IsStore(others, OtherObject) /\ otherByUID = ByUID(others)
  BY DEF Inv, TypeOK, UidIndexExact
<1>2. IsStore(others', OtherObject) /\ otherByUID' = ByUID(others')
  <2>1. ASSUME NEW o \in OtherObject, SetOther(o)
        PROVE  IsStore(others', OtherObject) /\ otherByUID' = ByUID(others')
    BY <2>1, <1>1, StoreTyped, SetUIDExact, NoneIsNoObject DEF SetOther, OtherObject
  <2>2. ASSUME NEW n \in Name, DeleteOther(n)
        PROVE  IsStore(others', OtherObject) /\ otherByUID' = ByUID(others')
    BY <2>2, <1>1, StoreTyped, DropUIDExact, NoneIsNoObject DEF DeleteOther, OtherObject
  <2> QED BY <2>1, <2>2
<1>3. otherByUID' \in [Uid -> OtherObject \cup {NONE}]
  BY <1>2, ByUIDTyped DEF OtherObject
<1>4. UNCHANGED <<virtualServices, uidToVS, templateToVS, clusters, uidToCluster,
                  specClusters, collided>>
  BY DEF SetOther, DeleteOther, vsVars, clusterVars
<1>5. TypeOK' /\ UidIndexExact'
  BY <1>2, <1>3, <1>4 DEF Inv, TypeOK, UidIndexExact
<1>6. TemplateIndexExact' /\ SpecIndexSound' /\ CollisionNoticed' /\ SpecIndexComplete'
  BY <1>4 DEF Inv, TemplateIndexExact, SpecIndexSound, CollisionNoticed, SpecIndexComplete
<1> QED BY <1>5, <1>6 DEF Inv

(* The invariant holds after any number of calls.                          *)
THEOREM StoreInvHolds == Spec => []Inv
<1>1. Inv /\ [Next]_vars => Inv'
  <2> SUFFICES ASSUME Inv, [Next]_vars PROVE Inv'
    OBVIOUS
  <2>1. CASE \E o \in VSObject : SetVirtualService(o)
    BY <2>1, SetVirtualServiceInv
  <2>2. CASE \E n \in Name : DeleteVirtualService(n)
    BY <2>2, DeleteVirtualServiceInv
  <2>3. CASE \E o \in ClusterObject : SetCluster(o)
    BY <2>3, SetClusterInv
  <2>4. CASE \E n \in Name : DeleteCluster(n)
    BY <2>4, DeleteClusterInv
  <2>5. CASE \/ \E o \in OtherObject : SetOther(o)
             \/ \E n \in Name : DeleteOther(n)
    BY <2>5, OtherInv
  <2>6. CASE UNCHANGED vars
    BY <2>6 DEF vars, vsVars, clusterVars, otherVars, Inv, TypeOK, UidIndexExact,
        TemplateIndexExact, SpecIndexSound, CollisionNoticed, SpecIndexComplete
  <2> QED BY <2>1, <2>2, <2>3, <2>4, <2>5, <2>6 DEF Next
<1> QED BY <1>1, InitInv, PTL DEF Spec

(* After any number of calls a lookup by UID finds the stored object that  *)
(* has it, GetVirtualServicesByTemplate the stored VirtualServices that    *)
(* use the template, and GetSpecCluster stored clusters only: all of them  *)
(* while no two have had the same name in their specs.                     *)
THEOREM LookupsExact == Spec => []IndicesExact
<1>1. Inv => IndicesExact
  BY DEF Inv, IndicesExact
<1> QED BY <1>1, StoreInvHolds, PTL

-----------------------------------------------------------------------------
(***************************************************************************)
(* NoGhosts and ListedAsConnected hold for any number of streams and nodes.*)
(* Inductive is that both of them hold entry by entry, together with the   *)
(* numbering: no open stream has a number above the count of its protocol, *)
(* so that a stream that opens takes an entry from a stream of the other   *)
(* protocol only.                                                          *)
(***************************************************************************)

IsMap(f) == f = [x \in DOMAIN f |-> f[x]]

Numbers ==
    /\ count \in [Protocol -> Nat]
    /\ IsMap(node) /\ IsMap(registry)
    /\ \A s \in DOMAIN node :
          \E p \in Protocol, i \in Nat : s = <<p, i>> /\ i <= count[p]
    /\ \A i \in DOMAIN registry :
          registry[i] = [node |-> registry[i].node, address |-> registry[i].address]

Owned == \A i \in DOMAIN registry : \E p \in Protocol : <<p, i>> \in DOMAIN node

Entered(p, i) ==
    /\ i \in DOMAIN registry
    /\ registry[i].node = node[<<p, i>>]
    /\ registry[i].address = IF p = "delta" THEN <<p, i>> ELSE NONE

Exclusive ==
    \A p \in Protocol, i \in Nat :
        /\ <<p, i>> \in DOMAIN node
        /\ i > count[Other(p)]
        /\ p = "delta" \/ node[<<p, i>>] # NONE
        => Entered(p, i)

(* Only delta streams bring an address.                                    *)
Unaddressed == \A i \in DOMAIN registry : i > count["delta"] => registry[i].address = NONE

StreamsInv == Numbers /\ Owned /\ Exclusive /\ Unaddressed

(* The maps after Drop.                                                    *)
LEMMA DropFacts ==
    ASSUME NEW f, NEW k
    PROVE  /\ IsMap(Drop(f, k))
           /\ DOMAIN Drop(f, k) = DOMAIN f \ {k}
           /\ \A x \in DOMAIN f : x # k => Drop(f, k)[x] = f[x]
  BY DEF Drop, Restrict, IsMap

(* The entry of a request: its node is written, its address kept.          *)
LEMMA UpdateFacts ==
    ASSUME NEW id, NEW n, Numbers, Update(id, Info(n, NONE))
    PROVE  /\ IsMap(registry')
           /\ DOMAIN registry' = DOMAIN registry \cup {id}
           /\ \A i \in DOMAIN registry : i # id => registry'[i] = registry[i]
           /\ registry'[id] = [node |-> n, address |-> IF id \in DOMAIN registry
                                                  THEN registry[id].address ELSE NONE]
  <1>1. CASE id \in DOMAIN registry
    <2>1. registry' = [registry EXCEPT ![id].node = n]
      BY <1>1 DEF Update, Info
    <2>2. registry[id] = [node |-> registry[id].node, address |-> registry[id].address]
      BY <1>1 DEF Numbers
    <2>3. IsMap(registry)
      BY DEF Numbers
    <2>4. [registry[id] EXCEPT !.node = n] = [node |-> n, address |-> registry[id].address]
      BY <2>2, SMT
    <2> QED BY <1>1, <2>1, <2>3, <2>4 DEF IsMap
  <1>2. CASE id \notin DOMAIN registry
    <2>1. registry' = Put(registry, id, [node |-> n, address |-> NONE])
      BY <1>2 DEF Update, Info
    <2> QED BY <1>2, <2>1 DEF Put, IsMap
  <1> QED BY <1>1, <1>2

(* At the start no stream is open and the registry is empty.               *)
LEMMA StreamsInitially == StreamsInit => StreamsInv
  <1> SUFFICES ASSUME StreamsInit PROVE StreamsInv
    OBVIOUS
  <1>1. DOMAIN node = {} /\ DOMAIN registry = {} /\ IsMap(node) /\ IsMap(registry)
    BY DEF StreamsInit, NewRegistry, IsMap
  <1>2. count \in [Protocol -> Nat]
    BY DEF StreamsInit
  <1> QED BY <1>1, <1>2 DEF StreamsInv, Numbers, Owned, Exclusive, Unaddressed

(* A stream that opens has a number above all others of its protocol.      *)
LEMMA OpenStep ==
    ASSUME NEW p \in Protocol, StreamsInv, Open(p),
           \/ p = "sotw" /\ UNCHANGED registry
           \/ /\ p = "delta"
              /\ SetEntry(count["delta"] + 1, Info(NONE, <<"delta", count["delta"] + 1>>))
    PROVE  StreamsInv'
  <1> DEFINE k == count[p] + 1
  <1> USE DEF StreamsInv
  <1>1. /\ IsMap(node') /\ DOMAIN node' = DOMAIN node \cup {<<p, k>>}
        /\ node'[<<p, k>>] = NONE
        /\ \A s \in DOMAIN node : s # <<p, k>> => node'[s] = node[s]
    <2>1. node' = Put(node, <<p, k>>, NONE)
      BY DEF Open
    <2> QED BY <2>1 DEF Put, IsMap
  <1>2. /\ count \in [Protocol -> Nat] /\ count' \in [Protocol -> Nat]
        /\ count'[p] = k /\ k \in Nat
        /\ \A q \in Protocol : q # p => count'[q] = count[q]
        /\ \A q \in Protocol : count[q] <= count'[q]
    BY SMT DEF Open, Numbers
  <1>3. <<p, k>> \notin DOMAIN node
    BY <1>2, SMT DEF Numbers
  <1>4. /\ IsMap(registry')
        /\ DOMAIN registry' = IF p = "delta" THEN DOMAIN registry \cup {k} ELSE DOMAIN registry
        /\ \A i \in DOMAIN registry : p = "sotw" \/ i # k => registry'[i] = registry[i]
        /\ p = "delta" => registry'[k] = [node |-> NONE, address |-> <<p, k>>]
    <2>1. CASE p = "sotw"
      BY <2>1 DEF Numbers
    <2>2. CASE p = "delta"
      <3>1. registry' = Put(registry, k, [node |-> NONE, address |-> <<p, k>>])
        BY <2>2 DEF SetEntry, Info
      <3> QED BY <2>2, <3>1 DEF Put, IsMap
    <2> QED BY <2>1, <2>2 DEF Protocol
  <1>5. Numbers'
    <2>1. \A s \in DOMAIN node' :
            \E q \in Protocol, i \in Nat : s = <<q, i>> /\ i <= count'[q]
      <3> SUFFICES ASSUME NEW s \in DOMAIN node'
                   PROVE  \E q \in Protocol, i \in Nat : s = <<q, i>> /\ i <= count'[q]
        OBVIOUS
      <3>1. CASE s = <<p, k>>
        BY <3>1, <1>2, SMT
      <3>2. CASE s \in DOMAIN node
        <4>1. PICK q \in Protocol, i \in Nat : s = <<q, i>> /\ i <= count[q]
          BY <3>2 DEF Numbers
        <4>2. i <= count'[q]
          BY <4>1, <1>2, SMT
        <4> QED BY <4>1, <4>2
      <3> QED BY <3>1, <3>2, <1>1
    <2>2. \A i \in DOMAIN registry' :
            registry'[i] = [node |-> registry'[i].node, address |-> registry'[i].address]
      BY <1>4 DEF Numbers, Protocol
    <2> QED BY <2>1, <2>2, <1>1, <1>2, <1>4 DEF Numbers
  <1>6. Owned'
    BY <1>1, <1>4 DEF Owned
  <1>7. Exclusive'
    <2> SUFFICES ASSUME NEW q \in Protocol, NEW i \in Nat,
                        <<q, i>> \in DOMAIN node', i > count'[Other(q)],
                        q = "delta" \/ node'[<<q, i>>] # NONE
                 PROVE  Entered(q, i)'
      BY DEF Exclusive
    <2>1. CASE <<q, i>> = <<p, k>>
      BY <2>1, <1>1, <1>4, SMT DEF Entered, Protocol
    <2>2. CASE <<q, i>> # <<p, k>>
      <3>1. <<q, i>> \in DOMAIN node /\ node'[<<q, i>>] = node[<<q, i>>]
        BY <2>2, <1>1
      <3>2. i <= count[q]
        BY <3>1 DEF Numbers
      <3>3. Other(q) \in Protocol /\ i > count[Other(q)] /\ i # k
        BY <1>2, <2>2, <3>2, SMT DEF Other, Protocol
      <3>4. Entered(q, i)
        BY <3>1, <3>3 DEF Exclusive
      <3> QED BY <1>4, <3>1, <3>3, <3>4 DEF Entered
    <2> QED BY <2>1, <2>2
  <1>8. Unaddressed'
    <2> SUFFICES ASSUME NEW i \in DOMAIN registry', i > count'["delta"]
                 PROVE  registry'[i].address = NONE
      BY DEF Unaddressed
    <2>1. \E q \in Protocol, j \in Nat : i = j /\ j <= count'[q]
      BY <1>5, <1>6 DEF Numbers, Owned
    <2>2. p = "delta" => i # k
      BY <1>2, <2>1, SMT
    <2>3. i \in DOMAIN registry /\ registry'[i] = registry[i] /\ i > count["delta"]
      BY <1>2, <1>4, <2>1, <2>2, SMT DEF Protocol
    <2> QED BY <2>3 DEF Unaddressed
  <1> QED BY <1>5, <1>6, <1>7, <1>8

(* A request writes the entry of its number, which is its own unless a     *)
(* stream of the other protocol has had that number.                       *)
LEMMA RequestStep ==
    ASSUME NEW p \in Protocol, NEW id \in Nat, NEW n, StreamsInv,
           Request(p, id, n), Update(id, Info(n, NONE))
    PROVE  StreamsInv'
  <1> USE DEF StreamsInv
  <1>1. /\ <<p, id>> \in DOMAIN node /\ IsMap(node')
        /\ DOMAIN node' = DOMAIN node /\ node'[<<p, id>>] = n
        /\ \A s \in DOMAIN node : s # <<p, id>> => node'[s] = node[s]
        /\ count' = count
    BY DEF Request, Numbers, IsMap
  <1>2. /\ IsMap(registry') /\ DOMAIN registry' = DOMAIN registry \cup {id}
        /\ \A i \in DOMAIN registry : i # id => registry'[i] = registry[i]
        /\ registry'[id] = [node |-> n, address |-> IF id \in DOMAIN registry
                                               THEN registry[id].address ELSE NONE]
    BY UpdateFacts
  <1>3. Numbers'
    BY <1>1, <1>2 DEF Numbers
  <1>4. Owned'
    BY <1>1, <1>2 DEF Owned
  <1>5. Exclusive'
    <2> SUFFICES ASSUME NEW q \in Protocol, NEW i \in Nat,
                        <<q, i>> \in DOMAIN node', i > count'[Other(q)],
                        q = "delta" \/ node'[<<q, i>>] # NONE
                 PROVE  Entered(q, i)'
      BY DEF Exclusive
    <2>0. i <= count[q] /\ i > count[Other(q)] /\ count \in [Protocol -> Nat]
      BY <1>1 DEF Numbers
    <2>1. CASE <<q, i>> = <<p, id>>
      <3>1. CASE q = "delta" \/ node[<<q, i>>] # NONE
        <4>1. Entered(q, i)
          BY <1>1, <2>0, <2>1, <3>1 DEF Exclusive
        <4> QED BY <4>1, <1>1, <1>2, <2>1, SMT DEF Entered
      <3>2. CASE q # "delta" /\ node[<<q, i>>] = NONE
        <4>1. id \in DOMAIN registry => registry[id].address = NONE
          BY <2>0, <2>1, <3>2 DEF Unaddressed, Other, Protocol
        <4> QED BY <4>1, <3>2, <1>1, <1>2, <2>1, SMT DEF Entered
      <3> QED BY <3>1, <3>2
    <2>2. CASE <<q, i>> # <<p, id>>
      <3>1. i # id
        <4> SUFFICES ASSUME i = id PROVE FALSE
          OBVIOUS
        <4>1. p = Other(q) /\ id <= count[p]
          BY <2>2, <1>1 DEF Numbers, Other, Protocol
        <4> QED BY <4>1, <2>0, SMT
      <3>2. Entered(q, i)
        BY <1>1, <2>0, <2>2 DEF Exclusive
      <3> QED BY <3>1, <3>2, <1>1, <1>2, <2>2 DEF Entered
    <2> QED BY <2>1, <2>2
  <1>6. Unaddressed'
    BY <1>1, <1>2, SMT DEF Unaddressed
  <1> QED BY <1>3, <1>4, <1>5, <1>6

(* A stream that closes takes the entry of its number with it.             *)
LEMMA CloseStep ==
    ASSUME NEW p \in Protocol, NEW id \in Nat, StreamsInv, Close(p, id), Delete(id)
    PROVE  StreamsInv'
  <1> USE DEF StreamsInv
  <1>1. /\ <<p, id>> \in DOMAIN node /\ IsMap(node')
        /\ DOMAIN node' = DOMAIN node \ {<<p, id>>}
        /\ \A s \in DOMAIN node : s # <<p, id>> => node'[s] = node[s]
        /\ count' = count
    BY DropFacts DEF Close
  <1>2. /\ IsMap(registry') /\ DOMAIN registry' = DOMAIN registry \ {id}
        /\ \A i \in DOMAIN registry : i # id => registry'[i] = registry[i]
    BY DropFacts DEF Delete
  <1>3. Numbers'
    BY <1>1, <1>2 DEF Numbers
  <1>4. Owned'
    BY <1>1, <1>2 DEF Owned
  <1>5. Exclusive'
    <2> SUFFICES ASSUME NEW q \in Protocol, NEW i \in Nat,
                        <<q, i>> \in DOMAIN node', i > count'[Other(q)],
                        q = "delta" \/ node'[<<q, i>>] # NONE
                 PROVE  Entered(q, i)'
      BY DEF Exclusive
    <2>1. <<q, i>> \in DOMAIN node /\ <<q, i>> # <<p, id>> /\ i > count[Other(q)]
      BY <1>1
    <2>2. i # id
      <3> SUFFICES ASSUME i = id PROVE FALSE
        OBVIOUS
      <3>1. p = Other(q) /\ id <= count[p] /\ count[p] \in Nat
        BY <2>1, <1>1, SMT DEF Numbers, Other, Protocol
      <3> QED BY <3>1, <2>1, SMT
    <2>3. Entered(q, i)
      BY <1>1, <2>1 DEF Exclusive
    <2> QED BY <1>1, <1>2, <2>1, <2>2, <2>3 DEF Entered
  <1>6. Unaddressed'
    BY <1>1, <1>2 DEF Unaddressed
  <1> QED BY <1>3, <1>4, <1>5, <1>6

(* Every callback keeps the registry equal to the streams that are open    *)
(* and have named a node.                                                  *)
LEMMA StreamsNextStep == StreamsInv /\ [StreamsNext]_streamsVars => StreamsInv'
  <1> SUFFICES ASSUME StreamsInv, [StreamsNext]_streamsVars PROVE StreamsInv'
    OBVIOUS
  <1>1. CASE OnStreamOpen
    BY <1>1, OpenStep DEF OnStreamOpen, Protocol
  <1>2. CASE OnDeltaStreamOpen
    BY <1>2, OpenStep DEF OnDeltaStreamOpen, Protocol
  <1>3. ASSUME NEW id \in 1..MaxStreams, NEW n \in NodeId,
               OnStreamRequest(id, n) \/ OnStreamDeltaRequest(id, n)
        PROVE  StreamsInv'
    BY <1>3, RequestStep, SMT DEF OnStreamRequest, OnStreamDeltaRequest, Protocol
  <1>4. ASSUME NEW id \in 1..MaxStreams, OnStreamClosed(id) \/ OnDeltaStreamClosed(id)
        PROVE  StreamsInv'
    BY <1>4, CloseStep, SMT DEF OnStreamClosed, OnDeltaStreamClosed, Protocol
  <1>5. CASE UNCHANGED streamsVars
    BY <1>5 DEF streamsVars, StreamsInv, Numbers, Owned, Exclusive, Unaddressed, Entered
  <1> QED BY <1>1, <1>2, <1>3, <1>4, <1>5 DEF StreamsNext

(* No client is listed without an open stream of its number, for any       *)
(* number of streams: every close callback deletes.                        *)
THEOREM GhostFree == StreamsSpec => []NoGhosts
  <1>1. StreamsInv => NoGhosts
    BY SMT DEF StreamsInv, Owned, NoGhosts, List
  <1> QED BY <1>1, StreamsInitially, StreamsNextStep, PTL DEF StreamsSpec

(* A stream whose number the other protocol has not reached is listed with *)
(* its own node and address, for any number of streams.                    *)
THEOREM Listing == StreamsSpec => []ListedAsConnected
  <1>1. StreamsInv => ListedAsConnected
    <2> SUFFICES ASSUME StreamsInv, NEW s \in DOMAIN node, s[2] > count[Other(s[1])],
                        s[1] = "delta" \/ node[s] # NONE
                 PROVE  [id      |-> s[2],
                         node    |-> node[s],
                         address |-> IF s[1] = "delta" THEN s ELSE NONE] \in List
      BY DEF ListedAsConnected
    <2>1. PICK p \in Protocol, i \in Nat : s = <<p, i>>
      BY SMT DEF StreamsInv, Numbers
    <2>2. Entered(p, i)
      BY <2>1 DEF StreamsInv, Exclusive
    <2> QED BY <2>1, <2>2 DEF Entered, List
  <1> QED BY <1>1, StreamsInitially, StreamsNextStep, PTL DEF StreamsSpec

(* Whatever the two servers call, and in whatever order, the registry      *)
(* lists open streams only, and those as they connected.                   *)
THEOREM RegistryExact == StreamsSpec => []RegistryFollowsStreams
BY GhostFree, Listing, PTL DEF RegistryFollowsStreams

-----------------------------------------------------------------------------
(***************************************************************************)
(* What rebuilds serve from the global cache of filters, for any contents, *)
(* times to live and lengths of builds.                                    *)
(***************************************************************************)

FilterBusy == [step : {"lookup", "build"}, view : FilterView, since : Nat]

FilterEntry == [value : FilterView, ts : Nat]

(* Times and views are what they should be; the updater builds from its    *)
(* store, and a build is no older than the bound.                          *)
FilterTyped ==
    /\ filterStore \in FilterView
    /\ filterClock \in Nat
    /\ policySince \in Nat /\ policySince <= filterClock
    /\ filterRun \in [FilterBuilds!Builder -> FilterBusy \cup {FilterBuilds!Idle}]
    /\ \A b \in FilterBuilds!Builder : filterRun[b] # FilterBuilds!Idle =>
        /\ filterRun[b].since <= filterClock
        /\ filterClock <= filterRun[b].since + BuildTime
    /\ filterRun["updater"] # FilterBuilds!Idle => filterRun["updater"].view = filterStore

(* A webhook whose policy is not the stored one began before it changed.   *)
WebhookView ==
    filterRun["webhook"] # FilterBuilds!Idle =>
        \/ filterRun["webhook"].view.policy = filterStore.policy
        \/ filterRun["webhook"].since <= policySince

(* An entry has the content of the filter its key has, and when its policy *)
(* is not the stored one, it was made no later than a build after that     *)
(* changed.                                                                *)
FilterEntries ==
    \A k \in DOMAIN filterCache :
        /\ filterCache[k] \in FilterEntry
        /\ filterCache[k].value.filter = k
        /\ filterCache[k].ts <= filterClock
        /\ \/ filterCache[k].value.policy = filterStore.policy
           \/ filterCache[k].ts <= policySince + BuildTime

FilterInv == FilterTyped /\ WebhookView /\ FilterEntries /\ FiltersCurrent

(* The builders, and what an idle one is not.                              *)
LEMMA FilterIdle ==
    /\ FilterBuilds!Builder = {"updater", "webhook"}
    /\ FilterBuilds!Idle \notin FilterBusy
    /\ FilterBuilds!Idle.step = "idle"
BY DEF FilterBuilds!Builder, FilterBuilds!Idle, FilterBusy

(* At the start nothing is cached and nobody builds.                       *)
LEMMA FilterInitInv == FilterInit => FilterInv
<1> SUFFICES ASSUME FilterInit PROVE FilterInv
  OBVIOUS
<1>1. /\ filterCache = [k \in {} |-> NONE]
      /\ filterRun = [b \in FilterBuilds!Builder |-> FilterBuilds!Idle]
      /\ filterOutcome = "none" /\ filterClock = 0 /\ policySince = 0
      /\ filterStore \in FilterView
  BY DEF FilterInit, FilterBuilds!Init, FilterBuilds!Cache!Empty
<1>2. FilterTyped /\ WebhookView
  BY <1>1, FilterIdle, SMT DEF FilterTyped, WebhookView
<1>3. FilterEntries
  BY <1>1 DEF FilterEntries
<1>4. FiltersCurrent
  BY <1>1 DEF FiltersCurrent, HttpFilterServed, PolicyStalenessBounded, FilterBuilds!Built
<1> QED BY <1>2, <1>3, <1>4 DEF FilterInv

(* What the end of a build leaves of the builders.                         *)
LEMMA FilterFinished ==
    ASSUME FilterTyped, WebhookView, NEW b \in FilterBuilds!Builder,
           filterRun' = [filterRun EXCEPT ![b] = FilterBuilds!Idle],
           UNCHANGED <<filterStore, filterClock, policySince>>
    PROVE  FilterTyped' /\ WebhookView'
BY FilterIdle DEF FilterTyped, WebhookView

(* A look-up that hits ends the build with an entry that is young enough.  *)
LEMMA FilterLookUpInv ==
    ASSUME FilterInv, NEW b \in FilterBuilds!Builder, FilterLookUp(b)
    PROVE  FilterInv'
<1> DEFINE key == FilterKey(filterRun[b].view)
<1> USE DEF FilterInv
<1>1. /\ filterRun[b].step = "lookup"
      /\ UNCHANGED <<filterStore, filterCache, filterClock, policySince>>
  BY DEF FilterLookUp, FilterBuilds!LookUp
<1>2. filterRun[b] \in FilterBusy /\ filterRun[b] # FilterBuilds!Idle
  BY <1>1, FilterIdle DEF FilterTyped
<1>3. FilterEntries'
  BY <1>1 DEF FilterEntries
<1>4. CASE FilterBuilds!Cache!Fresh(key)
  <2>1. /\ key \in DOMAIN filterCache /\ filterClock <= filterCache[key].ts + TTL
        /\ filterRun' = [filterRun EXCEPT ![b] = FilterBuilds!Idle]
        /\ IF b = "updater"
           THEN IF filterCache[key].value = NONE
                THEN filterOutcome' = "failed" /\ UNCHANGED filtersServed
                ELSE /\ filterOutcome' = "ok"
                     /\ filtersServed' = [result |-> filterCache[key].value, at |-> filterClock]
           ELSE UNCHANGED <<filtersServed, filterOutcome>>
    BY <1>4 DEF FilterLookUp, FilterBuilds!LookUp, FilterBuilds!Finish, FilterBuilds!Cache!Fresh
  <2>2. FilterTyped' /\ WebhookView'
    BY <1>1, <2>1, FilterFinished
  <2>3. ASSUME b = "updater" PROVE FiltersCurrent'
    <3>1. filterCache[key].value # NONE /\ filterCache[key] \in FilterEntry
      BY <2>1, FiltersAssumption DEF FilterEntries, FilterEntry
    <3>2. filtersServed' = [result |-> filterCache[key].value, at |-> filterClock]
      BY <2>1, <2>3, <3>1
    <3>3. key = filterStore.filter
      BY <1>2, <2>3 DEF FilterTyped, FilterKey
    <3>4. HttpFilterServed'
      BY <1>1, <2>1, <3>2, <3>3 DEF FilterEntries, HttpFilterServed
    <3>5. PolicyStalenessBounded'
      <4>1. /\ filterClock \in Nat /\ policySince \in Nat /\ filterCache[key].ts \in Nat
            /\ TTL \in Nat /\ BuildTime \in Nat
        BY <3>1, TimesAssumption DEF FilterTyped, FilterEntry
      <4>2. \/ filterCache[key].value.policy = filterStore.policy
            \/ filterCache[key].ts <= policySince + BuildTime
        BY <2>1 DEF FilterEntries
      <4> QED
        BY <1>1, <2>1, <3>2, <4>1, <4>2, SMT DEF PolicyStalenessBounded
    <3> QED BY <3>4, <3>5 DEF FiltersCurrent
  <2>4. ASSUME b # "updater" PROVE FiltersCurrent'
    BY <1>1, <2>1, <2>4, FilterIdle
    DEF FiltersCurrent, HttpFilterServed, PolicyStalenessBounded, FilterBuilds!Built, FilterTyped
  <2> QED BY <1>3, <2>2, <2>3, <2>4
<1>5. CASE ~FilterBuilds!Cache!Fresh(key)
  <2>1. /\ filterRun' = [filterRun EXCEPT ![b].step = "build"]
        /\ UNCHANGED <<filtersServed, filterOutcome>>
    BY <1>5 DEF FilterLookUp, FilterBuilds!LookUp
  <2>2. /\ filterRun'[b] \in FilterBusy
        /\ filterRun'[b].view = filterRun[b].view /\ filterRun'[b].since = filterRun[b].since
        /\ \A x \in FilterBuilds!Builder \ {b} : filterRun'[x] = filterRun[x]
        /\ DOMAIN filterRun' = FilterBuilds!Builder
        /\ filterRun' = [x \in FilterBuilds!Builder |-> filterRun'[x]]
    BY <1>2, <2>1 DEF FilterTyped, FilterBusy
  <2>3. FilterTyped' /\ WebhookView'
    <3>1. filterRun' \in [FilterBuilds!Builder -> FilterBusy \cup {FilterBuilds!Idle}]
      BY <2>2 DEF FilterTyped
    <3> QED BY <1>1, <1>2, <2>2, <3>1, FilterIdle DEF FilterTyped, WebhookView
  <2>4. FiltersCurrent'
    BY <1>1, <1>2, <2>1, <2>2, FilterIdle
    DEF FiltersCurrent, HttpFilterServed, PolicyStalenessBounded, FilterBuilds!Built, FilterTyped
  <2> QED BY <1>3, <2>3, <2>4
<1> QED BY <1>4, <1>5

(* A build stores what it has read; a webhook may store what changed while *)
(* it was building.                                                        *)
LEMMA FilterBuildInv ==
    ASSUME FilterInv, NEW b \in FilterBuilds!Builder, FilterBuild(b)
    PROVE  FilterInv'
<1> DEFINE view == filterRun[b].view
           key == FilterKey(view)
<1> USE DEF FilterInv
<1>1. /\ filterRun[b].step = "build"
      /\ filterRun' = [filterRun EXCEPT ![b] = FilterBuilds!Idle]
      /\ UNCHANGED <<filterStore, filterClock, policySince>>
  BY DEF FilterBuild, FilterBuilds!Build, FilterBuilds!Finish
<1>2. filterRun[b] \in FilterBusy /\ filterRun[b] # FilterBuilds!Idle /\ view \in FilterView
  BY <1>1, FilterIdle DEF FilterTyped, FilterBusy
<1>3. FilterTyped' /\ WebhookView'
  BY <1>1, FilterFinished
<1>4. CASE BuildFilters(view) = NONE
  <2>1. /\ UNCHANGED <<filterCache, filtersServed>>
        /\ IF b = "updater" THEN filterOutcome' = "failed" ELSE UNCHANGED filterOutcome
    BY <1>4 DEF FilterBuild, FilterBuilds!Build, FilterBuilds!Finish
  <2>2. FilterEntries'
    BY <1>1, <2>1 DEF FilterEntries
  <2>3. FiltersCurrent'
    BY <1>1, <2>1, FilterIdle
    DEF FiltersCurrent, HttpFilterServed, PolicyStalenessBounded, FilterBuilds!Built, FilterTyped
  <2> QED BY <1>3, <2>2, <2>3
<1>5. CASE BuildFilters(view) # NONE
  <2>1. BuildFilters(view) = view
    BY <1>5 DEF BuildFilters
  <2>2. view # NONE
    BY <1>2, FiltersAssumption
  <2>3. IF b = "updater"
        THEN filterOutcome' = "ok" /\ filtersServed' = [result |-> view, at |-> filterClock]
        ELSE UNCHANGED <<filtersServed, filterOutcome>>
    BY <2>1, <2>2 DEF FilterBuild, FilterBuilds!Build, FilterBuilds!Finish
  <2>4. FilterBuilds!Cache!Store(key, view)
    BY <2>1, <2>2 DEF FilterBuild, FilterBuilds!Build
  <2>5. PICK kept \in SUBSET (DOMAIN filterCache \ {key}) :
            filterCache' = [x \in kept \cup {key} |->
                IF x = key THEN [value |-> view, ts |-> filterClock] ELSE filterCache[x]]
    BY <2>4 DEF FilterBuilds!Cache!Store
  <2>6. FilterEntries'
    <3>1. \/ view.policy = filterStore.policy
          \/ filterClock <= policySince + BuildTime
      BY <1>2, FilterIdle, TimesAssumption, SMT DEF FilterTyped, WebhookView, FilterBusy
    <3>2. SUFFICES ASSUME NEW k \in kept \cup {key}
                   PROVE  /\ filterCache'[k] \in FilterEntry
                          /\ filterCache'[k].value.filter = k
                          /\ filterCache'[k].ts <= filterClock
                          /\ \/ filterCache'[k].value.policy = filterStore.policy
                             \/ filterCache'[k].ts <= policySince + BuildTime
      BY <1>1, <2>5 DEF FilterEntries
    <3>3. CASE k = key
      <4>1. filterCache'[k] = [value |-> view, ts |-> filterClock]
        BY <2>5, <3>3
      <4> QED BY <1>2, <3>1, <3>3, <4>1, SMT DEF FilterEntry, FilterKey, FilterTyped
    <3>4. CASE k # key
      <4>1. filterCache'[k] = filterCache[k] /\ k \in DOMAIN filterCache
        BY <2>5, <3>4
      <4> QED BY <4>1 DEF FilterEntries
    <3> QED BY <3>3, <3>4
  <2>7. FiltersCurrent'
    BY <1>1, <1>2, <2>3, FilterIdle, SMT
    DEF FiltersCurrent, HttpFilterServed, PolicyStalenessBounded, FilterBuilds!Built, FilterTyped
  <2> QED BY <1>3, <2>6, <2>7
<1> QED BY <1>4, <1>5

(* A change of the store begins a build of it by the updater.              *)
LEMMA FilterChangeInv ==
    ASSUME FilterInv, NEW st \in FilterView, FilterBuilds!Change(st),
           policySince' = IF st.policy = filterStore.policy THEN policySince ELSE filterClock
    PROVE  FilterInv'
<1> USE DEF FilterInv
<1> DEFINE busy == [step |-> "lookup", view |-> st, since |-> filterClock]
<1>1. /\ filterStore' = st /\ filterRun' = [filterRun EXCEPT !["updater"] = busy]
      /\ UNCHANGED <<filterCache, filtersServed, filterOutcome, filterClock>>
  BY DEF FilterBuilds!Change, FilterBuilds!Start
<1>2. busy \in FilterBusy /\ busy # FilterBuilds!Idle
  BY FilterIdle, SMT DEF FilterBusy, FilterTyped
<1> HIDE DEF busy
<1>3. /\ filterRun'["updater"] = busy /\ filterRun'["webhook"] = filterRun["webhook"]
      /\ filterRun' \in [FilterBuilds!Builder -> FilterBusy \cup {FilterBuilds!Idle}]
  BY <1>1, <1>2, FilterIdle DEF FilterTyped
<1>4. busy.view = st /\ busy.since = filterClock
  BY DEF busy
<1>5. FilterTyped'
  BY <1>1, <1>3, <1>4, FilterIdle, TimesAssumption, SMT DEF FilterTyped
<1>6. WebhookView'
  BY <1>1, <1>3, FilterIdle DEF FilterTyped, WebhookView
<1>7. FilterEntries'
  <2> SUFFICES ASSUME NEW k \in DOMAIN filterCache
               PROVE  \/ filterCache[k].value.policy = st.policy
                      \/ filterCache[k].ts <= policySince' + BuildTime
    BY <1>1 DEF FilterEntries
  <2> QED BY TimesAssumption, SMT DEF FilterEntries, FilterEntry, FilterTyped
<1>8. FiltersCurrent'
  BY <1>2, <1>3
  DEF FiltersCurrent, HttpFilterServed, PolicyStalenessBounded, FilterBuilds!Built
<1> QED BY <1>5, <1>6, <1>7, <1>8

(* A webhook begins with the store as it is.                               *)
LEMMA FilterDryBuildInv ==
    ASSUME FilterInv, FilterBuilds!DryBuild, UNCHANGED policySince
    PROVE  FilterInv'
<1> USE DEF FilterInv
<1> DEFINE busy == [step |-> "lookup", view |-> filterStore, since |-> filterClock]
<1>1. /\ filterRun' = [filterRun EXCEPT !["webhook"] = busy]
      /\ UNCHANGED <<filterStore, filterCache, filtersServed, filterOutcome, filterClock>>
  BY DEF FilterBuilds!DryBuild, FilterBuilds!Start
<1>2. busy \in FilterBusy /\ busy # FilterBuilds!Idle
  BY FilterIdle, SMT DEF FilterBusy, FilterTyped
<1> HIDE DEF busy
<1>3. /\ filterRun'["webhook"] = busy /\ filterRun'["updater"] = filterRun["updater"]
      /\ filterRun' \in [FilterBuilds!Builder -> FilterBusy \cup {FilterBuilds!Idle}]
  BY <1>1, <1>2, FilterIdle DEF FilterTyped
<1>4. busy.view = filterStore /\ busy.since = filterClock
  BY DEF busy
<1>5. FilterTyped'
  BY <1>1, <1>3, <1>4, FilterIdle, TimesAssumption, SMT DEF FilterTyped
<1>6. WebhookView' /\ FilterEntries'
  BY <1>1, <1>3, <1>4 DEF WebhookView, FilterEntries
<1>7. FiltersCurrent'
  BY <1>1, <1>3
  DEF FiltersCurrent, HttpFilterServed, PolicyStalenessBounded, FilterBuilds!Built
<1> QED BY <1>5, <1>6, <1>7

(* FilterInv is inductive.                                                 *)
LEMMA FilterNextInv == FilterInv /\ [FilterNext]_filterVars => FilterInv'
<1> SUFFICES ASSUME FilterInv, [FilterNext]_filterVars PROVE FilterInv'
  OBVIOUS
<1>0. filterStore \in FilterView
  BY DEF FilterInv, FilterTyped
<1>1. ASSUME NEW b \in FilterBuilds!Builder, FilterLookUp(b) \/ FilterBuild(b) PROVE FilterInv'
  BY <1>1, FilterLookUpInv, FilterBuildInv
<1>2. ASSUME NEW x \in Policies \cup {NONE}, ChangePolicy(x) PROVE FilterInv'
  <2> DEFINE st == [policy |-> x, filter |-> filterStore.filter]
  <2>1. st \in FilterView /\ st.policy # filterStore.policy
    BY <1>0, <1>2 DEF FilterView, ChangePolicy
  <2>2. FilterBuilds!Change(st) /\ policySince' = filterClock
    BY <1>2 DEF ChangePolicy
  <2> HIDE DEF st
  <2> QED BY <2>1, <2>2, FilterChangeInv
<1>3. ASSUME NEW x \in Filters \cup {NONE}, ChangeHTTPFilter(x) PROVE FilterInv'
  <2> DEFINE st == [policy |-> filterStore.policy, filter |-> x]
  <2>1. st \in FilterView /\ st.policy = filterStore.policy
    BY <1>0 DEF FilterView
  <2>2. FilterBuilds!Change(st) /\ policySince' = policySince
    BY <1>3 DEF ChangeHTTPFilter
  <2> HIDE DEF st
  <2> QED BY <2>1, <2>2, FilterChangeInv
<1>4. CASE RebuildAgain
  BY <1>0, <1>4, FilterChangeInv DEF RebuildAgain
<1>5. CASE FilterBuilds!DryBuild /\ UNCHANGED policySince
  BY <1>5, FilterDryBuildInv
<1>6. CASE FilterBuilds!Evict /\ UNCHANGED policySince
  <2>1. UNCHANGED <<filterStore, filterRun, filtersServed, filterOutcome, filterClock>>
    BY <1>6 DEF FilterBuilds!Evict
  <2>2. PICK kept \in SUBSET DOMAIN filterCache : filterCache' = [k \in kept |-> filterCache[k]]
    BY <1>6 DEF FilterBuilds!Evict, FilterBuilds!Cache!Forget, FilterBuilds!Cache!Restrict
  <2>3. FilterEntries'
    BY <1>6, <2>1, <2>2 DEF FilterInv, FilterEntries
  <2>4. FilterTyped' /\ WebhookView'
    BY <1>6, <2>1 DEF FilterInv, FilterTyped, WebhookView
  <2>5. FiltersCurrent'
    BY <1>6, <2>1
    DEF FilterInv, FiltersCurrent, HttpFilterServed, PolicyStalenessBounded, FilterBuilds!Built
  <2> QED BY <2>3, <2>4, <2>5 DEF FilterInv
<1>7. CASE FilterBuilds!Tick /\ UNCHANGED policySince
  <2>1. /\ UNCHANGED <<filterStore, filterCache, filterRun, filtersServed, filterOutcome>>
        /\ filterClock' = filterClock + 1
        /\ \A b \in FilterBuilds!Builder :
              filterRun[b] # FilterBuilds!Idle => filterClock < filterRun[b].since + BuildTime
    BY <1>7 DEF FilterBuilds!Tick
  <2>2. \A b \in FilterBuilds!Builder : filterRun[b] # FilterBuilds!Idle => filterRun[b].since \in Nat
    BY DEF FilterInv, FilterTyped, FilterBusy
  <2>3. FilterTyped'
    BY <1>7, <2>1, <2>2, TimesAssumption, SMT DEF FilterInv, FilterTyped
  <2>4. WebhookView'
    BY <1>7, <2>1 DEF FilterInv, WebhookView
  <2>5. FilterEntries'
    BY <1>7, <2>1, SMT DEF FilterInv, FilterEntries, FilterEntry, FilterTyped
  <2>6. FiltersCurrent'
    BY <1>7, <2>1
    DEF FilterInv, FiltersCurrent, HttpFilterServed, PolicyStalenessBounded, FilterBuilds!Built
  <2> QED BY <2>3, <2>4, <2>5, <2>6 DEF FilterInv
<1>8. CASE UNCHANGED filterVars
  <2>1. FilterTyped' /\ WebhookView' /\ FilterEntries'
    BY <1>8 DEF FilterInv, FilterTyped, WebhookView, FilterEntries, filterVars
  <2>2. FiltersCurrent'
    BY <1>8 DEF FilterInv, FiltersCurrent, HttpFilterServed, PolicyStalenessBounded,
                FilterBuilds!Built, filterVars
  <2> QED BY <2>1, <2>2 DEF FilterInv
<1> QED
  BY <1>1, <1>2, <1>3, <1>4, <1>5, <1>6, <1>7, <1>8 DEF FilterNext

(* For any contents, time to live and length of a build, a rebuild serves  *)
(* the stored HttpFilter, and filters with a former Policy no longer than  *)
(* the time to live and one build after the Policy changed.                *)
THEOREM FiltersServedCurrent == FilterSpec => []FiltersCurrent
<1>1. FilterInv => FiltersCurrent
  BY DEF FilterInv
<1> QED BY FilterInitInv, FilterNextInv, <1>1, PTL DEF FilterSpec

-----------------------------------------------------------------------------
(***************************************************************************)
(* What the answers of the read side hold, for any objects, policies,      *)
(* callers and requests: nothing that no policy granted, and everything    *)
(* that was there all the time and that every policy granted, however      *)
(* often the policies are reloaded and the store changes meanwhile.        *)
(***************************************************************************)

-----------------------------------------------------------------------------
(* A record with the fields of a request.                                  *)
IsRequest(r) == DOMAIN r = {"pc", "kind", "group", "subs", "items", "answer", "seen", "kept"}

(* The history a request under way keeps: the policy in force is among     *)
(* the ones seen, and what was there all the time still is.                *)
HistoryKept ==
    /\ Busy => policy \in req.seen /\ req.kept \subseteq store
    /\ req.kept \subseteq Objects

(* Which handler a request is in.                                          *)
InHandler ==
    /\ req.pc \in {"none", "read"} => req.answer = {}
    /\ req.pc = "authorize" => req.kind \notin {"get", "groups", "permissions"}
    /\ req.pc = "permissions" => req.kind = "permissions"
    /\ req.pc = "refs" => req.kind = "get"
    /\ auth /\ Busy => req.kind # "clusters"

(* What a list has not gone through yet is still among its items.          *)
StillListed ==
    req.pc = "authorize" => \A o \in req.kept : Wanted(o) /\ Unhindered(o) => o \in req.items \cup req.answer

(* What a Get has still to read is referred to by its virtual service.     *)
StillReferred ==
    req.pc = "refs" => \E v \in req.answer : v.kind = "virtualservices" /\ req.items \subseteq v.refs

QueriesInv ==
    /\ IsRequest(req)
    /\ store \subseteq Objects
    /\ HistoryKept
    /\ InHandler
    /\ AnswerGranted
    /\ StillListed
    /\ StillReferred
    /\ AnswerComplete

-----------------------------------------------------------------------------
(* The request q asks the same as r.                                       *)
SameAsked(r, q) == IsRequest(q) /\ q.kind = r.kind /\ q.group = r.group /\ q.subs = r.subs

(* The request after a step of its handler.                                *)
Continues(r, q, to, items, answer) ==
    /\ SameAsked(r, q)
    /\ q.seen = r.seen /\ q.kept = r.kept
    /\ q.pc = to /\ q.items = items /\ q.answer = answer

(* The updates of a request the handlers make.                             *)
LEMMA Updates ==
    ASSUME NEW r, IsRequest(r), NEW to, NEW items, NEW answer
    PROVE  /\ Continues(r, [r EXCEPT !.pc = to], to, r.items, r.answer)
           /\ Continues(r, [r EXCEPT !.pc = to, !.items = items], to, items, r.answer)
           /\ Continues(r, [r EXCEPT !.pc = to, !.answer = answer], to, r.items, answer)
           /\ Continues(r, [r EXCEPT !.pc = to, !.items = items, !.answer = answer], to, items, answer)
           /\ Continues(r, [r EXCEPT !.items = items, !.answer = answer], r.pc, items, answer)
BY SMT DEF IsRequest, Continues, SameAsked

(* The request after a step of others.                                     *)
Watched(r, w, p, s) ==
    /\ SameAsked(r, w)
    /\ w.seen = r.seen \cup {p} /\ w.kept = r.kept \cap s
    /\ w.pc = r.pc /\ w.items = r.items /\ w.answer = r.answer

(* What the steps of others do to a request.                               *)
LEMMA WitnessedFacts ==
    ASSUME NEW r, IsRequest(r), NEW p, NEW s
    PROVE  Watched(r, Witnessed(r, p, s), p, s)
BY SMT DEF IsRequest, Witnessed, SameAsked, Watched

(* The request as it begins and after it has ended.                        *)
LEMMA NoRequestFacts ==
    /\ IsRequest(NoRequest)
    /\ NoRequest.pc = "none" /\ NoRequest.answer = {} /\ NoRequest.kept = {}
BY SMT DEF IsRequest, NoRequest

(* A request that is received, and one that is refused.                    *)
Received(q, k, p, s) ==
    IsRequest(q) /\ q.pc = "read" /\ q.kind = k /\ q.answer = {} /\ q.seen = {p} /\ q.kept = s

Refused(q) == IsRequest(q) /\ q.pc = "error" /\ q.answer = {} /\ q.kept = {}

(* A request that is received.                                             *)
LEMMA ReceivedFacts ==
    ASSUME NEW k, NEW g, NEW u, NEW p, NEW s
    PROVE  Received([NoRequest EXCEPT !.pc = "read", !.kind = k, !.group = g, !.subs = u,
                                      !.seen = {p}, !.kept = s], k, p, s)
BY SMT DEF IsRequest, NoRequest, Received

(* A request that is refused.                                              *)
LEMMA RefusedFacts ==
    ASSUME NEW k, NEW u
    PROVE  Refused([NoRequest EXCEPT !.pc = "error", !.kind = k, !.subs = u])
BY SMT DEF IsRequest, NoRequest, Refused

(* What is granted depends on the request only through what is asked.      *)
LEMMA SameGranted ==
    ASSUME SameAsked(req, req')
    PROVE  \A p, i : GrantedBy(p, i)' = GrantedBy(p, i)
<1>1. \A i : DomainOf(i)' = DomainOf(i)
  BY DEF DomainOf, SameAsked
<1> QED BY <1>1 DEF GrantedBy, SameAsked

(* A handler that leaves the history alone leaves what it has to answer.   *)
LEMMA SameWanted ==
    ASSUME SameAsked(req, req'), req'.seen = req.seen, req'.kept = req.kept, auth' = auth
    PROVE  \A o : Wanted(o)' = Wanted(o) /\ Unhindered(o)' = Unhindered(o)
<1>1. \A o : Wanted(o)' = Wanted(o)
  BY DEF Wanted, SameAsked
<1>2. \A o : Unhindered(o)' = Unhindered(o)
  BY SameGranted DEF Unhindered
<1> QED BY <1>1, <1>2

(* The obligations of a step of a handler.                                 *)
RightPlace(to) ==
    /\ to \notin {"none", "read"}
    /\ to = "authorize" => req.kind \notin {"get", "groups", "permissions"}
    /\ to = "permissions" => req.kind = "permissions"
    /\ to = "refs" => req.kind = "get"

AddsGranted(answer) ==
    auth /\ req.kind # "get" => \A i \in answer \ req.answer : \E p \in PoliciesSeen(req.seen) : GrantedBy(p, i)

LosesNothing(to, items, answer) ==
    \A o \in req.kept : Wanted(o) /\ Unhindered(o) =>
        /\ to = "authorize" => o \in items \cup answer
        /\ to = "done" => o \in answer

Follows(to, items, answer) ==
    /\ to = "refs" => \E v \in answer : v.kind = "virtualservices" /\ items \subseteq v.refs
    /\ to = "panic" => \E v \in answer : v.kind = "virtualservices" /\ ~(v.refs \subseteq req.kept)

(* A step that meets them keeps the invariant.                             *)
LEMMA HandlerStep ==
    ASSUME QueriesInv, Busy, NEW r, NEW to, NEW items, NEW answer,
           Respond(r), Continues(req, r, to, items, answer),
           RightPlace(to), AddsGranted(answer), LosesNothing(to, items, answer), Follows(to, items, answer)
    PROVE  QueriesInv'
<1>1. /\ SameAsked(req, req') /\ req'.seen = req.seen /\ req'.kept = req.kept
      /\ req'.pc = to /\ req'.items = items /\ req'.answer = answer
  BY DEF Respond, Continues
<1>2. store' = store /\ policy' = policy /\ auth' = auth
  BY DEF Respond, configVars
<1>3. IsRequest(req)' /\ (store \subseteq Objects)'
  BY <1>1, <1>2 DEF QueriesInv, SameAsked, IsRequest
<1>4. HistoryKept'
  BY <1>1, <1>2 DEF QueriesInv, HistoryKept, Busy
<1>5. InHandler'
  BY <1>1, <1>2 DEF QueriesInv, InHandler, RightPlace, SameAsked, Busy
<1>6. AnswerGranted'
  <2>1. SUFFICES ASSUME auth, req.kind # "get", NEW i \in answer
                 PROVE  \E p \in PoliciesSeen(req.seen) : GrantedBy(p, i)
    <3>1. req'.kind = req.kind /\ PoliciesSeen(req.seen)' = PoliciesSeen(req.seen)
      BY <1>1 DEF SameAsked, PoliciesSeen
    <3> QED BY <1>1, <1>2, <3>1, SameGranted DEF AnswerGranted
  <2>2. CASE i \in req.answer
    BY <2>1, <2>2 DEF QueriesInv, AnswerGranted
  <2>3. CASE i \notin req.answer
    BY <2>1, <2>3 DEF AddsGranted
  <2> QED BY <2>2, <2>3
<1>7. StillListed'
  BY <1>1, <1>2, SameWanted DEF StillListed, LosesNothing
<1>8. StillReferred'
  BY <1>1 DEF StillReferred, Follows
<1>9. AnswerComplete'
  BY <1>1, <1>2, SameWanted DEF AnswerComplete, LosesNothing, Follows
<1> QED BY <1>3, <1>4, <1>5, <1>6, <1>7, <1>8, <1>9 DEF QueriesInv

(* Nothing the caller wants is left out where no object is asked for.      *)
LEMMA NothingWanted ==
    ASSUME QueriesInv, req.kind \in {"nodes", "groups", "permissions", "get"}
    PROVE  \A o \in req.kept : ~Wanted(o)
BY ObjectKinds DEF QueriesInv, HistoryKept, Wanted

(* The first read of a list.                                               *)
LEMMA ListStep ==
    ASSUME QueriesInv, NEW kind \in Grouped \cup {"templates", "policies", "clusters", "virtualservices"},
           NEW then \in {"authorize", "error"}, ListObjects(kind, then)
    PROVE  QueriesInv'
<1> DEFINE items == Listed(kind, req.group)
<1>1. req.pc = "read" /\ req.kind = kind /\ Busy
  BY DEF ListObjects, Busy
<1>2. Continues(req, [req EXCEPT !.pc = then, !.items = items], then, items, req.answer)
  BY Updates DEF QueriesInv
<1>3. Respond([req EXCEPT !.pc = then, !.items = items])
  BY DEF ListObjects
<1>4. RightPlace(then)
  BY <1>1 DEF RightPlace, Grouped
<1>5. AddsGranted(req.answer)
  BY DEF AddsGranted
<1>6. LosesNothing(then, items, req.answer)
  <2>1. SUFFICES ASSUME NEW o \in req.kept, Wanted(o)
                 PROVE  o \in items
    BY DEF LosesNothing
  <2>2. o \in store
    BY <1>1 DEF QueriesInv, HistoryKept
  <2> QED BY <1>1, <2>1, <2>2 DEF Wanted, Listed
<1>7. Follows(then, items, req.answer)
  BY DEF Follows
<1> HIDE DEF items
<1> QED BY <1>1, <1>2, <1>3, <1>4, <1>5, <1>6, <1>7, HandlerStep

(* ListNodes: its items are no objects.                                    *)
LEMMA ListNodesStep == ASSUME QueriesInv, ListNodes PROVE QueriesInv'
<1>1. req.pc = "read" /\ req.kind = "nodes" /\ Busy
  BY DEF ListNodes, Busy
<1>2. PICK items : Respond([req EXCEPT !.pc = "authorize", !.items = items])
  BY DEF ListNodes
<1>3. Continues(req, [req EXCEPT !.pc = "authorize", !.items = items], "authorize", items, req.answer)
  BY Updates DEF QueriesInv
<1>4. RightPlace("authorize") /\ AddsGranted(req.answer) /\ Follows("authorize", items, req.answer)
  BY <1>1 DEF RightPlace, AddsGranted, Follows
<1>5. LosesNothing("authorize", items, req.answer)
  BY <1>1, NothingWanted DEF LosesNothing
<1> QED BY <1>1, <1>2, <1>3, <1>4, <1>5, HandlerStep

(* AuthorizeItem: an item joins the answer when the policy of the moment   *)
(* grants it, and is left out only when it does not or is not wanted.      *)
LEMMA AuthorizeItemStep ==
    ASSUME QueriesInv, NEW item \in req.items, AuthorizeItem(item)
    PROVE  QueriesInv'
<1>1. /\ req.pc = "authorize" /\ Busy
      /\ req.kind \notin {"get", "groups", "permissions"}
      /\ auth => req.kind # "clusters"
      /\ policy \in req.seen /\ req.kept \subseteq store
  BY DEF AuthorizeItem, Busy, QueriesInv, InHandler, HistoryKept
<1>2. CASE auth /\ policy = NoModel
  <2>1. Respond([req EXCEPT !.pc = "error", !.items = {}, !.answer = {}])
    BY <1>2 DEF AuthorizeItem
  <2>2. Continues(req, [req EXCEPT !.pc = "error", !.items = {}, !.answer = {}], "error", {}, {})
    BY Updates DEF QueriesInv
  <2>3. RightPlace("error") /\ AddsGranted({}) /\ Follows("error", {}, {}) /\ LosesNothing("error", {}, {})
    BY DEF RightPlace, AddsGranted, Follows, LosesNothing
  <2> QED BY <1>1, <2>1, <2>2, <2>3, HandlerStep
<1>3. CASE ~(auth /\ policy = NoModel)
  <2> DEFINE passes == (req.kind = "clusters" \/ Authorize(DomainOf(item), item.name)) /\ Shown(item)
             items == req.items \ {item}
             answer == IF passes THEN req.answer \cup {item} ELSE req.answer
  <2>1. Respond([req EXCEPT !.items = items, !.answer = answer])
    BY <1>3 DEF AuthorizeItem
  <2>2. Continues(req, [req EXCEPT !.items = items, !.answer = answer], "authorize", items, answer)
    BY <1>1, Updates DEF QueriesInv
  <2>3. auth => (GrantedBy(policy, item) <=> Authorize(DomainOf(item), item.name))
    BY <1>1 DEF GrantedBy, Authorize
  <2>4. RightPlace("authorize") /\ Follows("authorize", items, answer)
    BY <1>1 DEF RightPlace, Follows
  <2>5. AddsGranted(answer)
    <3>1. SUFFICES ASSUME auth, passes
                   PROVE  \E p \in PoliciesSeen(req.seen) : GrantedBy(p, item)
      BY DEF AddsGranted
    <3>2. policy \in PoliciesSeen(req.seen)
      BY <1>1, <1>3, <3>1 DEF PoliciesSeen
    <3> QED BY <1>1, <2>3, <3>1, <3>2
  <2>6. LosesNothing("authorize", items, answer)
    <3>1. SUFFICES ASSUME NEW o \in req.kept, Wanted(o), Unhindered(o)
                   PROVE  o \in items \cup answer
      BY DEF LosesNothing
    <3>2. o \in req.items \cup req.answer
      BY <1>1, <3>1 DEF QueriesInv, StillListed
    <3>3. CASE o # item
      BY <3>2, <3>3
    <3>4. CASE o = item
      <4>1. auth => Authorize(DomainOf(item), item.name)
        BY <1>1, <2>3, <3>1, <3>4 DEF Unhindered
      <4>2. Authorize(DomainOf(item), item.name)
        BY <4>1 DEF Authorize
      <4>3. Shown(item)
        BY <1>1, <3>1, <3>4 DEF Wanted, Shown
      <4> QED BY <3>4, <4>2, <4>3
    <3> QED BY <3>3, <3>4
  <2> HIDE DEF items, answer
  <2> QED BY <1>1, <2>1, <2>2, <2>4, <2>5, <2>6, HandlerStep
<1> QED BY <1>2, <1>3

(* Answer, AnswerPermissions, AnswerGet: the end of a handler.             *)
LEMMA AnswerStep == ASSUME QueriesInv, Answer \/ AnswerPermissions \/ AnswerGet PROVE QueriesInv'
<1>1. /\ req.pc \in {"authorize", "permissions", "refs"} /\ req.items = {} /\ Busy
      /\ Respond([req EXCEPT !.pc = "done"])
  BY DEF Answer, AnswerPermissions, AnswerGet, Busy
<1>2. Continues(req, [req EXCEPT !.pc = "done"], "done", req.items, req.answer)
  BY Updates DEF QueriesInv
<1>3. RightPlace("done") /\ AddsGranted(req.answer) /\ Follows("done", req.items, req.answer)
  BY DEF RightPlace, AddsGranted, Follows
<1>4. LosesNothing("done", req.items, req.answer)
  <2>1. CASE req.pc = "authorize"
    BY <1>1, <2>1 DEF QueriesInv, StillListed, LosesNothing
  <2>2. CASE req.pc \in {"permissions", "refs"}
    BY <2>2, NothingWanted DEF QueriesInv, InHandler, LosesNothing
  <2> QED BY <1>1, <2>1, <2>2
<1> QED BY <1>1, <1>2, <1>3, <1>4, HandlerStep

(* The access groups of a caller are groups of its policy.                 *)
LEMMA GroupsGranted ==
    ASSUME auth, NEW p, NEW subs, NEW groups, NEW g \in GetAvailableAccessGroups(p, subs, groups)
    PROVE  \E s \in subs : GetDomainsForUser(p, s) \cap {g, "*"} # {}
<1>1. AvailableAccessGroups(p, subs) = {"*"} \/ g \in AvailableAccessGroups(p, subs)
  BY DEF GetAvailableAccessGroups
<1>2. CASE \E s \in subs : GetDomainsForUser(p, s) = {"*"}
  BY <1>2
<1>3. CASE ~\E s \in subs : GetDomainsForUser(p, s) = {"*"}
  <2>1. AvailableAccessGroups(p, subs) = UNION {GetDomainsForUser(p, s) : s \in subs}
    BY <1>3 DEF AvailableAccessGroups
  <2>2. "*" \in AvailableAccessGroups(p, subs) \/ g \in AvailableAccessGroups(p, subs)
    BY <1>1
  <2>3. PICK s \in subs : "*" \in GetDomainsForUser(p, s) \/ g \in GetDomainsForUser(p, s)
    BY <2>1, <2>2
  <2> QED BY <2>3
<1> QED BY <1>2, <1>3

(* ListAccessGroups, and the first half of ListPermissions.                *)
LEMMA ListAccessGroupsStep == ASSUME QueriesInv, ListAccessGroups PROVE QueriesInv'
<1>1. /\ req.pc = "read" /\ req.kind \in {"groups", "permissions"} /\ Busy
      /\ policy \in req.seen /\ req.answer = {}
  BY DEF ListAccessGroups, Busy, QueriesInv, HistoryKept, InHandler
<1>2. PICK groups :
         LET available == IF auth /\ policy = NoModel THEN {}
                          ELSE GetAvailableAccessGroups(policy, req.subs, groups)
         IN  IF req.kind = "groups"
             THEN Respond([req EXCEPT !.pc = "done",
                                      !.answer = {[kind |-> "groups", name |-> g, group |-> g] : g \in available}])
             ELSE Respond([req EXCEPT !.pc = "permissions", !.items = available])
  BY DEF ListAccessGroups
<1> DEFINE available == IF auth /\ policy = NoModel THEN {}
                        ELSE GetAvailableAccessGroups(policy, req.subs, groups)
           answer == {[kind |-> "groups", name |-> g, group |-> g] : g \in available}
<1>3. CASE req.kind = "groups"
  <2>1. Respond([req EXCEPT !.pc = "done", !.answer = answer])
    BY <1>2, <1>3
  <2>2. Continues(req, [req EXCEPT !.pc = "done", !.answer = answer], "done", req.items, answer)
    BY Updates DEF QueriesInv
  <2>3. RightPlace("done") /\ Follows("done", req.items, answer)
    BY DEF RightPlace, Follows
  <2>4. LosesNothing("done", req.items, answer)
    BY <1>3, NothingWanted DEF LosesNothing
  <2>5. AddsGranted(answer)
    <3>1. SUFFICES ASSUME auth, NEW i \in answer
                   PROVE  \E p \in PoliciesSeen(req.seen) : GrantedBy(p, i)
      BY DEF AddsGranted
    <3>2. PICK g \in available : i = [kind |-> "groups", name |-> g, group |-> g]
      BY <3>1
    <3>3. i.name = g
      BY <3>2
    <3>4. policy # NoModel /\ g \in GetAvailableAccessGroups(policy, req.subs, groups)
      BY <3>1, <3>2
    <3>5. \E s \in req.subs : GetDomainsForUser(policy, s) \cap {g, "*"} # {}
      BY <3>1, <3>4, GroupsGranted
    <3>6. GrantedBy(policy, i)
      BY <1>3, <3>3, <3>5 DEF GrantedBy
    <3> QED BY <1>1, <3>4, <3>6 DEF PoliciesSeen
  <2> HIDE DEF answer
  <2> QED BY <1>1, <2>1, <2>2, <2>3, <2>4, <2>5, HandlerStep
<1>4. CASE req.kind = "permissions"
  <2>1. Respond([req EXCEPT !.pc = "permissions", !.items = available])
    BY <1>2, <1>4
  <2>2. Continues(req, [req EXCEPT !.pc = "permissions", !.items = available], "permissions", available, req.answer)
    BY Updates DEF QueriesInv
  <2> HIDE DEF available
  <2>3. RightPlace("permissions") /\ AddsGranted(req.answer) /\ Follows("permissions", available, req.answer)
    BY <1>4 DEF RightPlace, AddsGranted, Follows
  <2>4. LosesNothing("permissions", available, req.answer)
    BY DEF LosesNothing
  <2> QED BY <1>1, <2>1, <2>2, <2>3, <2>4, HandlerStep
<1> QED BY <1>1, <1>3, <1>4

(* ListPermissions: a permission is a rule Enforce accepts.                *)
LEMMA ListPermissionsStep ==
    ASSUME QueriesInv, NEW group \in req.items, ListPermissions(group)
    PROVE  QueriesInv'
<1> DEFINE more == IF policy = NoModel THEN {}
                   ELSE UNION {GetPermissionsForUserInDomain(policy, s, group) : s \in req.subs}
           items == req.items \ {group}
           answer == req.answer \cup more
<1>1. /\ req.pc = "permissions" /\ req.kind = "permissions" /\ Busy
      /\ policy \in req.seen
  BY DEF ListPermissions, Busy, QueriesInv, HistoryKept, InHandler
<1>2. Respond([req EXCEPT !.items = items, !.answer = answer])
  BY DEF ListPermissions
<1>3. Continues(req, [req EXCEPT !.items = items, !.answer = answer], "permissions", items, answer)
  BY <1>1, Updates DEF QueriesInv
<1>4. RightPlace("permissions") /\ Follows("permissions", items, answer) /\ LosesNothing("permissions", items, answer)
  BY <1>1 DEF RightPlace, Follows, LosesNothing
<1>5. AddsGranted(answer)
  <2>1. SUFFICES ASSUME NEW i \in more
                 PROVE  \E p \in PoliciesSeen(req.seen) : GrantedBy(p, i)
    BY DEF AddsGranted
  <2>2. policy # NoModel
    BY <2>1
  <2>3. PICK s \in req.subs : i \in GetPermissionsForUserInDomain(policy, s, group)
    BY <2>1, <2>2
  <2>4. PICK r \in policy.rules : /\ r.dom \in {"*", group} /\ r.sub \in RolesFrom(policy, {s}, group)
                                  /\ i = [group |-> group, act |-> r.act, obj |-> r.obj]
    BY <2>3 DEF GetPermissionsForUserInDomain
  <2>5. i.group = group /\ i.act = r.act /\ i.obj = r.obj
    BY <2>4
  <2>6. \A o : Glob(o, i.obj) => Authorized(policy, req.subs, i.group, o, i.act)
    BY <2>4, <2>5 DEF Authorized, Enforce, Glob
  <2>7. GrantedBy(policy, i)
    BY <1>1, <2>6 DEF GrantedBy
  <2> QED BY <1>1, <2>2, <2>7 DEF PoliciesSeen
<1> HIDE DEF items, answer
<1> QED BY <1>1, <1>2, <1>3, <1>4, <1>5, HandlerStep

(* GetVirtualService: the virtual service and what it refers to.           *)
LEMMA GetStep == ASSUME QueriesInv, NEW v, GetVirtualService(v) PROVE QueriesInv'
<1>1. req.pc = "read" /\ req.kind = "get" /\ Busy /\ v.kind = "virtualservices"
  BY DEF GetVirtualService, Busy
<1>2. \A to, items, answer : AddsGranted(answer) /\ LosesNothing(to, items, answer)
  BY <1>1, NothingWanted DEF AddsGranted, LosesNothing
<1>3. CASE v \in store
  <2>1. Respond([req EXCEPT !.pc = "refs", !.items = v.refs, !.answer = {v}])
    BY <1>3 DEF GetVirtualService
  <2>2. Continues(req, [req EXCEPT !.pc = "refs", !.items = v.refs, !.answer = {v}], "refs", v.refs, {v})
    BY Updates DEF QueriesInv
  <2>3. RightPlace("refs") /\ Follows("refs", v.refs, {v})
    BY <1>1 DEF RightPlace, Follows
  <2> QED BY <1>1, <1>2, <2>1, <2>2, <2>3, HandlerStep
<1>4. CASE v \notin store
  <2>1. Respond([req EXCEPT !.pc = "error"])
    BY <1>4 DEF GetVirtualService
  <2>2. Continues(req, [req EXCEPT !.pc = "error"], "error", req.items, req.answer)
    BY Updates DEF QueriesInv
  <2>3. RightPlace("error") /\ Follows("error", req.items, req.answer)
    BY DEF RightPlace, Follows
  <2> QED BY <1>1, <1>2, <2>1, <2>2, <2>3, HandlerStep
<1> QED BY <1>3, <1>4

(* GetReference: an object that is missing now was not there all the time. *)
LEMMA GetReferenceStep ==
    ASSUME QueriesInv, NEW o \in req.items, GetReference(o)
    PROVE  QueriesInv'
<1>1. req.pc = "refs" /\ req.kind = "get" /\ Busy /\ req.kept \subseteq store
  BY DEF GetReference, Busy, QueriesInv, InHandler, HistoryKept
<1>2. PICK v \in req.answer : v.kind = "virtualservices" /\ req.items \subseteq v.refs
  BY <1>1 DEF QueriesInv, StillReferred
<1>3. \A to, items, answer : AddsGranted(answer) /\ LosesNothing(to, items, answer)
  BY <1>1, NothingWanted DEF AddsGranted, LosesNothing
<1>4. CASE o \in store
  <2> DEFINE items == req.items \ {o}
             answer == req.answer \cup {o}
  <2>1. Respond([req EXCEPT !.items = items, !.answer = answer])
    BY <1>4 DEF GetReference
  <2>2. Continues(req, [req EXCEPT !.items = items, !.answer = answer], "refs", items, answer)
    BY <1>1, Updates DEF QueriesInv
  <2>3. RightPlace("refs") /\ Follows("refs", items, answer)
    BY <1>1, <1>2 DEF RightPlace, Follows
  <2> HIDE DEF items, answer
  <2> QED BY <1>1, <1>3, <2>1, <2>2, <2>3, HandlerStep
<1>5. CASE o \notin store
  <2>1. Respond([req EXCEPT !.pc = "panic", !.items = {}])
    BY <1>5 DEF GetReference
  <2>2. Continues(req, [req EXCEPT !.pc = "panic", !.items = {}], "panic", {}, req.answer)
    BY Updates DEF QueriesInv
  <2>3. RightPlace("panic") /\ Follows("panic", {}, req.answer)
    BY <1>1, <1>2, <1>5 DEF RightPlace, Follows
  <2> QED BY <1>1, <1>3, <2>1, <2>2, <2>3, HandlerStep
<1> QED BY <1>4, <1>5

(* No step of a handler breaks the invariant.                              *)
LEMMA ServeStep == ASSUME QueriesInv, Serve PROVE QueriesInv'
<1>1. CASE \/ ListListeners \/ ListRoutes \/ ListHTTPFilters \/ ListAccessLogConfigs
           \/ ListVirtualServiceTemplates \/ ListPolicies \/ ListClusters
  BY <1>1, ListStep DEF Grouped, ListListeners, ListRoutes, ListHTTPFilters, ListAccessLogConfigs,
     ListVirtualServiceTemplates, ListPolicies, ListClusters
<1>2. CASE ListVirtualServices
  <2> DEFINE then == IF req.group = "" THEN "error" ELSE "authorize"
  <2>1. then \in {"authorize", "error"}
    OBVIOUS
  <2>2. ListObjects("virtualservices", then)
    BY <1>2 DEF ListVirtualServices
  <2> HIDE DEF then
  <2> QED BY <2>1, <2>2, ListStep
<1>3. CASE ListNodes
  BY <1>3, ListNodesStep
<1>4. CASE Answer \/ AnswerPermissions \/ AnswerGet
  BY <1>4, AnswerStep
<1>5. CASE ListAccessGroups
  BY <1>5, ListAccessGroupsStep
<1>6. CASE \E item \in req.items : AuthorizeItem(item) \/ ListPermissions(item) \/ GetReference(item)
  BY <1>6, AuthorizeItemStep, ListPermissionsStep, GetReferenceStep
<1>7. CASE \E v \in Objects : GetVirtualService(v)
  BY <1>7, GetStep
<1> QED BY <1>1, <1>2, <1>3, <1>4, <1>5, <1>6, <1>7 DEF Serve

-----------------------------------------------------------------------------
(* Whether callers are authenticated is settled at the start.              *)
LEMMA AuthConstant == ConfigNext => auth' = auth
BY DEF ConfigNext, Truncate, Write, SwapVolume, Boot, ReadConfig, New, NewEnforcer, RunGRPC, Watch,
   TakeEvent, Visit, EndLoop, ReadFile, Unmarshal, ReloadModel, ReloadPolicy

(* The steps of others: what an answer holds is still granted by a policy  *)
(* seen, and they only make less wanted and more hindered.                 *)
LEMMA HistoryStep ==
    ASSUME QueriesInv, (store \subseteq Objects)', auth' = auth,
           req' = IF Busy THEN Witnessed(req, policy', store') ELSE req
    PROVE  QueriesInv'
<1>1. CASE ~Busy
  <2>1. req' = req /\ SameAsked(req, req')
    BY <1>1 DEF QueriesInv, SameAsked
  <2>2. HistoryKept' /\ IsRequest(req)' /\ ~Busy'
    BY <1>1, <2>1 DEF QueriesInv, HistoryKept, Busy, IsRequest
  <2>3. InHandler' /\ StillListed' /\ StillReferred'
    BY <1>1, <2>1 DEF QueriesInv, InHandler, StillListed, StillReferred, Busy
  <2>4. AnswerGranted'
    BY <2>1, SameGranted DEF QueriesInv, AnswerGranted, PoliciesSeen
  <2>5. AnswerComplete'
    BY <2>1, SameWanted DEF QueriesInv, AnswerComplete
  <2> QED BY <2>2, <2>3, <2>4, <2>5 DEF QueriesInv
<1>2. CASE Busy
  <2>1. /\ SameAsked(req, req')
        /\ req'.seen = req.seen \cup {policy'} /\ req'.kept = req.kept \cap store'
        /\ req'.pc = req.pc /\ req'.items = req.items /\ req'.answer = req.answer
    <3>1. IsRequest(req) /\ req' = Witnessed(req, policy', store')
      BY <1>2 DEF QueriesInv
    <3>2. Watched(req, Witnessed(req, policy', store'), policy', store')
      BY <3>1, WitnessedFacts
    <3>3. Watched(req, req', policy', store')
      BY <3>1, <3>2
    <3> QED BY <3>3 DEF Watched
  <2>2. HistoryKept' /\ IsRequest(req)'
    BY <2>1 DEF QueriesInv, HistoryKept, SameAsked
  <2>3. InHandler' /\ StillReferred'
    BY <2>1 DEF QueriesInv, InHandler, StillReferred, Busy, SameAsked
  <2>4. AnswerGranted'
    <3>1. PoliciesSeen(req.seen) \subseteq PoliciesSeen(req.seen)'
      BY <2>1 DEF PoliciesSeen
    <3>2. req'.kind = req.kind
      BY <2>1 DEF SameAsked
    <3> QED BY <2>1, <3>1, <3>2, SameGranted DEF QueriesInv, AnswerGranted
  <2>5. \A o : Wanted(o)' => Wanted(o)
    BY <2>1 DEF Wanted, SameAsked
  <2>6. \A o : Unhindered(o)' => Unhindered(o)
    BY <2>1, SameGranted DEF Unhindered
  <2>7. StillListed'
    BY <2>1, <2>5, <2>6 DEF QueriesInv, StillListed
  <2>8. AnswerComplete'
    BY <1>2, <2>1 DEF AnswerComplete, Busy
  <2> QED BY <2>2, <2>3, <2>4, <2>7, <2>8 DEF QueriesInv
<1> QED BY <1>1, <1>2

(* A request without an answer: received, refused or forgotten.            *)
Fresh(q) ==
    /\ IsRequest(q) /\ q.answer = {} /\ q.pc \in {"none", "read", "error"}
    /\ q.kept \subseteq store
    /\ q.pc = "read" => policy \in q.seen /\ (auth => q.kind # "clusters")

(* A new request, and the end of the last one.                             *)
LEMMA FreshStep ==
    ASSUME QueriesInv, Ask \/ Finish
    PROVE  QueriesInv'
<1>1. store' = store /\ policy' = policy /\ auth' = auth
  BY DEF Ask, Finish, Receive, Refuse, Respond, configVars
<1>2. Fresh(req')
  <2>1. CASE Finish
    BY <2>1, NoRequestFacts DEF Finish, Respond, Fresh
  <2>2. ASSUME NEW k, NEW g, NEW u, Receive(k, g, u)
        PROVE  Fresh(req')
    <3> DEFINE q == [NoRequest EXCEPT !.pc = "read", !.kind = k, !.group = g, !.subs = u,
                                      !.seen = {policy}, !.kept = store]
    <3>1. req' = q
      BY <2>2 DEF Receive
    <3>2. auth => k # "clusters"
      BY <2>2 DEF Receive, Available, LookupAction
    <3>3. Received(q, k, policy, store)
      BY ReceivedFacts
    <3> HIDE DEF q
    <3> QED BY <3>1, <3>2, <3>3 DEF Received, Fresh
  <2>3. ASSUME NEW k, NEW u, Refuse(k, u)
        PROVE  Fresh(req')
    <3> DEFINE e == [NoRequest EXCEPT !.pc = "error", !.kind = k, !.subs = u]
    <3>1. req' = e
      BY <2>3 DEF Refuse
    <3>2. Refused(e)
      BY RefusedFacts
    <3> HIDE DEF e
    <3> QED BY <3>1, <3>2 DEF Refused, Fresh
  <2> QED BY <2>1, <2>2, <2>3 DEF Ask
<1>3. HistoryKept' /\ IsRequest(req)' /\ (store \subseteq Objects)'
  BY <1>1, <1>2 DEF QueriesInv, HistoryKept, Busy, Fresh, IsRequest
<1>4. InHandler'
  BY <1>1, <1>2 DEF InHandler, Busy, Fresh
<1>5. AnswerGranted' /\ StillListed' /\ StillReferred' /\ AnswerComplete'
  BY <1>2 DEF AnswerGranted, StillListed, StillReferred, AnswerComplete, Fresh
<1> QED BY <1>3, <1>4, <1>5 DEF QueriesInv

(* The invariant holds at the start.                                       *)
LEMMA QueriesInitially == QueriesInit => QueriesInv
<1>1. SUFFICES ASSUME QueriesInit PROVE QueriesInv
  OBVIOUS
<1>2. req = NoRequest /\ store = Objects
  BY <1>1 DEF QueriesInit
<1>3. HistoryKept /\ InHandler /\ IsRequest(req)
  BY <1>2, NoRequestFacts DEF HistoryKept, InHandler, Busy
<1>4. AnswerGranted /\ StillListed /\ StillReferred /\ AnswerComplete
  BY <1>2, NoRequestFacts DEF AnswerGranted, StillListed, StillReferred, AnswerComplete
<1> QED BY <1>2, <1>3, <1>4 DEF QueriesInv

(* Every step keeps the invariant.                                         *)
LEMMA QueriesNextStep == QueriesInv /\ [QueriesNext]_queriesVars => QueriesInv'
<1>1. SUFFICES ASSUME QueriesInv, [QueriesNext]_queriesVars PROVE QueriesInv'
  OBVIOUS
<1>2. CASE Ask \/ Finish
  BY <1>1, <1>2, FreshStep
<1>3. CASE Serve
  BY <1>1, <1>3, ServeStep
<1>4. CASE StoreChanges
  <2>1. auth' = auth /\ policy' = policy /\ (store \subseteq Objects)'
    BY <1>1, <1>4 DEF StoreChanges, configVars, QueriesInv
  <2>2. req' = IF Busy THEN Witnessed(req, policy', store') ELSE req
    BY <1>4, <2>1 DEF StoreChanges
  <2> QED BY <1>1, <2>1, <2>2, HistoryStep
<1>5. CASE Reconfigure
  <2>1. auth' = auth /\ store' = store /\ (store \subseteq Objects)'
    BY <1>1, <1>5, AuthConstant DEF Reconfigure, QueriesInv
  <2>2. req' = IF Busy THEN Witnessed(req, policy', store') ELSE req
    BY <1>5, <2>1 DEF Reconfigure
  <2> QED BY <1>1, <2>1, <2>2, HistoryStep
<1>6. CASE UNCHANGED queriesVars
  <2>1. /\ auth' = auth /\ store' = store /\ policy' = policy /\ req' = req
    BY <1>6 DEF queriesVars
  <2>2. Busy' = Busy /\ HistoryKept' = HistoryKept /\ InHandler' = InHandler
    BY <2>1 DEF Busy, HistoryKept, InHandler
  <2>3. SameAsked(req, req')
    BY <1>1, <2>1 DEF QueriesInv, SameAsked
  <2>4. AnswerGranted'
    BY <1>1, <2>1, <2>3, SameGranted DEF QueriesInv, AnswerGranted, PoliciesSeen
  <2>5. StillListed' /\ AnswerComplete'
    BY <1>1, <2>1, <2>3, SameWanted DEF QueriesInv, StillListed, AnswerComplete
  <2> QED BY <1>1, <2>1, <2>2, <2>4, <2>5 DEF QueriesInv, StillReferred, IsRequest
<1> QED BY <1>1, <1>2, <1>3, <1>4, <1>5, <1>6 DEF QueriesNext

(* Nothing is in an answer that no policy in force while the request was   *)
(* served grants to the caller, whatever is reloaded between two items     *)
(* (Authorize, ListPermissions, GetAvailableAccessGroups).                 *)
THEOREM QueriesAnswerGranted == QueriesSpec => []AnswerGranted
<1>1. QueriesInv => AnswerGranted
  BY DEF QueriesInv
<1> QED BY <1>1, QueriesInitially, QueriesNextStep, PTL DEF QueriesSpec

(* Nothing is missing from a list that was stored all the time and granted *)
(* by every policy in force, and a Get panics only when an object the      *)
(* virtual service refers to was deleted (the List handlers, get.go).      *)
THEOREM QueriesAnswerComplete == QueriesSpec => []AnswerComplete
<1>1. QueriesInv => AnswerComplete
  BY DEF QueriesInv
<1> QED BY <1>1, QueriesInitially, QueriesNextStep, PTL DEF QueriesSpec
=============================================================================
