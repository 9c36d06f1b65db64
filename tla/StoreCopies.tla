---------------------------- MODULE StoreCopies ----------------------------
(***************************************************************************)
(* What two OptimizedStores and their readers share in memory.  A dry run  *)
(* works on Copy() of the live store, with new maps over the same objects; *)
(* the lists of the template index and the domain sets of the node index   *)
(* are reference types and must be copied one by one, as must every list   *)
(* or set handed to a caller.  Lists are Go slices over arrays that append *)
(* and removal change in place, sets are references; both live on a heap   *)
(* here.  The string pool is the one thing both stores keep sharing.       *)
(* Each resource kind beside VirtualServices is kept by name and by UID.   *)
(***************************************************************************)
EXTENDS Naturals, Sequences, Absent

CONSTANTS
  VSName,    \* VirtualServices; the UID of one is its name
  Rev,       \* versions of a VirtualService
  KindUID,   \* UIDs the one named resource of another kind may have
  Node, Domain,
  MaxRef     \* bound on the arrays, and on the families of sets, alive at a time

\* Two stores and a reader use three; a step makes at most one more.
ASSUME RoomAssumption == MaxRef \in Nat /\ MaxRef >= 4

Kind == {"Listener", "VirtualServiceTemplate", "Route", "HTTPFilter", "AccessLog", "Policy", "Tracing"}

VARIABLES
  stores,    \* the live store and the copy of a dry run
  arrays,    \* heap of slice arrays
  sets,      \* heap of domain sets: those of one clone, by node
  handed,    \* the list a reader got, and what it held then
  lent,      \* the domain sets a validator got, and what they held then
  pool,      \* the string pool: whose allocation of the string it keeps
  interning, \* a store's progress in interning the string
  part       \* which part of the stores this behaviour is about

copyVars == <<stores, arrays, sets, handed, lent, pool, interning, part>>

Handle == {"live", "copy"}

Place == 1 .. MaxRef   \* of an array, or of the sets of one clone

VirtualService == [name : VSName, rev : Rev, uses : BOOLEAN]

Slice == [arr : Place, len : Nat]

Store ==
  [vs : [VSName -> VirtualService \cup {NONE}], byUID : [VSName -> VirtualService \cup {NONE}],
   list : Slice, item : KindUID \cup {NONE}, itemByUID : SUBSET KindUID,
   domains : [Node -> Place \cup {NONE}]]

Handed == [list : Slice, was : Seq(VirtualService)]

Lent == [idx : [Node -> Place \cup {NONE}], was : [Node -> {NONE} \cup SUBSET Domain]]

\* NONE is none of the things it stands in for.
ASSUME NilAssumption ==
  /\ NONE \notin VirtualService
  /\ NONE \notin KindUID
  /\ NONE \notin Place
  /\ NONE \notin Handle
  /\ NONE \notin Store
  /\ NONE \notin Handed
  /\ NONE \notin Lent

-----------------------------------------------------------------------------
(* Slices and sets.                                                        *)

ListRefs == {stores[h].list.arr : h \in {x \in Handle : stores[x] # NONE}}
              \cup (IF handed = NONE THEN {} ELSE {handed.list.arr})

SetRefs == {stores[h].domains[n] : h \in {x \in Handle : stores[x] # NONE}, n \in Node}
             \cup (IF lent = NONE THEN {} ELSE {lent.idx[n] : n \in Node})

FreeArray == CHOOSE r \in Place : r \notin ListRefs

FreeSets == CHOOSE r \in Place : r \notin SetRefs

Content(heap, list) == [i \in 1 .. list.len |-> heap[list.arr][i]]

\* append([]T(nil), list...)
Clone(list) ==
  [list |-> [arr |-> FreeArray, len |-> list.len],
   heap |-> [arrays EXCEPT ![FreeArray] = Content(arrays, list)]]

\* append(list, x): in place while the array has room, else a larger array.
Push(heap, list, x) ==
  IF list.len < Len(heap[list.arr])
  THEN [list |-> [arr |-> list.arr, len |-> list.len + 1],
        heap |-> [heap EXCEPT ![list.arr] = [@ EXCEPT ![list.len + 1] = x]]]
  ELSE [list |-> [arr |-> FreeArray, len |-> list.len + 1],
        heap |-> [heap EXCEPT ![FreeArray] =
                    [i \in 1 .. 2 * list.len + 1 |->
                       IF i <= list.len THEN heap[list.arr][i]
                       ELSE IF i = list.len + 1 THEN x ELSE NONE]]]

\* append(list[:i], list[i+1:]...): the tail moves down in the same array.
DropAt(heap, list, i) ==
  LET array == heap[list.arr]
  IN [list |-> [arr |-> list.arr, len |-> list.len - 1],
      heap |-> [heap EXCEPT ![list.arr] =
                  [j \in 1 .. Len(array) |->
                     IF j < i \/ j >= list.len THEN array[j] ELSE array[j + 1]]]]

First(at) == CHOOSE i \in at : \A j \in at : i <= j

Positions(heap, list, v) == {i \in 1 .. list.len : heap[list.arr][i].name = v}

\* Nothing is removed when the list does not hold the service.
removeFromTemplateIndex(heap, list, old) ==
  LET at == Positions(heap, list, old.name)
  IN IF ~old.uses \/ at = {} THEN [list |-> list, heap |-> heap]
     ELSE DropAt(heap, list, First(at))

\* A service already listed is not listed again.
updateTemplateIndex(heap, list, vs) ==
  IF ~vs.uses \/ Positions(heap, list, vs.name) # {} THEN [list |-> list, heap |-> heap]
  ELSE Push(heap, list, vs)

-----------------------------------------------------------------------------
(* VirtualServices.                                                        *)

\* A store with another entry for a service, and the list that goes with it.
WithVS(st, v, vs, list) ==
  [vs |-> [st.vs EXCEPT ![v] = vs], byUID |-> [st.byUID EXCEPT ![v] = vs], list |-> list,
   item |-> st.item, itemByUID |-> st.itemByUID, domains |-> st.domains]

SetVS(h, v, rev, uses) ==
  LET st == stores[h]
      vs == [name |-> v, rev |-> rev, uses |-> uses]
      less == IF st.vs[v] = NONE THEN [list |-> st.list, heap |-> arrays]
              ELSE removeFromTemplateIndex(arrays, st.list, st.vs[v])
      more == updateTemplateIndex(less.heap, less.list, vs)
  IN /\ part = "VirtualService"
     /\ stores' = [stores EXCEPT ![h] = WithVS(st, v, vs, more.list)]
     /\ arrays' = more.heap
     /\ UNCHANGED <<sets, handed, lent, pool, interning, part>>

DeleteVS(h, v) ==
  LET st == stores[h]
      less == removeFromTemplateIndex(arrays, st.list, st.vs[v])
  IN /\ part = "VirtualService"
     /\ st.vs[v] # NONE
     /\ stores' = [stores EXCEPT ![h] = WithVS(st, v, NONE, less.list)]
     /\ arrays' = less.heap
     /\ UNCHANGED <<sets, handed, lent, pool, interning, part>>

\* The list itself handed out.
ShareVirtualServicesByTemplate ==
  /\ part = "VirtualService"
  /\ handed = NONE
  /\ handed' = [list |-> stores["live"].list, was |-> Content(arrays, stores["live"].list)]
  /\ UNCHANGED <<stores, arrays, sets, lent, pool, interning, part>>

GetVirtualServicesByTemplate ==
  LET clone == Clone(stores["live"].list)
  IN /\ part = "VirtualService"
     /\ handed = NONE
     /\ arrays' = clone.heap
     /\ handed' = [list |-> clone.list, was |-> Content(arrays, stores["live"].list)]
     /\ UNCHANGED <<stores, sets, lent, pool, interning, part>>

DropList ==
  /\ handed # NONE
  /\ handed' = NONE
  /\ UNCHANGED <<stores, arrays, sets, lent, pool, interning, part>>

-----------------------------------------------------------------------------
(* The other kinds, by name and by UID.                                    *)

WithItem(st, item, uids) ==
  [vs |-> st.vs, byUID |-> st.byUID, list |-> st.list, item |-> item, itemByUID |-> uids,
   domains |-> st.domains]

SetItem(h, kind, u) ==
  LET st == stores[h]
  IN /\ part = kind
     /\ stores' = [stores EXCEPT ![h] = WithItem(st, u, (st.itemByUID \ {st.item}) \cup {u})]
     /\ UNCHANGED <<arrays, sets, handed, lent, pool, interning, part>>

IsExisting(h) == stores[h].item # NONE

\* The copy of the map that the Map functions return.
MapItems(h) == {stores[h].item} \ {NONE}

DeleteItem(h, kind) ==
  LET st == stores[h]
  IN /\ part = kind
     /\ IsExisting(h)
     /\ stores' = [stores EXCEPT ![h] = WithItem(st, NONE, st.itemByUID \ {st.item})]
     /\ UNCHANGED <<arrays, sets, handed, lent, pool, interning, part>>

\* The object of the former UID stays reachable by it.
SetRouteOnly(h, u) ==
  /\ part = "Route"
  /\ stores' = [stores EXCEPT ![h] = WithItem(@, u, @.itemByUID \cup {u})]
  /\ UNCHANGED <<arrays, sets, handed, lent, pool, interning, part>>

SetListener(h, u)               == SetItem(h, "Listener", u)
SetVirtualServiceTemplate(h, u) == SetItem(h, "VirtualServiceTemplate", u)
SetRoute(h, u)                  == SetItem(h, "Route", u)
SetHTTPFilter(h, u)             == SetItem(h, "HTTPFilter", u)
SetAccessLog(h, u)              == SetItem(h, "AccessLog", u)
SetPolicy(h, u)                 == SetItem(h, "Policy", u)
SetTracing(h, u)                == SetItem(h, "Tracing", u)

DeleteListener(h)               == DeleteItem(h, "Listener")
DeleteVirtualServiceTemplate(h) == DeleteItem(h, "VirtualServiceTemplate")
DeleteRoute(h)                  == DeleteItem(h, "Route")
DeleteHTTPFilter(h)             == DeleteItem(h, "HTTPFilter")
DeleteAccessLog(h)              == DeleteItem(h, "AccessLog")
DeletePolicy(h)                 == DeleteItem(h, "Policy")
DeleteTracing(h)                == DeleteItem(h, "Tracing")

\* The lookups by UID: nothing when the UID names no stored resource.
GetByUID(h, u) == u \in stores[h].itemByUID

-----------------------------------------------------------------------------
(* The node index: the domains of every node.                              *)

\* A set of its own for every node of an index; NONE for a node without one.
CloneSets(idx, from) ==
  [idx  |-> [n \in Node |-> IF idx[n] = NONE THEN NONE ELSE FreeSets],
   heap |-> [sets EXCEPT ![FreeSets] = [n \in Node |-> IF idx[n] = NONE THEN {} ELSE from[n]]]]

DomainSets(heap, idx) == [n \in Node |-> IF idx[n] = NONE THEN NONE ELSE heap[idx[n]][n]]

WithClones(st, list, domains) ==
  [vs |-> st.vs, byUID |-> st.byUID, list |-> list, item |-> st.item,
   itemByUID |-> st.itemByUID, domains |-> domains]

\* The index a build has made, copied into the store.
ReplaceNodeDomainsIndex(index) ==
  LET live == stores["live"]
      clone == CloneSets(index, index)
  IN /\ part = "nodeDomains"
     /\ stores' = [stores EXCEPT !["live"] = WithClones(live, live.list, clone.idx)]
     /\ sets' = clone.heap
     /\ UNCHANGED <<arrays, handed, lent, pool, interning, part>>

GetNodeDomainsIndex(h) == DomainSets(sets, stores[h].domains)

GetNodeDomainsForNodes ==
  LET idx == stores["live"].domains
      clone == CloneSets(idx, DomainSets(sets, idx))
  IN /\ part = "nodeDomains"
     /\ lent = NONE
     /\ lent' = [idx |-> clone.idx, was |-> DomainSets(sets, idx)]
     /\ sets' = clone.heap
     /\ UNCHANGED <<stores, arrays, handed, pool, interning, part>>

\* The validator deletes the former version's domains from what it got.
Exclude(n, d) ==
  /\ lent # NONE
  /\ lent.idx[n] # NONE
  /\ d \in lent.was[n]
  /\ sets' = [sets EXCEPT ![lent.idx[n]][n] = @ \ {d}]
  /\ lent' = [lent EXCEPT !.was[n] = @ \ {d}]
  /\ UNCHANGED <<stores, arrays, handed, pool, interning, part>>

DropDomains ==
  /\ lent # NONE
  /\ lent' = NONE
  /\ UNCHANGED <<stores, arrays, sets, handed, pool, interning, part>>

-----------------------------------------------------------------------------
(* Copies.                                                                 *)

\* New maps over the same lists.
CopyMaps ==
  /\ stores["copy"] = NONE
  /\ stores' = [stores EXCEPT !["copy"] = stores["live"]]
  /\ UNCHANGED <<arrays, sets, handed, lent, pool, interning, part>>

\* New maps, new lists and new sets over the same objects and string pool.
Copy ==
  LET live == stores["live"]
      list == Clone(live.list)
      domains == CloneSets(live.domains, DomainSets(sets, live.domains))
  IN /\ stores["copy"] = NONE
     /\ stores' = [stores EXCEPT !["copy"] = WithClones(live, list.list, domains.idx)]
     /\ arrays' = list.heap
     /\ sets' = domains.heap
     /\ UNCHANGED <<handed, lent, pool, interning, part>>

\* The dry run is over.
DropCopy ==
  /\ stores["copy"] # NONE
  /\ interning["copy"].pc # "slow"
  /\ stores' = [stores EXCEPT !["copy"] = NONE]
  /\ interning' = [interning EXCEPT !["copy"] = [pc |-> "idle", got |-> NONE]]
  /\ UNCHANGED <<arrays, sets, handed, lent, pool, part>>

-----------------------------------------------------------------------------
(* Interning a string under the lock of a store; the pool has its own.     *)

Intern(h) ==
  /\ part = "strings"
  /\ interning[h].pc = "idle"
  /\ interning' = [interning EXCEPT ![h] =
                     IF pool # NONE THEN [pc |-> "done", got |-> pool]
                     ELSE [pc |-> "slow", got |-> NONE]]
  /\ UNCHANGED <<stores, arrays, sets, handed, lent, pool, part>>

InternSlow(h) ==
  /\ interning[h].pc = "slow"
  /\ pool' = IF pool = NONE THEN h ELSE pool
  /\ interning' = [interning EXCEPT ![h] = [pc |-> "done", got |-> pool']]
  /\ UNCHANGED <<stores, arrays, sets, handed, lent, part>>

-----------------------------------------------------------------------------
EmptyStore ==
  [vs |-> [v \in VSName |-> NONE], byUID |-> [v \in VSName |-> NONE],
   list |-> [arr |-> 1, len |-> 0],
   item |-> NONE, itemByUID |-> {}, domains |-> [n \in Node |-> NONE]]

CopiesInit ==
  /\ stores = [h \in Handle |-> IF h = "live" THEN EmptyStore ELSE NONE]
  /\ arrays = [r \in Place |-> <<>>]
  /\ sets = [r \in Place |-> [n \in Node |-> {}]]
  /\ handed = NONE
  /\ lent = NONE
  /\ pool = NONE
  /\ interning = [h \in Handle |-> [pc |-> "idle", got |-> NONE]]
  /\ part \in Kind \cup {"VirtualService", "nodeDomains", "strings"}

ChangeItem(h) ==
  \/ \E u \in KindUID :
       \/ SetListener(h, u) \/ SetVirtualServiceTemplate(h, u) \/ SetRoute(h, u)
       \/ SetHTTPFilter(h, u) \/ SetAccessLog(h, u) \/ SetPolicy(h, u) \/ SetTracing(h, u)
  \/ DeleteListener(h) \/ DeleteVirtualServiceTemplate(h) \/ DeleteRoute(h)
  \/ DeleteHTTPFilter(h) \/ DeleteAccessLog(h) \/ DeletePolicy(h) \/ DeleteTracing(h)

Change(h) ==
  \/ \E v \in VSName, rev \in Rev, uses \in BOOLEAN : SetVS(h, v, rev, uses)
  \/ \E v \in VSName : DeleteVS(h, v)
  \/ ChangeItem(h)
  \/ Intern(h)
  \/ InternSlow(h)

CopiesNext ==
  \/ \E h \in Handle : stores[h] # NONE /\ Change(h)
  \/ GetVirtualServicesByTemplate \/ DropList
  \/ \E index \in [Node -> {NONE} \cup SUBSET Domain] : ReplaceNodeDomainsIndex(index)
  \/ GetNodeDomainsForNodes \/ DropDomains
  \/ \E n \in Node, d \in Domain : Exclude(n, d)
  \/ Copy \/ DropCopy

CopiesSpec == CopiesInit /\ [][CopiesNext]_copyVars

-----------------------------------------------------------------------------
\* What a store shows to its readers, the heap included.
View(h) ==
  IF stores[h] = NONE THEN NONE
  ELSE [vs |-> stores[h].vs, items |-> MapItems(h),
        list |-> Content(arrays, stores[h].list), domains |-> GetNodeDomainsIndex(h)]

\* The store a dry run works on and the live store never show each other's
\* changes: one step changes what one of them shows (optimized.go Copy).
CopyIsolated == [][View("live")' = View("live") \/ View("copy")' = View("copy")]_copyVars

\* A list or a domain set that was handed out stays what it was, however the
\* store changes afterwards, and a validator that deletes from the sets it got
\* deletes from nothing else.
HandedOutStable ==
  /\ handed # NONE => Content(arrays, handed.list) = handed.was
  /\ lent # NONE => DomainSets(sets, lent.idx) = lent.was

\* In either store the template's list holds every VirtualService that uses the
\* template exactly once and in its current version, and a resource is found by
\* UID exactly when it is the one stored.
IndicesAgree ==
  \A h \in Handle : stores[h] # NONE =>
    LET list == Content(arrays, stores[h].list)
        users == {v \in VSName : stores[h].vs[v] # NONE /\ stores[h].vs[v].uses}
    IN /\ {list[i] : i \in DOMAIN list} = {stores[h].vs[v] : v \in users}
       /\ \A i, j \in DOMAIN list : list[i] = list[j] => i = j
       /\ \A u \in KindUID : GetByUID(h, u) <=> u \in MapItems(h)

\* Both stores intern into one pool concurrently; whoever comes second gets the
\* representative the first one put there (string_pool.go Intern).
InternedOnce ==
  \A g, h \in Handle :
    (interning[g].pc = "done" /\ interning[h].pc = "done") => interning[g].got = interning[h].got

\* Neither readers nor interners see a store change what they hold.
SharedSafely == HandedOutStable /\ InternedOnce
=============================================================================
