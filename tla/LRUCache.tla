------------------------------ MODULE LRUCache ------------------------------
(***************************************************************************)
(* utils.LRUCache, which the caches of HTTP filters and of clusters wrap:  *)
(* a list of items, most recently used first, and a map from keys to the   *)
(* elements of the list.  Get looks the key up under the read lock and     *)
(* again under the write lock; other calls may come in between.            *)
(***************************************************************************)
EXTENDS Naturals, FiniteSets, SequencesExt, Absent

CONSTANTS
    Key, Value,
    Capacity, TTL,
    Thread,     \* callers of Get
    MaxTime     \* bound: the clock stops here

ASSUME CapacityAssumption == Capacity \in Nat \ {0} /\ TTL \in Nat \ {0} /\ MaxTime \in Nat

VARIABLES
    ll,      \* the list of items
    cache,   \* the keys that the map has an element for
    pc,      \* per thread: the key of a Get that found it under the read lock
    hit,     \* key and value, just after a Get that found something
    now,
    last,    \* history: per key, the value and time of the last Set
    recency  \* history: pairs of keys, the first hit or set after the second

vars == <<ll, cache, pc, hit, now, last, recency>>

Item == [key : Key, value : Value, ts : 0..MaxTime]

Init ==
    /\ ll = <<>>
    /\ cache = {}
    /\ pc = [t \in Thread |-> NONE]
    /\ hit = NONE
    /\ now = 0
    /\ last = [k \in Key |-> NONE]
    /\ recency = {}

-----------------------------------------------------------------------------
Keys(list) == [i \in 1..Len(list) |-> list[i].key]

ElementOf(k) == CHOOSE i \in 1..Len(ll) : ll[i].key = k

Expired(item) == now > item.ts + TTL

(* Faulty variant: a hit leaves the element where it is.                   *)
LeaveInPlace(list, i) == list

MoveToFront(list, i) == <<list[i]>> \o RemoveAt(list, i)

Touch(k) == recency' = {p \in recency : p[2] # k} \cup ({k} \X (Key \ {k}))

(* The lookup under the read lock.                                         *)
GetLookup(t, k) ==
    /\ pc[t] = NONE
    /\ pc' = IF k \in cache THEN [pc EXCEPT ![t] = k] ELSE pc
    /\ hit' = NONE
    /\ UNCHANGED <<ll, cache, now, last, recency>>

(* Faulty variant: the time to live counts from the last access.           *)
TakeAndRefresh(k) ==
    LET i == ElementOf(k)
    IN  ll' = MoveToFront([ll EXCEPT ![i].ts = now], i)

Take(k) == ll' = MoveToFront(ll, ElementOf(k))

(* The rest of Get under the write lock.                                   *)
GetLocked(t) ==
    LET k == pc[t]
    IN  /\ k # NONE
        /\ pc' = [pc EXCEPT ![t] = NONE]
        /\ \/ /\ k \notin cache
              /\ hit' = NONE
              /\ UNCHANGED <<ll, cache, recency>>
           \/ /\ k \in cache
              /\ Expired(ll[ElementOf(k)])
              /\ ll' = RemoveAt(ll, ElementOf(k))
              /\ cache' = cache \ {k}
              /\ hit' = NONE
              /\ UNCHANGED recency
           \/ /\ k \in cache
              /\ ~Expired(ll[ElementOf(k)])
              /\ Take(k)
              /\ hit' = <<k, ll[ElementOf(k)].value>>
              /\ Touch(k)
              /\ UNCHANGED cache
        /\ UNCHANGED <<now, last>>

EvictOldest(list, keys) == [list |-> Front(list), keys |-> keys \ {Last(list).key}]

(* Faulty variant: a new value keeps the age of the old one.               *)
NewValue(item, v) == [item EXCEPT !.value = v]

Renewed(item, v) == [key |-> item.key, value |-> v, ts |-> now]

Set(k, v) ==
    /\ IF k \in cache
       THEN LET i == ElementOf(k)
            IN  /\ ll' = MoveToFront([ll EXCEPT ![i] = Renewed(@, v)], i)
                /\ UNCHANGED cache
       ELSE LET room == IF Len(ll) >= Capacity THEN EvictOldest(ll, cache)
                        ELSE [list |-> ll, keys |-> cache]
            IN  /\ ll' = <<[key |-> k, value |-> v, ts |-> now]>> \o room.list
                /\ cache' = room.keys \cup {k}
    /\ last' = [last EXCEPT ![k] = [value |-> v, ts |-> now]]
    /\ Touch(k)
    /\ hit' = NONE
    /\ UNCHANGED <<pc, now>>

RemoveKey(k) ==
    /\ k \in cache
    /\ ll' = RemoveAt(ll, ElementOf(k))
    /\ cache' = cache \ {k}
    /\ hit' = NONE
    /\ UNCHANGED <<pc, now, last, recency>>

Clear ==
    /\ ll' = <<>>
    /\ cache' = {}
    /\ hit' = NONE
    /\ UNCHANGED <<pc, now, last, recency>>

(* The walk from the back removes the expired elements; the others keep    *)
(* their order.                                                            *)
RemoveExpired ==
    LET expired == {i \in 1..Len(ll) : Expired(ll[i])}
        kept == (1..Len(ll)) \ expired
    IN  /\ \E n \in 0..Len(ll) : \E place \in [1..n -> kept] :
             /\ kept = {place[i] : i \in 1..n}
             /\ \A i, j \in 1..n : i < j => place[i] < place[j]
             /\ ll' = [i \in 1..n |-> ll[place[i]]]
        /\ cache' = cache \ {ll[i].key : i \in expired}
        /\ hit' = NONE
        /\ UNCHANGED <<pc, now, last, recency>>

Tick ==
    /\ now < MaxTime
    /\ now' = now + 1
    /\ hit' = NONE
    /\ UNCHANGED <<ll, cache, pc, last, recency>>

Next ==
    \/ \E t \in Thread : (\E k \in Key : GetLookup(t, k)) \/ GetLocked(t)
    \/ \E k \in Key : (\E v \in Value : Set(k, v)) \/ RemoveKey(k)
    \/ Clear
    \/ RemoveExpired
    \/ Tick

Spec == Init /\ [][Next]_vars

-----------------------------------------------------------------------------
(* The list is in the order of use, so that what Set evicts is the key that *)
(* was hit or set least recently.                                          *)
OrderedByUse == \A i, j \in 1..Len(ll) : i < j => <<ll[i].key, ll[j].key>> \in recency

(* The list and the map hold the same keys, each once, and no more of them *)
(* than the capacity: no sequence of Get, Set and evictions leaves an      *)
(* element that cannot be found or a key without an element.  And the key  *)
(* to be evicted next is the one that was hit or set least recently.       *)
ListAndMapAgree ==
    /\ \A i \in 1..Len(ll) : ll[i] \in Item
    /\ ToSet(Keys(ll)) = cache
    /\ Len(ll) = Cardinality(cache)
    /\ Len(ll) <= Capacity
    /\ OrderedByUse

(* A Get that finds something returns the value that was set last for its  *)
(* key, at most TTL ago, although entries may come and go between its two  *)
(* lookups and hits do not prolong the life of an entry.                   *)
HitsAreFresh ==
    hit # NONE => last[hit[1]].value = hit[2] /\ now <= last[hit[1]].ts + TTL

(* What the builders see of the cache.                                     *)
Entries ==
    [k \in cache |-> [value |-> ll[ElementOf(k)].value, ts |-> ll[ElementOf(k)].ts]]

Abstract == INSTANCE TTLCache WITH entries <- Entries

(* The list with its map is a store that forgets: entries change only by   *)
(* being stored at the current time or by going away.                      *)
ImplementsTTLCache == Abstract!Spec

=============================================================================
