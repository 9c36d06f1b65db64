--------------------------- MODULE LRUCacheProofs ---------------------------
EXTENDS LRUCache, SequenceTheorems, FiniteSetTheorems, TLAPS

(* Steps are first-order reasoning unless they name another prover.        *)
USE Zenon

(***************************************************************************)
(* The list and the map of LRUCache agree, hits are fresh, and the cache   *)
(* implements TTLCache, for any keys, values, callers, capacity and TTL.   *)
(* The inductive invariant has the keys of the list distinct, so that the  *)
(* element of a key is the only one, and every element equal to what was   *)
(* set last for its key.                                                   *)
(***************************************************************************)

(* What Set leaves in an element, and what the history has of it.          *)
Stored(item) == [value |-> item.value, ts |-> item.ts]

(* A list that can be that of a cache.                                     *)
WellFormed(list) ==
    /\ list \in Seq(Item)
    /\ Len(list) <= Capacity
    /\ \A i, j \in 1..Len(list) : list[i].key = list[j].key => i = j

KeysOf(list) == {list[i].key : i \in 1..Len(list)}

LastSet == \A i \in 1..Len(ll) : last[ll[i].key] = Stored(ll[i])

HitIsLast ==
    hit # NONE => \E k \in Key : \E v \in Value :
        /\ hit = <<k, v>>
        /\ \E s \in 0..MaxTime : last[k] = [value |-> v, ts |-> s] /\ now <= s + TTL

LRUInv ==
    /\ now \in 0..MaxTime
    /\ WellFormed(ll)
    /\ cache = KeysOf(ll)
    /\ last \in [Key -> [value : Value, ts : 0..MaxTime] \cup {NONE}]
    /\ LastSet
    /\ HitIsLast

-----------------------------------------------------------------------------
(* Lists: what is removed is gone, and the rest keeps its order.           *)
LEMMA IsASequence ==
    ASSUME NEW n \in Nat, NEW f \in [1..n -> Item]
    PROVE  f \in Seq(Item) /\ Len(f) = n
  BY SMT

(* Removing the element at i shifts the later ones by one.                 *)
LEMMA RemoveAtFacts ==
    ASSUME NEW list \in Seq(Item), NEW i \in 1..Len(list)
    PROVE  /\ RemoveAt(list, i) \in Seq(Item)
           /\ Len(RemoveAt(list, i)) = Len(list) - 1
           /\ \A j \in 1..Len(list) - 1 :
                RemoveAt(list, i)[j] = IF j < i THEN list[j] ELSE list[j + 1]
  <1> DEFINE a == SubSeq(list, 1, i - 1)
             b == SubSeq(list, i + 1, Len(list))
  <1>1. /\ a \in Seq(Item) /\ Len(a) = i - 1
        /\ \A j \in 1..i - 1 : a[j] = list[j]
    BY LenProperties, SubSeqProperties, SMT
  <1>2. /\ b \in Seq(Item) /\ Len(b) = Len(list) - i
        /\ \A j \in 1..Len(list) - i : b[j] = list[i + j]
    BY LenProperties, SubSeqProperties, SMT
  <1>3. RemoveAt(list, i) = a \o b
    BY DEF RemoveAt
  <1> HIDE DEF a, b
  <1>4. /\ a \o b \in Seq(Item) /\ Len(a \o b) = Len(list) - 1
        /\ \A j \in 1..Len(list) - 1 :
             (a \o b)[j] = IF j <= Len(a) THEN a[j] ELSE b[j - Len(a)]
    <2>1. /\ a \o b \in Seq(Item) /\ Len(a \o b) = Len(a) + Len(b)
          /\ \A j \in 1..Len(a) + Len(b) :
               (a \o b)[j] = IF j <= Len(a) THEN a[j] ELSE b[j - Len(a)]
      BY <1>1, <1>2, ConcatProperties
    <2>2. Len(list) \in Nat /\ Len(a) + Len(b) = Len(list) - 1
      BY <1>1, <1>2, LenProperties, SMT
    <2> QED BY <2>1, <2>2
  <1>5. ASSUME NEW j \in 1..Len(list) - 1
        PROVE  (a \o b)[j] = IF j < i THEN list[j] ELSE list[j + 1]
    BY <1>1, <1>2, <1>4, LenProperties, SMT
  <1> QED BY <1>3, <1>4, <1>5

(* Pushing an item to the front shifts all others by one.                  *)
LEMMA PrependFacts ==
    ASSUME NEW list \in Seq(Item), NEW item \in Item
    PROVE  /\ <<item>> \o list \in Seq(Item)
           /\ Len(<<item>> \o list) = Len(list) + 1
           /\ \A j \in 1..Len(list) + 1 :
                (<<item>> \o list)[j] = IF j = 1 THEN item ELSE list[j - 1]
  <1>1. <<item>> \in Seq(Item) /\ Len(<<item>>) = 1 /\ <<item>>[1] = item
    BY SMT
  <1> QED BY <1>1, ConcatProperties, LenProperties, SMT

(* Removing an element keeps keys unique and removes exactly its key.      *)
LEMMA RemoveAtWellFormed ==
    ASSUME NEW list, WellFormed(list), NEW i \in 1..Len(list)
    PROVE  /\ WellFormed(RemoveAt(list, i))
           /\ Len(RemoveAt(list, i)) < Len(list)
           /\ KeysOf(RemoveAt(list, i)) = KeysOf(list) \ {list[i].key}
           /\ \A j \in 1..Len(RemoveAt(list, i)) : \E p \in 1..Len(list) :
                RemoveAt(list, i)[j] = list[p] /\ p # i
  <1> DEFINE r == RemoveAt(list, i)
  <1>1. list \in Seq(Item) /\ Len(list) \in Nat /\ Len(list) <= Capacity
    BY LenProperties DEF WellFormed
  <1>2. /\ r \in Seq(Item) /\ Len(r) = Len(list) - 1
        /\ \A j \in 1..Len(list) - 1 : r[j] = IF j < i THEN list[j] ELSE list[j + 1]
    BY <1>1, RemoveAtFacts
  <1> HIDE DEF r
  <1>3. \A j, p \in 1..Len(r) : r[j].key = r[p].key => j = p
    <2> SUFFICES ASSUME NEW j \in 1..Len(r), NEW p \in 1..Len(r), r[j].key = r[p].key
                 PROVE  j = p
      OBVIOUS
    <2> DEFINE from(x) == IF x < i THEN x ELSE x + 1
    <2>1. /\ from(j) \in 1..Len(list) /\ r[j] = list[from(j)]
          /\ from(p) \in 1..Len(list) /\ r[p] = list[from(p)]
      BY <1>1, <1>2, SMT
    <2>2. from(j) = from(p)
      BY <2>1 DEF WellFormed
    <2> QED BY <1>1, <1>2, <2>2, SMT
  <1>4. \A j \in 1..Len(r) : \E p \in 1..Len(list) : r[j] = list[p] /\ p # i
    BY <1>1, <1>2, SMT
  <1>5. \A p \in 1..Len(list) : p # i => \E j \in 1..Len(r) : r[j] = list[p]
    <2> SUFFICES ASSUME NEW p \in 1..Len(list), p # i
                 PROVE  \E j \in 1..Len(r) : r[j] = list[p]
      OBVIOUS
    <2>1. CASE p < i
      <3>1. p \in 1..Len(r) /\ r[p] = list[p]
        BY <1>1, <1>2, <2>1, SMT
      <3> QED BY <3>1
    <2>2. CASE p > i
      <3>1. p - 1 \in 1..Len(r) /\ r[p - 1] = list[p]
        BY <1>1, <1>2, <2>2, SMT
      <3> QED BY <3>1
    <2> QED BY <1>1, <2>1, <2>2, SMT
  <1>6. KeysOf(r) = KeysOf(list) \ {list[i].key}
    <2>1. \A p \in 1..Len(list) : list[p].key = list[i].key => p = i
      BY DEF WellFormed
    <2>2. KeysOf(r) \subseteq KeysOf(list) \ {list[i].key}
      BY <1>4, <2>1, ZenonT(60) DEF KeysOf
    <2>3. KeysOf(list) \ {list[i].key} \subseteq KeysOf(r)
      BY <1>5 DEF KeysOf
    <2> QED BY <2>2, <2>3
  <1>7. WellFormed(r)
    BY <1>1, <1>2, <1>3, CapacityAssumption, SMT DEF WellFormed
  <1> QED BY <1>1, <1>2, <1>4, <1>6, <1>7, SMT DEF r

(* Pushing an item with a new key keeps keys unique and adds exactly its   *)
(* key.                                                                    *)
LEMMA PrependWellFormed ==
    ASSUME NEW list, WellFormed(list), Len(list) < Capacity,
           NEW item \in Item, item.key \notin KeysOf(list)
    PROVE  /\ WellFormed(<<item>> \o list)
           /\ KeysOf(<<item>> \o list) = KeysOf(list) \cup {item.key}
           /\ \A j \in 1..Len(<<item>> \o list) :
                \/ (<<item>> \o list)[j] = item
                \/ \E p \in 1..Len(list) : (<<item>> \o list)[j] = list[p]
  <1> DEFINE r == <<item>> \o list
  <1>1. list \in Seq(Item) /\ Len(list) \in Nat
    BY LenProperties DEF WellFormed
  <1>2. /\ r \in Seq(Item) /\ Len(r) = Len(list) + 1
        /\ \A j \in 1..Len(list) + 1 : r[j] = IF j = 1 THEN item ELSE list[j - 1]
    BY <1>1, PrependFacts
  <1> HIDE DEF r
  <1>3. \A j \in 1..Len(r) : j # 1 => \E p \in 1..Len(list) : r[j] = list[p] /\ j = p + 1
    BY <1>1, <1>2, SMT
  <1>4. /\ 1 \in 1..Len(r) /\ r[1] = item
        /\ \A p \in 1..Len(list) : p + 1 \in 1..Len(r) /\ r[p + 1] = list[p]
    BY <1>1, <1>2, SMT
  <1>5. \A p \in 1..Len(list) : list[p].key # item.key
    BY DEF KeysOf
  <1>6. \A j, p \in 1..Len(r) : r[j].key = r[p].key => j = p
    <2> SUFFICES ASSUME NEW j \in 1..Len(r), NEW p \in 1..Len(r), r[j].key = r[p].key
                 PROVE  j = p
      OBVIOUS
    <2>1. CASE j = 1 \/ p = 1
      <3>1. \A i \in 1..Len(r) : i # 1 => r[i].key # r[1].key
        <4> SUFFICES ASSUME NEW i \in 1..Len(r), i # 1 PROVE r[i].key # r[1].key
          OBVIOUS
        <4>1. PICK a \in 1..Len(list) : r[i] = list[a]
          BY <1>3
        <4> QED BY <1>4, <1>5, <4>1
      <3> QED BY <2>1, <3>1
    <2>2. CASE j # 1 /\ p # 1
      <3>1. PICK a \in 1..Len(list) : r[j] = list[a] /\ j = a + 1
        BY <1>3, <2>2
      <3>2. PICK b \in 1..Len(list) : r[p] = list[b] /\ p = b + 1
        BY <1>3, <2>2
      <3> QED BY <3>1, <3>2 DEF WellFormed
    <2> QED BY <2>1, <2>2
  <1>7. KeysOf(r) = KeysOf(list) \cup {item.key}
    <2>1. KeysOf(r) \subseteq KeysOf(list) \cup {item.key}
      BY <1>3, <1>4, SMT DEF KeysOf
    <2>2. item.key \in KeysOf(r)
      BY <1>4 DEF KeysOf
    <2>3. ASSUME NEW p \in 1..Len(list) PROVE list[p].key \in KeysOf(r)
      <3>1. p + 1 \in 1..Len(r) /\ r[p + 1] = list[p]
        BY <1>4
      <3>2. PICK q \in 1..Len(r) : q = p + 1
        BY <3>1
      <3> QED BY <3>1, <3>2 DEF KeysOf
    <2>4. KeysOf(list) \subseteq KeysOf(r)
      BY <2>3 DEF KeysOf
    <2> QED BY <2>1, <2>2, <2>4
  <1>8. WellFormed(r)
    BY <1>1, <1>2, <1>6, CapacityAssumption, SMT DEF WellFormed
  <1> QED BY <1>3, <1>4, <1>7, <1>8 DEF r

(* The element that the map of the cache has for a key is the only one in  *)
(* the list with this key.                                                 *)
LEMMA ElementFacts ==
    ASSUME NEW list, WellFormed(list), NEW p \in 1..Len(list)
    PROVE  (CHOOSE i \in 1..Len(list) : list[i].key = list[p].key) = p
  BY DEF WellFormed

(* The entry of a key is what its element holds.                           *)
LEMMA EntryFacts ==
    ASSUME WellFormed(ll), cache = KeysOf(ll)
    PROVE  /\ \A p \in 1..Len(ll) : ElementOf(ll[p].key) = p
           /\ Entries = [k \in cache |-> Stored(ll[ElementOf(k)])]
  BY ElementFacts DEF ElementOf, Entries, Stored

(* The same after a step, with the entries that the abstract cache sees.   *)
LEMMA EntryFactsNext ==
    ASSUME WellFormed(ll)', cache' = KeysOf(ll)'
    PROVE  /\ \A k : \A p \in 1..Len(ll') : ll'[p].key = k => ElementOf(k)' = p
           /\ Entries' = [k \in cache' |-> Stored(ll'[ElementOf(k)'])]
  <1>1. \A k : \A p \in 1..Len(ll') : ll'[p].key = k => ElementOf(k)' = p
    BY ElementFacts, SMT DEF ElementOf
  <1>2. Entries' = [k \in cache' |-> Stored(ll'[ElementOf(k)'])]
    BY DEF Entries, Stored
  <1> QED BY <1>1, <1>2

(* Steps that leave some of the items, in any order.                       *)
LEMMA FewerItems ==
    ASSUME LRUInv, WellFormed(ll)', cache' = KeysOf(ll)',
           \A j \in 1..Len(ll') : \E p \in 1..Len(ll) : ll'[j] = ll[p],
           UNCHANGED <<now, last>>, HitIsLast'
    PROVE  LRUInv' /\ UNCHANGED now /\ Abstract!Forget
  <1>1. LRUInv'
    BY DEF LRUInv, LastSet
  <1>2. cache' \subseteq cache
    BY DEF LRUInv, KeysOf
  <1>3. ASSUME NEW k \in cache'
        PROVE  Entries'[k] = Entries[k]
    <2>1. PICK j \in 1..Len(ll') : ll'[j].key = k
      BY DEF KeysOf
    <2>2. PICK p \in 1..Len(ll) : ll'[j] = ll[p]
      BY <2>1
    <2>3. Entries'[k] = Stored(ll'[j])
      BY <2>1, EntryFactsNext, SMT
    <2>4. Entries[k] = Stored(ll[p])
      BY <1>2, <2>1, <2>2, EntryFacts, SMT DEF LRUInv
    <2> QED BY <2>2, <2>3, <2>4
  <1>4. Entries' = [k \in cache' |-> Entries[k]]
    <2>1. Entries' = [k \in cache' |-> Entries'[k]]
      BY EntryFactsNext
    <2> QED BY <1>3, <2>1
  <1>5. DOMAIN Entries = cache
    BY DEF Entries
  <1>6. Abstract!Forget
    BY <1>2, <1>4, <1>5 DEF Abstract!Forget, Abstract!Restrict
  <1> QED BY <1>1, <1>6

(* Steps that leave the item of the key that is set, and some others.      *)
LEMMA ItemStored ==
    ASSUME LRUInv, WellFormed(ll)', cache' = KeysOf(ll)',
           NEW k \in Key, NEW v \in Value, k \in cache',
           \A j \in 1..Len(ll') :
             \/ ll'[j] = [key |-> k, value |-> v, ts |-> now]
             \/ \E p \in 1..Len(ll) : ll'[j] = ll[p] /\ ll[p].key # k,
           last' = [last EXCEPT ![k] = [value |-> v, ts |-> now]],
           UNCHANGED now, hit' = NONE
    PROVE  LRUInv' /\ UNCHANGED now /\ Abstract!Store(k, v)
  <1> DEFINE item == [key |-> k, value |-> v, ts |-> now]
             kept == cache' \ {k}
  <1>1. item.key = k /\ Stored(item) = [value |-> v, ts |-> now]
    BY DEF Stored
  <1>2. LastSet'
    <2> SUFFICES ASSUME NEW j \in 1..Len(ll')
                 PROVE  last'[ll'[j].key] = Stored(ll'[j])
      BY DEF LastSet, Stored
    <2>1. CASE ll'[j] = item
      BY <1>1, <2>1 DEF LRUInv
    <2>2. CASE \E p \in 1..Len(ll) : ll'[j] = ll[p] /\ ll[p].key # k
      <3>1. PICK p \in 1..Len(ll) : ll'[j] = ll[p] /\ ll[p].key # k
        BY <2>2
      <3>2. ll[p] \in Item
        BY ElementOfSeq DEF LRUInv, WellFormed
      <3>3. ll[p].key \in Key
        BY <3>2 DEF Item
      <3> QED BY <3>1, <3>3 DEF LRUInv, LastSet
    <2> QED BY <2>1, <2>2
  <1>3. LRUInv'
    <2>1. last' \in [Key -> [value : Value, ts : 0..MaxTime] \cup {NONE}]
      BY DEF LRUInv
    <2> QED BY <1>2, <2>1 DEF LRUInv, HitIsLast
  <1>4. kept \subseteq cache \ {k}
    <2> SUFFICES ASSUME NEW x \in kept
                 PROVE  x \in cache
      OBVIOUS
    <2>1. PICK j \in 1..Len(ll') : ll'[j].key = x
      BY DEF KeysOf
    <2> QED BY <1>1, <2>1 DEF LRUInv, KeysOf
  <1>5. ASSUME NEW x \in cache'
        PROVE  Entries'[x] = IF x = k THEN [value |-> v, ts |-> now] ELSE Entries[x]
    <2>1. PICK j \in 1..Len(ll') : ll'[j].key = x
      BY DEF KeysOf
    <2>2. Entries'[x] = Stored(ll'[j])
      BY <2>1, EntryFactsNext, SMT
    <2>3. CASE x = k
      BY <1>1, <2>1, <2>2, <2>3
    <2>4. CASE x # k
      <3>1. PICK p \in 1..Len(ll) : ll'[j] = ll[p]
        BY <1>1, <2>1, <2>4
      <3>2. Entries[x] = Stored(ll[p])
        BY <1>4, <2>1, <2>4, <3>1, EntryFacts, SMT DEF LRUInv
      <3> QED BY <2>2, <2>4, <3>1, <3>2
    <2> QED BY <2>3, <2>4
  <1>6. Entries' = [x \in kept \cup {k} |->
                      IF x = k THEN [value |-> v, ts |-> now] ELSE Entries[x]]
    <2>1. Entries' = [x \in cache' |-> Entries'[x]] /\ cache' = kept \cup {k}
      BY EntryFactsNext
    <2> QED BY <1>5, <2>1
  <1>7. DOMAIN Entries = cache
    BY DEF Entries
  <1>8. Abstract!Store(k, v)
    BY <1>4, <1>6, <1>7 DEF Abstract!Store
  <1> QED BY <1>3, <1>8

-----------------------------------------------------------------------------
(* The operations.                                                         *)
LEMMA ElementOfKey ==
    ASSUME LRUInv, NEW k \in cache
    PROVE  /\ ElementOf(k) \in 1..Len(ll) /\ ll[ElementOf(k)].key = k
           /\ ll[ElementOf(k)] \in Item /\ k \in Key
  <1>1. PICK p \in 1..Len(ll) : ll[p].key = k
    BY DEF LRUInv, KeysOf
  <1>2. ElementOf(k) = p
    BY <1>1, EntryFacts DEF LRUInv
  <1>3. ll[p] \in Item
    BY ElementOfSeq DEF LRUInv, WellFormed
  <1> QED BY <1>1, <1>2, <1>3 DEF Item

(* The element of a key is taken out of the list and put in front, as it   *)
(* was or with a new value.                                                *)
LEMMA MoveFacts ==
    ASSUME LRUInv, NEW k \in cache, NEW item \in Item, item.key = k
    PROVE  LET r == <<item>> \o RemoveAt(ll, ElementOf(k))
           IN  /\ WellFormed(r) /\ KeysOf(r) = cache
               /\ \A j \in 1..Len(r) :
                    \/ r[j] = item
                    \/ \E p \in 1..Len(ll) : r[j] = ll[p] /\ ll[p].key # k
  <1> DEFINE e == ElementOf(k)
             s == RemoveAt(ll, e)
             r == <<item>> \o s
  <1>1. e \in 1..Len(ll) /\ ll[e].key = k
    BY ElementOfKey
  <1>2. WellFormed(ll) /\ cache = KeysOf(ll) /\ Len(ll) \in Nat /\ Len(ll) <= Capacity
    BY LenProperties DEF LRUInv, WellFormed
  <1> HIDE DEF e
  <1>3. /\ WellFormed(s) /\ Len(s) < Len(ll) /\ KeysOf(s) = cache \ {k}
        /\ \A j \in 1..Len(s) : \E p \in 1..Len(ll) : s[j] = ll[p] /\ p # e
    <2>1. /\ WellFormed(s) /\ Len(s) < Len(ll) /\ KeysOf(s) = KeysOf(ll) \ {ll[e].key}
          /\ \A j \in 1..Len(s) : \E p \in 1..Len(ll) : s[j] = ll[p] /\ p # e
      BY <1>1, <1>2, RemoveAtWellFormed
    <2> HIDE DEF s
    <2> QED BY <1>1, <1>2, <2>1
  <1> HIDE DEF s
  <1>4. Len(s) \in Nat /\ Len(s) < Capacity
    BY <1>2, <1>3, LenProperties, CapacityAssumption, SMT DEF WellFormed
  <1>5. /\ WellFormed(r) /\ KeysOf(r) = KeysOf(s) \cup {k}
        /\ \A j \in 1..Len(r) : r[j] = item \/ \E p \in 1..Len(s) : r[j] = s[p]
    <2>1. WellFormed(s) /\ item.key \notin KeysOf(s)
      BY <1>3
    <2>2. WellFormed(r)
      BY <1>4, <2>1, PrependWellFormed
    <2>3. KeysOf(r) = KeysOf(s) \cup {item.key}
      BY <1>4, <2>1, PrependWellFormed
    <2>4. ASSUME NEW j \in 1..Len(r), r[j] # item
          PROVE  \E p \in 1..Len(s) : r[j] = s[p]
      BY <1>4, <2>1, <2>4, PrependWellFormed
    <2> HIDE DEF r
    <2> QED BY <2>2, <2>3, <2>4
  <1> HIDE DEF r
  <1>6. \A p \in 1..Len(ll) : p # e => ll[p].key # k
    BY <1>1, <1>2 DEF WellFormed
  <1>7. KeysOf(r) = cache
    BY <1>3, <1>5
  <1>8. ASSUME NEW j \in 1..Len(r), r[j] # item
        PROVE  \E p \in 1..Len(ll) : r[j] = ll[p] /\ ll[p].key # k
    BY <1>3, <1>5, <1>6, <1>8
  <1> QED BY <1>5, <1>7, <1>8 DEF r, s, e

(* The second critical section of Get drops an expired entry or moves a    *)
(* fresh one to the front, which the abstract cache cannot see.            *)
LEMMA GetLockedStep ==
    ASSUME LRUInv, NEW t \in Thread, GetLocked(t)
    PROVE  LRUInv' /\ UNCHANGED now /\ (Abstract!Forget \/ UNCHANGED Entries)
  <1> DEFINE k == pc[t]
             e == ElementOf(k)
  <1>0. UNCHANGED <<now, last>>
    BY DEF GetLocked
  <1>1. CASE k \notin cache
    <2>1. UNCHANGED <<ll, cache>> /\ hit' = NONE
      BY <1>1 DEF GetLocked
    <2>2. LRUInv'
      BY <1>0, <2>1, SMT DEF LRUInv, WellFormed, KeysOf, LastSet, HitIsLast
    <2> QED BY <1>0, <2>1, <2>2 DEF Entries, ElementOf
  <1>2. CASE k \in cache /\ Expired(ll[e])
    <2>1. ll' = RemoveAt(ll, e) /\ cache' = cache \ {k} /\ hit' = NONE
      BY <1>2 DEF GetLocked
    <2>2. e \in 1..Len(ll) /\ ll[e].key = k
      BY <1>2, ElementOfKey
    <2> HIDE DEF e, k
    <2>3. /\ WellFormed(ll)' /\ cache' = KeysOf(ll)'
          /\ \A j \in 1..Len(ll') : \E p \in 1..Len(ll) : ll'[j] = ll[p]
      <3>1. WellFormed(ll) /\ cache = KeysOf(ll)
        BY DEF LRUInv
      <3>2. /\ WellFormed(RemoveAt(ll, e)) /\ KeysOf(RemoveAt(ll, e)) = KeysOf(ll) \ {ll[e].key}
            /\ \A j \in 1..Len(RemoveAt(ll, e)) : \E p \in 1..Len(ll) :
                 RemoveAt(ll, e)[j] = ll[p] /\ p # e
        BY <2>2, <3>1, RemoveAtWellFormed
      <3>3. \A list : list = ll' => WellFormed(list) = WellFormed(ll)' /\ KeysOf(list) = KeysOf(ll)'
        BY DEF WellFormed, KeysOf
      <3> QED BY <2>1, <2>2, <3>1, <3>2, <3>3
    <2>4. HitIsLast'
      BY <2>1 DEF HitIsLast
    <2> QED BY <1>0, <2>3, <2>4, FewerItems
  <1>3. CASE k \in cache /\ ~Expired(ll[e])
    <2>1. /\ ll' = <<ll[e]>> \o RemoveAt(ll, e)
          /\ cache' = cache /\ hit' = <<k, ll[e].value>>
      BY <1>3 DEF GetLocked, Take, MoveToFront
    <2>2. e \in 1..Len(ll) /\ ll[e].key = k /\ ll[e] \in Item /\ k \in Key
      BY <1>3, ElementOfKey
    <2>3. /\ WellFormed(ll)' /\ KeysOf(ll)' = cache
          /\ \A j \in 1..Len(ll') : \E p \in 1..Len(ll) : ll'[j] = ll[p]
      BY <1>3, <2>1, <2>2, MoveFacts
    <2> HIDE DEF e, k
    <2>4. last[k] = [value |-> ll[e].value, ts |-> ll[e].ts]
      BY <2>2 DEF LRUInv, LastSet, Stored
    <2>5. /\ ll[e].value \in Value /\ ll[e].ts \in 0..MaxTime
          /\ now <= ll[e].ts + TTL
      BY <1>3, <2>2, CapacityAssumption, SMT DEF Item, Expired, LRUInv
    <2>6. HitIsLast'
      BY <1>0, <2>1, <2>2, <2>4, <2>5 DEF HitIsLast
    <2> QED BY <1>0, <2>1, <2>3, <2>6, FewerItems
  <1> QED BY <1>1, <1>2, <1>3

(* An element that is given a new value in place and then moved to the     *)
(* front is replaced by the new item there.                                *)
LEMMA RenewedMoves ==
    ASSUME LRUInv, NEW k \in cache, NEW item \in Item
    PROVE  MoveToFront([ll EXCEPT ![ElementOf(k)] = item], ElementOf(k))
             = <<item>> \o RemoveAt(ll, ElementOf(k))
  <1> DEFINE e == ElementOf(k)
  <1>0. e \in 1..Len(ll)
    BY ElementOfKey
  <1> DEFINE n == [ll EXCEPT ![e] = item]
  <1>1. ll \in Seq(Item) /\ Len(ll) \in Nat
    BY LenProperties DEF LRUInv, WellFormed
  <1> HIDE DEF e
  <1>2. /\ n \in Seq(Item) /\ Len(n) = Len(ll) /\ n[e] = item
        /\ \A j \in 1..Len(ll) : j # e => n[j] = ll[j]
    BY <1>0, <1>1, ExceptSeq, SMT
  <1> HIDE DEF n
  <1>3. /\ RemoveAt(n, e) \in Seq(Item) /\ Len(RemoveAt(n, e)) = Len(ll) - 1
        /\ \A j \in 1..Len(ll) - 1 :
             RemoveAt(n, e)[j] = IF j < e THEN n[j] ELSE n[j + 1]
    <2>1. e \in 1..Len(n)
      BY <1>0, <1>2
    <2>2. /\ RemoveAt(n, e) \in Seq(Item) /\ Len(RemoveAt(n, e)) = Len(n) - 1
          /\ \A j \in 1..Len(n) - 1 :
               RemoveAt(n, e)[j] = IF j < e THEN n[j] ELSE n[j + 1]
      BY <1>2, <2>1, RemoveAtFacts
    <2> QED BY <1>2, <2>2
  <1>4. /\ RemoveAt(ll, e) \in Seq(Item) /\ Len(RemoveAt(ll, e)) = Len(ll) - 1
        /\ \A j \in 1..Len(ll) - 1 :
             RemoveAt(ll, e)[j] = IF j < e THEN ll[j] ELSE ll[j + 1]
    BY <1>0, <1>1, RemoveAtFacts
  <1>5. \A j \in 1..Len(ll) - 1 : RemoveAt(n, e)[j] = RemoveAt(ll, e)[j]
    <2> SUFFICES ASSUME NEW j \in 1..Len(ll) - 1
                 PROVE  RemoveAt(n, e)[j] = RemoveAt(ll, e)[j]
      OBVIOUS
    <2>1. CASE j < e
      <3>1. j \in 1..Len(ll) /\ j # e
        BY <1>0, <1>1, <2>1, SMT
      <3> QED BY <1>2, <1>3, <1>4, <2>1, <3>1
    <2>2. CASE ~(j < e)
      <3>1. j + 1 \in 1..Len(ll) /\ j + 1 # e
        BY <1>0, <1>1, <2>2, SMT
      <3> QED BY <1>2, <1>3, <1>4, <2>2, <3>1
    <2> QED BY <2>1, <2>2
  <1>6. RemoveAt(n, e) = RemoveAt(ll, e)
    BY <1>3, <1>4, <1>5, SeqEqual
  <1> QED BY <1>2, <1>6 DEF MoveToFront, n, e

(* The list without its last element.                                      *)
LEMMA FrontIsRemoval ==
    ASSUME NEW list \in Seq(Item)
    PROVE  Front(list) = RemoveAt(list, Len(list))
  <1>0. Len(list) \in Nat
    BY LenProperties
  <1>1. SubSeq(list, Len(list) + 1, Len(list)) = << >>
    BY <1>0, SubSeqEmpty, SMT
  <1>2. SubSeq(list, 1, Len(list) - 1) \in Seq(Item)
    BY <1>0, SubSeqProperties, LenProperties, SMT
  <1> QED BY <1>1, <1>2, ConcatEmptySeq DEF RemoveAt, Front

(* Set stores the value at the current time, after it has evicted the      *)
(* oldest entry if need be.                                                *)
LEMMA SetStep ==
    ASSUME LRUInv, NEW k \in Key, NEW v \in Value, Set(k, v)
    PROVE  LRUInv' /\ UNCHANGED now /\ Abstract!Store(k, v)
  <1> DEFINE item == [key |-> k, value |-> v, ts |-> now]
             e == ElementOf(k)
  <1>0. /\ UNCHANGED now /\ hit' = NONE
        /\ last' = [last EXCEPT ![k] = [value |-> v, ts |-> now]]
    BY DEF Set
  <1>1. item \in Item /\ item.key = k
    BY DEF Item, LRUInv
  <1>2. CASE k \in cache
    <2>1. /\ ll' = MoveToFront([ll EXCEPT ![e] = Renewed(ll[e], v)], e)
          /\ cache' = cache
      BY <1>2 DEF Set
    <2>2. e \in 1..Len(ll) /\ ll[e].key = k /\ ll[e] \in Item
      BY <1>2, ElementOfKey
    <2>3. Renewed(ll[e], v) = item
      BY <2>2 DEF Renewed
    <2>4. MoveToFront([ll EXCEPT ![e] = item], e) = <<item>> \o RemoveAt(ll, e)
      BY <1>1, <1>2, RenewedMoves
    <2>5. ll' = <<item>> \o RemoveAt(ll, e)
      BY <2>1, <2>3, <2>4
    <2>6. /\ WellFormed(ll)' /\ KeysOf(ll)' = cache
          /\ \A j \in 1..Len(ll') :
               \/ ll'[j] = item
               \/ \E p \in 1..Len(ll) : ll'[j] = ll[p] /\ ll[p].key # k
      BY <1>1, <1>2, <2>5, MoveFacts
    <2> QED BY <1>0, <1>2, <2>1, <2>6, ItemStored
  <1>3. CASE k \notin cache
    <2> DEFINE room == IF Len(ll) >= Capacity THEN EvictOldest(ll, cache)
                       ELSE [list |-> ll, keys |-> cache]
               s == room.list
    <2>1. ll' = <<item>> \o s /\ cache' = room.keys \cup {k}
      BY <1>3 DEF Set
    <2>2. /\ WellFormed(ll) /\ cache = KeysOf(ll) /\ ll \in Seq(Item)
          /\ Len(ll) \in Nat /\ Len(ll) <= Capacity
      BY LenProperties DEF LRUInv, WellFormed
    <2>3. /\ WellFormed(s) /\ Len(s) < Capacity /\ room.keys = KeysOf(s)
          /\ KeysOf(s) \subseteq cache
          /\ \A j \in 1..Len(s) : \E p \in 1..Len(ll) : s[j] = ll[p]
      <3>1. CASE Len(ll) < Capacity
        BY <2>2, <3>1, CapacityAssumption, SMT
      <3>2. CASE Len(ll) >= Capacity
        <4>1. Len(ll) \in 1..Len(ll) /\ Len(ll) = Capacity
          BY <2>2, <3>2, CapacityAssumption, SMT
        <4>2. s = Front(ll) /\ room.keys = cache \ {Last(ll).key}
          BY <3>2 DEF EvictOldest
        <4>3. Front(ll) = RemoveAt(ll, Len(ll))
          BY <2>2, FrontIsRemoval
        <4> HIDE DEF room
        <4> QED BY <2>2, <4>1, <4>2, <4>3, RemoveAtWellFormed, SMT DEF Last
      <3> QED BY <2>2, <3>1, <3>2, CapacityAssumption, SMT
    <2> HIDE DEF s, room
    <2>4. /\ WellFormed(ll)' /\ KeysOf(ll)' = KeysOf(s) \cup {k}
          /\ \A j \in 1..Len(ll') :
               ll'[j] = item \/ \E p \in 1..Len(s) : ll'[j] = s[p]
      BY <1>1, <1>3, <2>1, <2>3, PrependWellFormed, SMT
    <2>5. cache' = KeysOf(ll)' /\ k \in cache'
      BY <2>1, <2>3, <2>4
    <2>6. \A p \in 1..Len(ll) : ll[p].key # k
      BY <1>3, <2>2 DEF KeysOf
    <2>7. \A j \in 1..Len(ll') :
            \/ ll'[j] = item
            \/ \E p \in 1..Len(ll) : ll'[j] = ll[p] /\ ll[p].key # k
      BY <2>3, <2>4, <2>6, ZenonT(60)
    <2> QED BY <1>0, <2>4, <2>5, <2>7, ItemStored
  <1> QED BY <1>2, <1>3

(* Remove drops at most the entry of its key.                              *)
LEMMA RemoveKeyStep ==
    ASSUME LRUInv, NEW k \in Key, RemoveKey(k)
    PROVE  LRUInv' /\ UNCHANGED now /\ Abstract!Forget
  <1> DEFINE e == ElementOf(k)
  <1>1. /\ ll' = RemoveAt(ll, e) /\ cache' = cache \ {k} /\ hit' = NONE
        /\ UNCHANGED <<now, last>>
    BY DEF RemoveKey
  <1>2. e \in 1..Len(ll) /\ ll[e].key = k
    BY ElementOfKey DEF RemoveKey
  <1> HIDE DEF e
  <1>3. /\ WellFormed(ll)' /\ cache' = KeysOf(ll)'
        /\ \A j \in 1..Len(ll') : \E p \in 1..Len(ll) : ll'[j] = ll[p]
    BY <1>1, <1>2, RemoveAtWellFormed, SMT DEF LRUInv
  <1> QED BY <1>1, <1>3, FewerItems DEF HitIsLast

(* Clear drops everything.                                                 *)
LEMMA ClearStep ==
    ASSUME LRUInv, Clear
    PROVE  LRUInv' /\ UNCHANGED now /\ Abstract!Forget
  <1>1. ll' = << >> /\ cache' = {} /\ hit' = NONE /\ UNCHANGED <<now, last>>
    BY DEF Clear
  <1>2. Len(ll') = 0 /\ ll' \in Seq(Item)
    BY <1>1, EmptySeq
  <1>3. WellFormed(ll)' /\ cache' = KeysOf(ll)'
    BY <1>1, <1>2, CapacityAssumption, SMT DEF WellFormed, KeysOf
  <1> QED BY <1>1, <1>2, <1>3, FewerItems, SMT DEF HitIsLast

(* The cleanup drops entries, and only expired ones.                       *)
LEMMA RemoveExpiredStep ==
    ASSUME LRUInv, RemoveExpired
    PROVE  LRUInv' /\ UNCHANGED now /\ Abstract!Forget
  <1> DEFINE expired == {i \in 1..Len(ll) : Expired(ll[i])}
             kept == (1..Len(ll)) \ expired
  <1>1. /\ cache' = cache \ {ll[i].key : i \in expired}
        /\ hit' = NONE /\ UNCHANGED <<now, last>>
    BY DEF RemoveExpired
  <1>2. PICK n \in 0..Len(ll) : \E place \in [1..n -> kept] :
          /\ kept = {place[i] : i \in 1..n}
          /\ \A i, j \in 1..n : i < j => place[i] < place[j]
          /\ ll' = [i \in 1..n |-> ll[place[i]]]
    BY DEF RemoveExpired
  <1>3. PICK place \in [1..n -> kept] :
          /\ kept = {place[i] : i \in 1..n}
          /\ \A i, j \in 1..n : i < j => place[i] < place[j]
          /\ ll' = [i \in 1..n |-> ll[place[i]]]
    BY <1>2
  <1>4. /\ WellFormed(ll) /\ cache = KeysOf(ll) /\ ll \in Seq(Item)
        /\ Len(ll) \in Nat /\ Len(ll) <= Capacity /\ n \in Nat /\ n <= Capacity
    BY LenProperties, CapacityAssumption, SMT DEF LRUInv, WellFormed
  <1>5. expired \subseteq 1..Len(ll) /\ kept \subseteq 1..Len(ll) /\ kept \cap expired = {}
        /\ expired \cup kept = 1..Len(ll)
    OBVIOUS
  <1> HIDE DEF expired, kept
  <1>6. \A i \in 1..n : place[i] \in 1..Len(ll) /\ ll[place[i]] \in Item
    BY <1>3, <1>4, <1>5, ElementOfSeq
  <1>7. ll' \in Seq(Item) /\ Len(ll') = n
    <2>1. ll' \in [1..n -> Item]
      BY <1>3, <1>6
    <2> QED BY <1>4, <2>1, IsASequence
  <1>8. \A j \in 1..Len(ll') : place[j] \in kept /\ ll'[j] = ll[place[j]]
    BY <1>3, <1>7
  <1>9. \A i, j \in 1..n : place[i] = place[j] => i = j
    <2>1. \A i \in 1..n : place[i] \in Int
      BY <1>4, <1>6, SMT
    <2>2. \A i, j \in 1..n : i < j => place[i] < place[j]
      BY <1>3
    <2> QED BY <1>4, <2>1, <2>2, SMT
  <1>10. WellFormed(ll)'
    BY <1>4, <1>5, <1>7, <1>8, <1>9, SMT DEF WellFormed
  <1>11. KeysOf(ll)' = {ll[p].key : p \in kept}
    <2>1. \A p \in kept : \E j \in 1..Len(ll') : ll'[j] = ll[p]
      BY <1>3, <1>7, <1>8
    <2>2. KeysOf(ll)' \subseteq {ll[p].key : p \in kept}
      BY <1>8, SMT DEF KeysOf
    <2>3. {ll[p].key : p \in kept} \subseteq KeysOf(ll)'
      BY <2>1 DEF KeysOf
    <2> QED BY <2>2, <2>3
  <1>12. cache' = {ll[p].key : p \in kept}
    <2>1. \A p \in kept : ll[p].key \in cache'
      BY <1>1, <1>4, <1>5 DEF WellFormed, KeysOf
    <2>2. \A k \in cache' : \E p \in kept : k = ll[p].key
      BY <1>1, <1>4, <1>5 DEF KeysOf
    <2>3. cache' \subseteq {ll[p].key : p \in kept}
      BY <2>2
    <2> QED BY <2>1, <2>3
  <1>13. \A j \in 1..Len(ll') : \E p \in 1..Len(ll) : ll'[j] = ll[p]
    BY <1>5, <1>8
  <1> QED BY <1>1, <1>10, <1>11, <1>12, <1>13, FewerItems, ZenonT(60) DEF HitIsLast

(* A step keeps the invariant, and the builders see it as a step of        *)
(* TTLCache or do not see it at all.                                       *)
LEMMA LRUNextStep ==
    ASSUME LRUInv, [Next]_vars
    PROVE  LRUInv' /\ [Abstract!Next]_<<Entries, now>>
  <1>1. CASE UNCHANGED vars
    <2>1. LRUInv'
      <3>1. UNCHANGED <<ll, cache, hit, now, last>>
        BY <1>1 DEF vars
      <3>2. UNCHANGED HitIsLast
        BY <3>1 DEF HitIsLast
      <3> QED BY <3>1, <3>2 DEF LRUInv, WellFormed, KeysOf, LastSet
    <2>2. UNCHANGED <<Entries, now>>
      BY <1>1 DEF vars, Entries, ElementOf
    <2> QED BY <2>1, <2>2
  <1>2. ASSUME NEW t \in Thread, NEW k \in Key, GetLookup(t, k)
        PROVE  LRUInv' /\ UNCHANGED <<Entries, now>>
    BY <1>2, SMT DEF GetLookup, LRUInv, WellFormed, KeysOf, LastSet, HitIsLast, Entries,
       ElementOf
  <1>3. CASE Tick
    <2>1. UNCHANGED <<ll, cache, last>> /\ hit' = NONE /\ now' = now + 1
      BY <1>3 DEF Tick
    <2>2. now' \in 0..MaxTime
      BY <1>3, CapacityAssumption, SMT DEF Tick, LRUInv
    <2>3. LRUInv'
      BY <2>1, <2>2, SMT DEF LRUInv, WellFormed, KeysOf, LastSet, HitIsLast
    <2>4. UNCHANGED Entries
      BY <2>1 DEF Entries, ElementOf
    <2> QED BY <2>1, <2>3, <2>4 DEF Abstract!Next
  <1>4. ASSUME NEW t \in Thread, GetLocked(t)
        PROVE  LRUInv' /\ [Abstract!Next]_<<Entries, now>>
    BY <1>4, GetLockedStep DEF Abstract!Next
  <1>5. ASSUME NEW k \in Key, NEW v \in Value, Set(k, v)
        PROVE  LRUInv' /\ Abstract!Next
    BY <1>5, SetStep DEF Abstract!Next
  <1>6. ASSUME NEW k \in Key, RemoveKey(k)
        PROVE  LRUInv' /\ Abstract!Next
    BY <1>6, RemoveKeyStep DEF Abstract!Next
  <1>7. CASE Clear \/ RemoveExpired
    BY <1>7, ClearStep, RemoveExpiredStep DEF Abstract!Next
  <1> QED BY <1>1, <1>2, <1>3, <1>4, <1>5, <1>6, <1>7, ZenonT(60) DEF Next

(* The cache is empty at the start, in both views.                         *)
LEMMA LRUInitially == Init => LRUInv /\ Abstract!Init
  <1> SUFFICES ASSUME Init
               PROVE  LRUInv /\ Abstract!Init
    OBVIOUS
  <1>1. ll = << >> /\ Len(ll) = 0 /\ ll \in Seq(Item)
    BY EmptySeq DEF Init
  <1>2. WellFormed(ll) /\ KeysOf(ll) = {} /\ LastSet
    BY <1>1, CapacityAssumption, SMT DEF WellFormed, KeysOf, LastSet
  <1>3. LRUInv
    BY <1>2, CapacityAssumption, SMT DEF Init, LRUInv, HitIsLast
  <1>4. Abstract!Init
    BY DEF Init, Abstract!Init, Abstract!Empty, Entries
  <1> QED BY <1>3, <1>4

-----------------------------------------------------------------------------
(* The order of the list is the order of use.                              *)
Ordered(list, used) ==
    \A i, j \in 1..Len(list) : i < j => <<list[i].key, list[j].key>> \in used

Touched(used, k) == {p \in used : p[2] # k} \cup ({k} \X (Key \ {k}))

(* What is left of an ordered list is in order.                            *)
LEMMA OrderedRest ==
    ASSUME NEW list \in Seq(Item), NEW e \in 1..Len(list), NEW used, Ordered(list, used)
    PROVE  Ordered(RemoveAt(list, e), used)
  <1> DEFINE r == RemoveAt(list, e)
             from(x) == IF x < e THEN x ELSE x + 1
  <1>1. /\ Len(list) \in Nat /\ Len(r) = Len(list) - 1
        /\ \A j \in 1..Len(list) - 1 : r[j] = list[from(j)]
    BY RemoveAtFacts, LenProperties
  <1> HIDE DEF r
  <1> SUFFICES ASSUME NEW i \in 1..Len(r), NEW j \in 1..Len(r), i < j
               PROVE  <<r[i].key, r[j].key>> \in used
    BY DEF Ordered, r
  <1>2. /\ from(i) \in 1..Len(list) /\ from(j) \in 1..Len(list) /\ from(i) < from(j)
        /\ i \in 1..Len(list) - 1 /\ j \in 1..Len(list) - 1
    BY <1>1, SMT
  <1>3. r[i] = list[from(i)] /\ r[j] = list[from(j)]
    BY <1>1, <1>2
  <1> HIDE DEF from
  <1> QED BY <1>2, <1>3 DEF Ordered

(* Pushing the item that has just been used keeps a list in order.         *)
LEMMA OrderedFront ==
    ASSUME NEW list \in Seq(Item), NEW item \in Item, item.key \notin KeysOf(list),
           NEW used, Ordered(list, used)
    PROVE  Ordered(<<item>> \o list, Touched(used, item.key))
  <1> DEFINE r == <<item>> \o list
             k == item.key
  <1>1. /\ Len(list) \in Nat /\ Len(r) = Len(list) + 1
        /\ \A j \in 1..Len(list) + 1 : r[j] = IF j = 1 THEN item ELSE list[j - 1]
    BY PrependFacts, LenProperties
  <1> HIDE DEF r
  <1>2. \A p \in 1..Len(list) : list[p].key \in Key /\ list[p].key # k
    <2>1. \A p \in 1..Len(list) : list[p] \in Item
      BY ElementOfSeq
    <2> QED BY <2>1 DEF KeysOf, Item
  <1> SUFFICES ASSUME NEW i \in 1..Len(r), NEW j \in 1..Len(r), i < j
               PROVE  <<r[i].key, r[j].key>> \in Touched(used, k)
    BY DEF Ordered, r
  <1>3. j - 1 \in 1..Len(list) /\ r[j] = list[j - 1]
    BY <1>1, SMT
  <1>4. PICK q \in 1..Len(list) : q = j - 1 /\ r[j] = list[q]
    BY <1>3
  <1>5. CASE i = 1
    <2>1. r[i].key = k
      BY <1>1, <1>5, SMT
    <2> QED BY <1>2, <1>4, <2>1 DEF Touched
  <1>6. CASE i # 1
    <2>1. PICK p \in 1..Len(list) : r[i] = list[p] /\ p < q
      <3>1. i - 1 \in 1..Len(list) /\ r[i] = list[i - 1] /\ i - 1 < q
        BY <1>1, <1>4, <1>6, SMT
      <3> QED BY <3>1
    <2>2. <<list[p].key, list[q].key>> \in used
      BY <2>1 DEF Ordered
    <2>3. <<list[p].key, list[q].key>>[2] = list[q].key
      BY SMT
    <2>4. <<list[p].key, list[q].key>>[2] # k
      BY <1>2, <2>3
    <2> QED BY <1>4, <2>1, <2>2, <2>4 DEF Touched
  <1> QED BY <1>5, <1>6

(* An item that is moved to the front when it is used keeps the order.     *)
LEMMA OrderedMove ==
    ASSUME LRUInv, NEW k \in cache, NEW item \in Item, item.key = k, NEW used, Ordered(ll, used)
    PROVE  Ordered(<<item>> \o RemoveAt(ll, ElementOf(k)), Touched(used, k))
  <1> DEFINE e == ElementOf(k)
             s == RemoveAt(ll, e)
  <1>1. /\ e \in 1..Len(ll) /\ ll[e].key = k /\ WellFormed(ll) /\ ll \in Seq(Item)
    BY ElementOfKey DEF LRUInv, WellFormed
  <1> HIDE DEF e
  <1>2. WellFormed(s) /\ KeysOf(s) = KeysOf(ll) \ {ll[e].key}
    BY <1>1, RemoveAtWellFormed
  <1>3. Ordered(s, used)
    BY <1>1, OrderedRest
  <1> HIDE DEF s
  <1>4. s \in Seq(Item) /\ k \notin KeysOf(s)
    BY <1>1, <1>2 DEF WellFormed
  <1> QED BY <1>3, <1>4, OrderedFront DEF s, e

(* Every step keeps the list in the order of use.                          *)
LEMMA OrderStep ==
    ASSUME LRUInv, OrderedByUse, [Next]_vars
    PROVE  OrderedByUse'
  <1>0. /\ Ordered(ll, recency) /\ WellFormed(ll) /\ cache = KeysOf(ll) /\ ll \in Seq(Item)
        /\ Len(ll) \in Nat /\ Len(ll) <= Capacity
    BY LenProperties DEF LRUInv, WellFormed, Ordered, OrderedByUse
  <1>1. ASSUME Ordered(ll', recency') PROVE OrderedByUse'
    BY <1>1 DEF Ordered, OrderedByUse
  <1>2. ASSUME UNCHANGED <<ll, recency>> PROVE OrderedByUse'
    BY <1>0, <1>1, <1>2
  <1>3. CASE UNCHANGED vars \/ Tick \/ \E t \in Thread, k \in Key : GetLookup(t, k)
    BY <1>2, <1>3 DEF vars, Tick, GetLookup
  <1>4. ASSUME NEW t \in Thread, GetLocked(t) PROVE OrderedByUse'
    <2> DEFINE k == pc[t]
               e == ElementOf(k)
    <2>1. CASE k \notin cache
      BY <1>2, <1>4, <2>1 DEF GetLocked
    <2>2. CASE k \in cache /\ Expired(ll[e])
      <3>1. ll' = RemoveAt(ll, e) /\ recency' = recency
        BY <1>4, <2>2 DEF GetLocked
      <3>2. e \in 1..Len(ll)
        BY <2>2, ElementOfKey
      <3> HIDE DEF e
      <3> QED BY <1>0, <1>1, <3>1, <3>2, OrderedRest
    <2>3. CASE k \in cache /\ ~Expired(ll[e])
      <3>1. ll' = <<ll[e]>> \o RemoveAt(ll, e) /\ recency' = Touched(recency, k)
        BY <1>4, <2>3 DEF GetLocked, Take, MoveToFront, Touch, Touched
      <3>2. ll[e] \in Item /\ ll[e].key = k
        BY <2>3, ElementOfKey
      <3>3. Ordered(<<ll[e]>> \o RemoveAt(ll, e), Touched(recency, k))
        BY <1>0, <2>3, <3>2, OrderedMove
      <3> QED BY <1>1, <3>1, <3>3
    <2> QED BY <2>1, <2>2, <2>3
  <1>5. ASSUME NEW k \in Key, NEW v \in Value, Set(k, v) PROVE OrderedByUse'
    <2> DEFINE item == [key |-> k, value |-> v, ts |-> now]
               e == ElementOf(k)
    <2>0. item \in Item /\ item.key = k
      BY DEF Item, LRUInv
    <2>1. recency' = Touched(recency, k)
      BY <1>5 DEF Set, Touch, Touched
    <2>2. CASE k \in cache
      <3>1. ll' = MoveToFront([ll EXCEPT ![e] = Renewed(ll[e], v)], e)
        BY <1>5, <2>2 DEF Set
      <3>2. Renewed(ll[e], v) = item
        BY <2>2, ElementOfKey DEF Renewed
      <3>3. ll' = <<item>> \o RemoveAt(ll, e)
        BY <2>0, <2>2, <3>1, <3>2, RenewedMoves
      <3>4. Ordered(<<item>> \o RemoveAt(ll, e), Touched(recency, k))
        BY <1>0, <2>0, <2>2, OrderedMove
      <3> QED BY <1>1, <2>1, <3>3, <3>4
    <2>3. CASE k \notin cache
      <3> DEFINE room == IF Len(ll) >= Capacity THEN EvictOldest(ll, cache)
                         ELSE [list |-> ll, keys |-> cache]
                 s == room.list
      <3>1. ll' = <<item>> \o s
        BY <1>5, <2>3 DEF Set
      <3>2. s \in Seq(Item) /\ k \notin KeysOf(s) /\ Ordered(s, recency)
        <4>1. CASE ~(Len(ll) >= Capacity)
          <5>1. s = ll
            BY <4>1
          <5> QED BY <1>0, <2>3, <5>1
        <4>2. CASE Len(ll) >= Capacity
          <5>1. s = RemoveAt(ll, Len(ll))
            BY <1>0, <4>2, FrontIsRemoval DEF EvictOldest
          <5>2. Len(ll) \in 1..Len(ll)
            BY <1>0, <4>2, CapacityAssumption, SMT
          <5>3. PICK n \in 1..Len(ll) : n = Len(ll)
            BY <5>2
          <5>4. WellFormed(RemoveAt(ll, n)) /\ KeysOf(RemoveAt(ll, n)) = KeysOf(ll) \ {ll[n].key}
            BY <1>0, RemoveAtWellFormed
          <5>5. Ordered(RemoveAt(ll, n), recency)
            BY <1>0, OrderedRest
          <5> HIDE DEF s
          <5> QED BY <1>0, <2>3, <5>1, <5>3, <5>4, <5>5 DEF WellFormed
        <4> QED BY <4>1, <4>2
      <3> HIDE DEF s
      <3>3. Ordered(<<item>> \o s, Touched(recency, k))
        BY <2>0, <3>2, OrderedFront
      <3> QED BY <1>1, <2>1, <3>1, <3>3
    <2> QED BY <2>2, <2>3
  <1>6. ASSUME NEW k \in Key, RemoveKey(k) PROVE OrderedByUse'
    <2>1. PICK e \in 1..Len(ll) : ll' = RemoveAt(ll, e) /\ recency' = recency
      BY <1>6, ElementOfKey DEF RemoveKey
    <2> QED BY <1>0, <1>1, <2>1, OrderedRest
  <1>7. CASE Clear
    <2>1. ll' = << >> /\ Len(ll') = 0
      BY <1>7, EmptySeq DEF Clear
    <2> QED BY <1>1, <2>1, SMT DEF Ordered
  <1>8. CASE RemoveExpired
    <2> DEFINE kept == (1..Len(ll)) \ {i \in 1..Len(ll) : Expired(ll[i])}
    <2>1. recency' = recency /\ kept \subseteq 1..Len(ll)
      BY <1>8 DEF RemoveExpired
    <2>2. PICK n \in 0..Len(ll) : \E place \in [1..n -> kept] :
            /\ \A i, j \in 1..n : i < j => place[i] < place[j]
            /\ ll' = [i \in 1..n |-> ll[place[i]]]
      BY <1>8 DEF RemoveExpired
    <2> HIDE DEF kept
    <2>3. PICK place \in [1..n -> kept] :
            /\ \A i, j \in 1..n : i < j => place[i] < place[j]
            /\ ll' = [i \in 1..n |-> ll[place[i]]]
      BY <2>2
    <2>4. \A i \in 1..n : place[i] \in 1..Len(ll) /\ ll[place[i]] \in Item
      BY <1>0, <2>1, <2>3, ElementOfSeq
    <2>5. Len(ll') = n
      <3>1. ll' \in [1..n -> Item] /\ n \in Nat
        BY <2>2, <2>3, <2>4, SMT
      <3> QED BY <3>1, IsASequence
    <2>6. ASSUME NEW i \in 1..n, NEW j \in 1..n, i < j
          PROVE  <<ll'[i].key, ll'[j].key>> \in recency
      <3>1. ll'[i] = ll[place[i]] /\ ll'[j] = ll[place[j]]
        BY <2>3
      <3>2. place[i] < place[j]
        BY <2>3, <2>6
      <3> QED BY <1>0, <2>4, <3>1, <3>2 DEF Ordered
    <2> QED BY <1>1, <2>1, <2>5, <2>6 DEF Ordered
  <1> QED BY <1>3, <1>4, <1>5, <1>6, <1>7, <1>8 DEF Next

-----------------------------------------------------------------------------
(* The list and the map of the cache hold the same keys, each once, and no *)
(* more than the capacity, and the list is in the order of use, whatever   *)
(* the order of its operations.                                            *)
THEOREM ListAndMap == Spec => []ListAndMapAgree
  <1>1. LRUInv /\ OrderedByUse => ListAndMapAgree
    <2> SUFFICES ASSUME LRUInv, OrderedByUse
                 PROVE  ListAndMapAgree
      OBVIOUS
    <2>1. ll \in Seq(Item) /\ Len(ll) \in Nat /\ Len(ll) <= Capacity
      BY LenProperties DEF LRUInv, WellFormed
    <2>2. \A i \in 1..Len(ll) : ll[i] \in Item
      BY <2>1, ElementOfSeq
    <2>3. ToSet(Keys(ll)) = cache
      BY <2>1 DEF ToSet, Keys, LRUInv, KeysOf
    <2>4. Keys(ll) \in Bijection(1..Len(ll), cache)
      <3>1. Keys(ll) \in [1..Len(ll) -> cache]
        BY DEF Keys, LRUInv, KeysOf
      <3>2. \A i, j \in 1..Len(ll) : Keys(ll)[i] = Keys(ll)[j] => i = j
        BY DEF Keys, LRUInv, WellFormed
      <3>3. \A k \in cache : \E i \in 1..Len(ll) : Keys(ll)[i] = k
        BY DEF Keys, LRUInv, KeysOf
      <3> QED BY <3>1, <3>2, <3>3 DEF Bijection, Injection, Surjection, IsInjective
    <2>5. ExistsBijection(1..Len(ll), cache)
      BY <2>4 DEF ExistsBijection
    <2>6. Cardinality(cache) = Len(ll)
      BY <2>1, <2>5, FS_CountingElements
    <2> QED BY <2>1, <2>2, <2>3, <2>6 DEF ListAndMapAgree
  <1>2. LRUInv /\ [Next]_vars => LRUInv'
    BY LRUNextStep
  <1>3. LRUInv /\ OrderedByUse /\ [Next]_vars => OrderedByUse'
    BY OrderStep
  <1>4. Init => OrderedByUse
    <2>1. Init => Len(ll) = 0
      BY EmptySeq DEF Init
    <2> QED BY <2>1, SMT DEF OrderedByUse
  <1> QED BY <1>1, <1>2, <1>3, <1>4, LRUInitially, PTL DEF Spec

(* A hit is the value set last for its key, and not older than the TTL.    *)
THEOREM Freshness == Spec => []HitsAreFresh
  <1>1. LRUInv => HitsAreFresh
    <2> SUFFICES ASSUME LRUInv, hit # NONE
                 PROVE  last[hit[1]].value = hit[2] /\ now <= last[hit[1]].ts + TTL
      BY DEF HitsAreFresh
    <2>1. PICK k \in Key, v \in Value :
            /\ hit = <<k, v>>
            /\ \E s \in 0..MaxTime : last[k] = [value |-> v, ts |-> s] /\ now <= s + TTL
      BY DEF LRUInv, HitIsLast
    <2>2. hit[1] = k /\ hit[2] = v
      BY <2>1
    <2> QED BY <2>1, <2>2, SMT
  <1>2. LRUInv /\ [Next]_vars => LRUInv'
    BY LRUNextStep
  <1> QED BY <1>1, <1>2, LRUInitially, PTL DEF Spec

(* The list with its map is a store that forgets, and nothing else.        *)
THEOREM Implementation == Spec => ImplementsTTLCache
  <1>1. LRUInv /\ [Next]_vars => LRUInv' /\ [Abstract!Next]_<<Entries, now>>
    BY LRUNextStep
  <1> QED BY <1>1, LRUInitially, PTL DEF Spec, ImplementsTTLCache, Abstract!Spec

=============================================================================
