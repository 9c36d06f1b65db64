------------------------------ MODULE TTLCache ------------------------------
(***************************************************************************)
(* What the builders rely on when they use one of the global caches: a     *)
(* value is found as it was stored last, until it is older than the TTL or *)
(* has been thrown out for some reason.                                    *)
(***************************************************************************)
EXTENDS Naturals

CONSTANTS Key, Value, TTL, NONE

VARIABLES
    entries,  \* key -> [value, ts], for the keys that have an entry
    now

Empty == [k \in {} |-> NONE]

Restrict(map, keys) == [k \in keys |-> map[k]]

Fresh(k) == k \in DOMAIN entries /\ now <= entries[k].ts + TTL

Init == entries = Empty /\ now = 0

(* Storing a value may push others out.                                    *)
Store(k, v) ==
    \E kept \in SUBSET (DOMAIN entries \ {k}) :
        entries' = [x \in kept \cup {k} |->
                      IF x = k THEN [value |-> v, ts |-> now] ELSE entries[x]]

Forget == \E kept \in SUBSET DOMAIN entries : entries' = Restrict(entries, kept)

Next ==
    \/ UNCHANGED now /\ \E k \in Key, v \in Value : Store(k, v)
    \/ UNCHANGED now /\ Forget
    \/ now' = now + 1 /\ UNCHANGED entries

Spec == Init /\ [][Next]_<<entries, now>>

=============================================================================
