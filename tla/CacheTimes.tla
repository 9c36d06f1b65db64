----------------------------- MODULE CacheTimes -----------------------------
(* The times of the global caches of the builders.                         *)
EXTENDS Naturals, Absent

CONSTANTS
    TTL,        \* how long an entry is found
    BuildTime,  \* bound: a build takes no longer
    MaxTime     \* bound: the clock stops here

ASSUME TimesAssumption == {TTL, BuildTime, MaxTime} \subseteq Nat

=============================================================================
