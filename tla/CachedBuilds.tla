---------------------------- MODULE CachedBuilds ----------------------------
(***************************************************************************)
(* Builds that use one of the global caches.  A cache outlives the build   *)
(* that filled it.  It is used by the updater, which builds from the store *)
(* under its lock, and by the webhooks, which build from a copy of the     *)
(* store without it.  What is stored, the keys and what a build makes are  *)
(* the business of FilterCaching and ClusterCaching.                       *)
(***************************************************************************)
EXTENDS CacheTimes

VARIABLES
    store,    \* what the updater's store has
    cache,
    run,      \* per builder: what it builds from, and how far it is
    served,   \* what the updater built last, and when
    outcome,  \* how the updater's last build ended
    now

Builder == {"updater", "webhook"}

(* Which keys and values there are is said by the key of each look-up.     *)
Cache == INSTANCE TTLCache WITH entries <- cache, Key <- {}, Value <- {}

Idle == [step |-> "idle"]

Init ==
    /\ cache = Cache!Empty
    /\ run = [b \in Builder |-> Idle]
    /\ served = NONE
    /\ outcome = "none"
    /\ now = 0

-----------------------------------------------------------------------------
Start(b, view) ==
    run' = [run EXCEPT ![b] = [step |-> "lookup", view |-> view, since |-> now]]

Finish(b, result) ==
    /\ run' = [run EXCEPT ![b] = Idle]
    /\ IF b = "updater"
       THEN IF result = NONE
            THEN outcome' = "failed" /\ UNCHANGED served
            ELSE outcome' = "ok" /\ served' = [result |-> result, at |-> now]
       ELSE UNCHANGED <<served, outcome>>

(* Faulty variant: a hit makes the entry young again.                      *)
LookUpAndRefresh(b, key) ==
    /\ run[b].step = "lookup"
    /\ IF Cache!Fresh(key)
       THEN /\ Finish(b, cache[key].value)
            /\ cache' = [cache EXCEPT ![key].ts = now]
       ELSE /\ run' = [run EXCEPT ![b].step = "build"]
            /\ UNCHANGED <<cache, served, outcome>>
    /\ UNCHANGED <<store, now>>

LookUp(b, key) ==
    /\ run[b].step = "lookup"
    /\ IF Cache!Fresh(key)
       THEN Finish(b, cache[key].value)
       ELSE /\ run' = [run EXCEPT ![b].step = "build"]
            /\ UNCHANGED <<served, outcome>>
    /\ UNCHANGED <<store, cache, now>>

(* Two builders may both miss; the later one overwrites the other's entry. *)
Build(b, key, result) ==
    /\ run[b].step = "build"
    /\ IF result = NONE THEN UNCHANGED cache ELSE Cache!Store(key, result)
    /\ Finish(b, result)
    /\ UNCHANGED <<store, now>>

-----------------------------------------------------------------------------
(* The updater changes the store and rebuilds under its lock, so the next  *)
(* change waits for the build.                                             *)
Change(st) ==
    /\ run["updater"] = Idle
    /\ store' = st
    /\ Start("updater", st)
    /\ UNCHANGED <<cache, served, outcome, now>>

(* A webhook builds the VirtualService from a copy of the store; taking    *)
(* the copy needs the updater's lock.                                      *)
DryBuild ==
    /\ \A b \in Builder : run[b] = Idle
    /\ Start("webhook", store)
    /\ UNCHANGED <<store, cache, served, outcome, now>>

(* Builds of other VirtualServices push entries out.                       *)
Evict ==
    /\ Cache!Forget
    /\ UNCHANGED <<store, run, served, outcome, now>>

Tick ==
    /\ now < MaxTime
    /\ \A b \in Builder : run[b] # Idle => now < run[b].since + BuildTime
    /\ now' = now + 1
    /\ UNCHANGED <<store, cache, run, served, outcome>>

-----------------------------------------------------------------------------
Built == run["updater"] = Idle /\ outcome = "ok"

=============================================================================
