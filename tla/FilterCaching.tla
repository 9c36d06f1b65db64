--------------------------- MODULE FilterCaching ---------------------------
(***************************************************************************)
(* The global cache of HTTP filters.  A VirtualService refers to an        *)
(* HttpFilter and, in its RBAC configuration, to a Policy; the key of its  *)
(* filters is made from the VirtualService and the content of the          *)
(* HttpFilter.                                                             *)
(***************************************************************************)
EXTENDS CacheTimes

CONSTANTS
    Policies,   \* contents of the policy
    Filters     \* contents of the HttpFilter

VARIABLES
    filterStore,    \* the policy and the filter in the updater's store
    filterCache, filterRun, filtersServed, filterOutcome,
    policySince,    \* history: when the stored policy changed
    filterClock

filterVars == <<filterStore, filterCache, filterRun, filtersServed, filterOutcome,
                policySince, filterClock>>

FilterView == [policy : Policies \cup {NONE}, filter : Filters \cup {NONE}]

ASSUME FiltersAssumption == NONE \notin FilterView

FilterBuilds == INSTANCE CachedBuilds
    WITH store <- filterStore, cache <- filterCache, run <- filterRun,
         served <- filtersServed, outcome <- filterOutcome, now <- filterClock

FilterInit ==
    /\ filterStore \in FilterView
    /\ policySince = 0
    /\ FilterBuilds!Init

-----------------------------------------------------------------------------
(* Policies are in the key by reference, as the rest of the VirtualService.*)
FilterKey(view) == view.filter

BuildFilters(view) ==
    IF view.policy = NONE \/ view.filter = NONE THEN NONE ELSE view

FilterLookUp(b) ==
    /\ FilterBuilds!LookUp(b, FilterKey(filterRun[b].view))
    /\ UNCHANGED policySince

FilterBuild(b) ==
    /\ FilterBuilds!Build(b, FilterKey(filterRun[b].view), BuildFilters(filterRun[b].view))
    /\ UNCHANGED policySince

ChangePolicy(x) ==
    /\ filterStore.policy # x
    /\ FilterBuilds!Change([policy |-> x, filter |-> filterStore.filter])
    /\ policySince' = filterClock

ChangeHTTPFilter(x) ==
    /\ filterStore.filter # x
    /\ FilterBuilds!Change([policy |-> filterStore.policy, filter |-> x])
    /\ UNCHANGED policySince

(* A rebuild for some other reason.                                        *)
RebuildAgain == FilterBuilds!Change(filterStore) /\ UNCHANGED policySince

FilterNext ==
    \/ \E b \in FilterBuilds!Builder : FilterLookUp(b) \/ FilterBuild(b)
    \/ \E x \in Policies \cup {NONE} : ChangePolicy(x)
    \/ \E x \in Filters \cup {NONE} : ChangeHTTPFilter(x)
    \/ RebuildAgain
    \/ FilterBuilds!DryBuild /\ UNCHANGED policySince
    \/ FilterBuilds!Evict /\ UNCHANGED policySince
    \/ FilterBuilds!Tick /\ UNCHANGED policySince

FilterSpec == FilterInit /\ [][FilterNext]_filterVars

-----------------------------------------------------------------------------
(* After a rebuild that succeeded the filters have the stored content of   *)
(* the HttpFilter, whatever the cache still holds of earlier contents and  *)
(* whatever webhooks store in it meanwhile.                                *)
HttpFilterServed ==
    FilterBuilds!Built => filtersServed.result.filter = filterStore.filter

(* The content of a Policy is not in the key, so filters with an earlier   *)
(* one are found until they expire.  A rebuild never finds one that was    *)
(* replaced longer ago than the time to live and the length of one build,  *)
(* even when a webhook stores after the change what it read before.        *)
PolicyStalenessBounded ==
    FilterBuilds!Built /\ filtersServed.result.policy # filterStore.policy =>
        filtersServed.at <= policySince + TTL + BuildTime

(* A rebuild serves the current HttpFilter, and a former Policy only for   *)
(* a while (generateHTTPFiltersCacheKey).                                  *)
FiltersCurrent == HttpFilterServed /\ PolicyStalenessBounded

(* docs/xds.md: "When a Kubernetes CR changes, the update is propagated to *)
(* Envoy proxies within milliseconds".  A rebuild after the change of a    *)
(* Policy finds the filters with the old one.                              *)
PolicyServed ==
    FilterBuilds!Built => filtersServed.result.policy = filterStore.policy

=============================================================================
