----------------------------- MODULE MCServing -----------------------------
(***************************************************************************)
(* What answers requests, one part at a time:                              *)
(*   lru      LRUCache: one key more than fits, two callers of Get, and    *)
(*            time for an entry to expire and another one to live on;      *)
(*   queries  Queries: a policy that makes alice a reader of g1, one that  *)
(*            makes alice a reader of every group through a second role,   *)
(*            one that does not parse, and a model that does not;          *)
(*   cache    CacheAPI: two nodes and three contents, of which the wrapper *)
(*            refuses the one with two listeners at one address;           *)
(*   streams  Streams: two streams of each protocol.                       *)
(***************************************************************************)
EXTENDS LRUCache, Queries, Streams, CacheAPI, TLC

CONSTANTS
    Parts,
    n1, n2, c1, c2

VARIABLE part

MCInit ==
    /\ part \in Parts
    /\ Init
    /\ QueriesInit
    /\ part # "queries" => /\ file = CHOOSE f \in StaticFiles : TRUE
                           /\ dir.of = CHOOSE c \in AccessFiles : TRUE
                           /\ ~auth
    /\ CacheInit
    /\ StreamsInit

MCNext ==
    \/ /\ part = "lru"
       /\ Next
       /\ UNCHANGED <<part, queriesVars, cacheVars, streamsVars>>
    \/ /\ part = "queries"
       /\ QueriesNext
       /\ UNCHANGED <<part, vars, cacheVars, streamsVars>>
    \/ /\ part = "cache"
       /\ CacheNext
       /\ UNCHANGED <<part, vars, queriesVars, streamsVars>>
    \/ /\ part = "streams"
       /\ StreamsNext
       /\ UNCHANGED <<part, vars, queriesVars, cacheVars>>

(* The values and the callers of LRUCache are the same two.               *)
Symmetry == Permutations(Value)

MCSpec == MCInit /\ [][MCNext]_<<part, vars, queriesVars, cacheVars, streamsVars>>

-----------------------------------------------------------------------------
Link(u, r, d) == [user |-> u, role |-> r, dom |-> d]
Rule(s, d, o, a) == [sub |-> s, dom |-> d, obj |-> o, act |-> a]

Everywhere == {Rule("reader", "*", "*", a) : a \in {"listeners", "routes", "nodes", "templates", "virtualservices"}}

PolicyG1 == [rules |-> Everywhere \cup {Rule("alice", "general", "l2", "listeners")},
             links |-> {Link("alice", "reader", "g1"), Link("team", "reader", "*")}]
PolicyGeneral == [rules |-> Everywhere \cup {Rule("reader", "general", "p1", "policies")},
                  links |-> {Link("alice", "guest", "g1"), Link("guest", "reader", "g1"),
                             Link("alice", "reader", "general")}]

MCAccessFiles == {[model |-> TRUE, policy |-> PolicyG1], [model |-> TRUE, policy |-> PolicyGeneral],
                  [model |-> TRUE, policy |-> Torn], [model |-> FALSE, policy |-> PolicyG1]}

MCNoPolicy == [rules |-> {}, links |-> {}]

MCStaticFiles == {[nodes |-> <<"n1">>, groups |-> <<"g1">>], [nodes |-> <<"n2", "n1">>, groups |-> Absent]}

L1 == [kind |-> "listeners", name |-> "l1", group |-> "g1"]
L2 == [kind |-> "listeners", name |-> "l2", group |-> "general"]
T1 == [kind |-> "templates", name |-> "t1", group |-> "general"]
P1 == [kind |-> "policies", name |-> "p1", group |-> "general"]
C1 == [kind |-> "clusters", name |-> "c1", group |-> "general"]
V1 == [kind |-> "virtualservices", name |-> "v1", group |-> "g1", refs |-> {T1, L1}]
R1 == [kind |-> "routes", name |-> "r1", group |-> "general"]
MCObjects == {L1, L2, R1, T1, P1, C1, V1}

MCCallers == {{"alice"}, {"bob", "team"}}

Asked(k, g) == [kind |-> k, group |-> g]
MCRequests == {Asked("listeners", "g1"), Asked("routes", "g1"), Asked("httpfilters", "g1"), Asked("accesslogs", "g1"),
               Asked("nodes", ""), Asked("nodes", "g1"), Asked("templates", "g1"),
               Asked("policies", ""), Asked("clusters", ""), Asked("virtualservices", "g1"),
               Asked("virtualservices", ""), Asked("groups", ""), Asked("permissions", ""), Asked("get", "")}


-----------------------------------------------------------------------------
Domain == <<"app", "abc", "com">>

Filter(kind, rds, inline, http) ==
  [name |-> kind, kind |-> kind, rds |-> rds, inline |-> inline, http |-> http]

HTTP(kind) == [name |-> kind, kind |-> kind]

Chain(name, names, tls, filters) == [name |-> name, names |-> names, tls |-> tls, filters |-> filters]

Secret(name, kind, parses, hours) ==
  [name |-> name, kind |-> kind, parses |-> parses, hours |-> hours, data |-> "key", ref |-> NONE]

Secure == [name |-> "secure", addr |-> 443, chains |-> <<
  Chain("parent", <<<<"abc", "com">>, <<"*", "com">>>>, "s2", <<Filter("hcm", "rds", {}, <<HTTP("router")>>)>>),
  Chain("own", <<Domain>>, "s1", <<Filter("hcm", "rds", {}, <<HTTP("rbac"), HTTP("router")>>)>>),
  Chain("wild", <<<<"*", "abc", "com">>>>, "s1", <<Filter("hcm", "", {<<"*">>}, <<HTTP("bare")>>)>>)>>]

Plain == [name |-> "plain", addr |-> 80, chains |-> <<
  Chain("tcp", <<>>, "", <<Filter("tcp", "", {}, <<>>)>>)>>]

Clash == [Plain EXCEPT !.name = "clash"]

Route(domains) == [name |-> "rds", domains |-> domains]

Full == [listeners |-> {Secure, Plain}, clusters |-> {[name |-> "cl"]}, routes |-> {Route({Domain})},
         secrets |-> {Secret("s1", "tls", TRUE, 30 * 24 + 1), Secret("s2", "tls", TRUE, 20),
                      Secret("s3", "generic", FALSE, 0)}]

Stripped == [listeners |-> {Secure}, clusters |-> {}, routes |-> {},
             secrets |-> {Secret("s2", "tls", TRUE, 40 * 24), Secret("s4", "tls", FALSE, 0)}]

Refused == [Full EXCEPT !.listeners = {Plain, Clash}]

MCConfigs == {Full, Stripped, Refused}

ApiCall(op, n, name) == [op |-> op, node |-> n, name |-> name, chain |-> "", filter |-> "",
                        http |-> "", domain |-> Domain]

AskFilter(op, name, chain, filter, http) ==
  [ApiCall(op, n1, name) EXCEPT !.chain = chain, !.filter = filter, !.http = http]

Simple == {ApiCall(op, n1, name) : op \in {"listeners", "clusters", "routes", "secrets"},
                               name \in {"", "secure", "s1", "twice"}}

About == {ApiCall("domains", n1, ""), ApiCall("domains", n1, "plain"), ApiCall("locations", n1, ""),
          ApiCall("locations", n1, "secure"), ApiCall("locations", n1, "other"),
          ApiCall("resourceVersions", "missing", ""), ApiCall("resourceVersions", n1, ""),
          ApiCall("nodeIDs", n1, ""), ApiCall("versions", n1, ""), ApiCall("secret", n1, "s1"),
          ApiCall("secret", n1, "s4"), ApiCall("listeners", "missing", "")}

Filters == {AskFilter("httpFilterRouter", "secure", "own", "", "router"), AskFilter("filters", "secure", "", "", ""),
            AskFilter("httpFilters", "secure", "own", "tcp", ""), AskFilter("filtersTCPProxy", "plain", "", "", ""),
            AskFilter("filterType", "plain", "", "tcp", ""), AskFilter("httpFilterRBAC", "secure", "wild", "hcm", ""),
            AskFilter("httpFilters", "plain", "", "", "")}

MCCacheRequests == [c \in Client |-> IF c = c1 THEN Simple \cup About \cup Filters \cup {ApiCall("overview", n1, "")}
                                ELSE {ApiCall("overview", n1, "")}]

MCACL == [admins |-> {"*"}, team |-> {n1}]

MCGroups == {{"admins"}, {"team", "others"}}

(* A query meets a change of the files or one of the store.  Requests of   *)
(* the REST API share no state but the overview cache: a second overview   *)
(* runs beside an overview only.                                           *)
Bounded ==
    /\ writes + changes <= 1
    /\ inFlight[c2].pc = "idle" \/ inFlight[c1].pc = "idle" \/ inFlight[c1].rq.op = "overview"

=============================================================================
