------------------------------ MODULE CacheAPI ------------------------------
(***************************************************************************)
(* The read-only REST API over the snapshot cache: the cache wrapper       *)
(* (internal/xds/cache/wrapper.go), the handlers of                        *)
(* internal/xds/api/v1/handlers, the cache of overview answers and the     *)
(* authentication middleware.  A handler takes the wrapper's lock once per *)
(* read, so a snapshot can be replaced or cleared between two reads of one *)
(* request: every locked read is a step here.  The content of a snapshot   *)
(* is one of Configs; its generation stands for the version strings.       *)
(* Response formats and messages are left out, an answer is its code and   *)
(* the values the properties tell apart.                                   *)
(***************************************************************************)
EXTENDS Integers, Sequences, FiniteSets, Absent

CONSTANTS
  Node,        \* node identifiers
  Configs,     \* the contents a build can give a snapshot
  Client,      \* requests in flight
  CacheRequests, \* the requests each client may send
  Groups,      \* the sets of groups a token may carry
  ACL,         \* group -> node identifiers, "*" for all
  OverviewTTL, \* overviewCacheTTL, in ticks
  OverviewTime, \* bound on the clock
  MaxPublish   \* bound on the number of publications

\* A secret as it is published; none of them aliases another object.
IsSecret(s) ==
  /\ s = [name |-> s.name, kind |-> s.kind, parses |-> s.parses, hours |-> s.hours,
          data |-> s.data, ref |-> NONE]
  /\ s.hours \in Int

ASSUME ConfigsAssumption ==
  \A config \in Configs :
    IsFiniteSet(config.secrets) /\ \A s \in config.secrets : IsSecret(s)

VARIABLES
  snapshots,   \* the go-control-plane cache: node -> snapshot or NONE
  nodeIDs,     \* the wrapper's set of node identifiers
  blanked,     \* the published secret objects whose data was overwritten
  entries,     \* OverviewCache.entries
  clock,       \* the clock
  published,   \* number of publications so far, the next generation
  inFlight,    \* the request each client has in flight
  answer       \* the answer each client is being sent

cacheVars == <<snapshots, nodeIDs, blanked, entries, clock, published, inFlight, answer>>

Idle == [pc |-> "idle"]

-----------------------------------------------------------------------------
(* The cache wrapper.  Objects are shared with the callers, except secrets,*)
(* which are cloned: ref names the published object a value aliases.       *)

\* Two listeners of a snapshot with one address make it invalid.
validateCache(config) ==
  \A l, k \in config.listeners : l.addr = k.addr => l = k

\* The node is listed before the snapshot is validated.
SetSnapshot(n, config) ==
  /\ published < MaxPublish
  /\ published' = published + 1
  /\ nodeIDs' = nodeIDs \cup {n}
  /\ IF validateCache(config)
     THEN /\ snapshots' = [snapshots EXCEPT ![n] = [gen |-> published + 1, config |-> config]]
          /\ blanked' = {b \in blanked : b[1] # n}
     ELSE UNCHANGED <<snapshots, blanked>>
  /\ UNCHANGED <<entries, clock, inFlight, answer>>

ClearSnapshot(n) ==
  /\ n \in nodeIDs
  /\ nodeIDs' = nodeIDs \ {n}
  /\ snapshots' = [snapshots EXCEPT ![n] = NONE]
  /\ blanked' = {b \in blanked : b[1] # n}
  /\ UNCHANGED <<entries, clock, published, inFlight, answer>>

GetNodeIDs == nodeIDs

HasSnapshot(n) == snapshots[n] # NONE

GetListeners(n) == snapshots[n].config.listeners

GetClusters(n) == snapshots[n].config.clusters

GetRouteConfigurations(n) == snapshots[n].config.routes

Alias(n) == {[s EXCEPT !.ref = <<n, s.name>>] : s \in snapshots[n].config.secrets}

\* proto.Clone: the values handed out alias no published object.
GetSecrets(n) == snapshots[n].config.secrets

GetVersions(n) == snapshots[n].gen

\* One hash per resource: the resource itself, a hash being injective here.
GetResourceVersions(n) == snapshots[n].config

-----------------------------------------------------------------------------
(* Authentication: the nodes a request may see.                            *)

fullAccess == {g \in DOMAIN ACL : "*" \in ACL[g]}

HandlerFunc(groups) ==
  IF DOMAIN ACL = {} \/ groups \cap fullAccess # {}
  THEN Node
  ELSE UNION {ACL[g] : g \in groups \cap DOMAIN ACL}

getAvailableNodeIDs(r) == GetNodeIDs \cap r.view

-----------------------------------------------------------------------------
(* Lookups in what was read.                                               *)

\* The parameters that must be given exactly once.
ValidParams(r) == r.node \in Node /\ r.name # "twice"

Named(set, name) == {x \in set : x.name = name}

\* NONE, or the first element of a sequence with the name.
NamedIn(seq, name) ==
  LET at == {i \in DOMAIN seq : seq[i].name = name}
  IN IF at = {} THEN NONE ELSE seq[CHOOSE i \in at : \A j \in at : i <= j]

\* The length of a name: labels of three characters, "*" and the dots.
LengthOf(labels) ==
  4 * Len(labels) - 1 - 2 * Cardinality({i \in DOMAIN labels : labels[i] = "*"})

\* Whether a server name is taken for the domain: read from the right, every
\* label agrees until the server name ends or shows a "*".
ServerNameMatches(serverName, domain) ==
  LET label(name, i) == name[Len(name) + 1 - i]
      agree(i) == label(serverName, i) = label(domain, i)
  IN /\ Len(serverName) <= Len(domain)
     /\ \/ \A i \in DOMAIN serverName : agree(i)
        \/ \E k \in DOMAIN serverName :
             label(serverName, k) = "*" /\ \A i \in 1 .. k - 1 : agree(i)

\* The last of the longest names that match, <<>> when none does.
findServerNameForDomain(serverNames, domain) ==
  LET at == {i \in DOMAIN serverNames : ServerNameMatches(serverNames[i], domain)}
      best == {i \in at : \A j \in at :
                 \/ LengthOf(serverNames[j]) < LengthOf(serverNames[i])
                 \/ LengthOf(serverNames[j]) = LengthOf(serverNames[i]) /\ j <= i}
  IN IF at = {} THEN <<>> ELSE serverNames[CHOOSE i \in best : TRUE]

\* The last of the chains with the longest matching server name.
getFilterChainForDomainByServerName(listener, domain) ==
  LET found(i) == findServerNameForDomain(listener.chains[i].names, domain)
      at == {i \in DOMAIN listener.chains : found(i) # <<>>}
      best == {i \in at : \A j \in at :
                 \/ LengthOf(found(j)) < LengthOf(found(i))
                 \/ LengthOf(found(j)) = LengthOf(found(i)) /\ j <= i}
  IN IF at = {} THEN NONE ELSE listener.chains[CHOOSE i \in best : TRUE]

existDomainInVirtualHosts(domains, domain) ==
  <<"*">> \in domains \/ domain \in domains

getRDSNameForFilter(filter) == IF filter.kind = "hcm" THEN filter.rds ELSE ""

\* NONE stands for the error: no connection manager routes the domain, or one
\* met before it names a route configuration that is not in the cache.
findFilterByDomain(n, chain, domain) ==
  LET hcm == SelectSeq(chain.filters, LAMBDA f : f.kind = "hcm")
      routes == IF HasSnapshot(n) THEN GetRouteConfigurations(n) ELSE {}
      domains(f) == IF f.rds = "" THEN f.inline
                    ELSE UNION {rc.domains : rc \in Named(routes, f.rds)}
      lost(f) == f.rds # "" /\ Named(routes, f.rds) = {}
      stop == {i \in DOMAIN hcm :
                 lost(hcm[i]) \/ existDomainInVirtualHosts(domains(hcm[i]), domain)}
      first == CHOOSE i \in stop : \A j \in stop : i <= j
  IN IF stop = {} THEN NONE
     ELSE IF lost(hcm[first]) THEN NONE ELSE hcm[first]

\* NONE for an error, else the filters the request names.
getRequestFilters(listener, r) ==
  LET chain == IF r.chain # "" THEN NamedIn(listener.chains, r.chain)
               ELSE IF Len(listener.chains) = 1 THEN listener.chains[1] ELSE NONE
      filter == NamedIn(chain.filters, r.filter)
  IN IF chain = NONE THEN NONE
     ELSE IF r.filter = "" THEN chain.filters
     ELSE IF filter = NONE THEN NONE ELSE <<filter>>

getRequestHTTPFilter(filter, name) ==
  IF filter.kind # "hcm" THEN NONE
  ELSE IF name = "" THEN (IF Len(filter.http) = 1 THEN filter.http[1] ELSE NONE)
  ELSE NamedIn(filter.http, name)

-----------------------------------------------------------------------------
(* The overview of a node.                                                 *)

\* int(hours / 24), truncated towards zero.
daysUntilExpiry(hours) == IF hours >= 0 THEN hours \div 24 ELSE -((-hours) \div 24)

calculateCertStatus(days) ==
  CASE days <= 0 -> "expired"
    [] days > 0 /\ days <= 7 -> "critical"
    [] days > 7 /\ days <= 30 -> "warning"
    [] OTHER -> "ok"

\* A certificate for every TLS secret whose chain parses.
buildCertificateInfoMap(secrets) ==
  {[name |-> s.name, hours |-> s.hours, status |-> calculateCertStatus(daysUntilExpiry(s.hours))] :
     s \in {t \in secrets : t.kind = "tls" /\ t.parses}}

getDomainsFromFilterChain(chain) == IF chain.names = <<>> THEN <<<<"*">>>> ELSE chain.names

extractSecretName(chain) == chain.tls

determineProtocol(chain) ==
  IF \E i \in DOMAIN chain.filters : chain.filters[i].kind = "hcm"
  THEN (IF chain.tls # "" THEN "HTTPS" ELSE "HTTP")
  ELSE "TCP"

\* One endpoint per server name of every chain, with its certificate if known.
extractEndpoints(listeners, certs) ==
  UNION {UNION {{[listener |-> l.name, chain |-> l.chains[i].name, at |-> j,
                  domain |-> getDomainsFromFilterChain(l.chains[i])[j],
                  protocol |-> determineProtocol(l.chains[i]),
                  certificate |-> {c.name : c \in Named(certs, extractSecretName(l.chains[i]))}] :
                   j \in DOMAIN getDomainsFromFilterChain(l.chains[i])} :
                i \in DOMAIN l.chains} :
         l \in listeners}

\* UsedByDomains, filled while the endpoints are extracted.
buildCertificatesList(certs, endpoints) ==
  {[name |-> c.name, hours |-> c.hours, status |-> c.status,
    usedBy |-> {e.domain : e \in {x \in endpoints : c.name \in x.certificate}}] : c \in certs}

calculateSummary(endpoints, certificates) ==
  [domains      |-> Cardinality({e.domain : e \in endpoints} \ {<<"*">>}),
   endpoints    |-> Cardinality(endpoints),
   certificates |-> Cardinality(certificates),
   warning      |-> Cardinality({c \in certificates : c.status = "warning"}),
   critical     |-> Cardinality({c \in certificates : c.status = "critical"}),
   expired      |-> Cardinality({c \in certificates : c.status = "expired"})]

Overview(r, secrets) ==
  LET certs == buildCertificateInfoMap(secrets)
      endpoints == extractEndpoints(r.listeners, certs)
      certificates == buildCertificatesList(certs, endpoints)
  IN [versions |-> r.versions, listenersOf |-> r.listenersOf,
      endpoints |-> endpoints, certificates |-> certificates,
      summary |-> calculateSummary(endpoints, certificates)]

-----------------------------------------------------------------------------
(* Requests.                                                               *)

Quiet == UNCHANGED <<snapshots, nodeIDs, blanked, entries, clock, published>>

Reply(c, code, body) ==
  /\ inFlight' = [inFlight EXCEPT ![c] = [pc |-> "answered", rq |-> @.rq]]
  /\ answer' = [answer EXCEPT ![c] = [code |-> code, body |-> body]]

Proceed(c, r) == inFlight' = [inFlight EXCEPT ![c] = r] /\ UNCHANGED answer

\* A request arrives and passes the middleware; a bad token is answered there.
Call(c, rq, groups) ==
  /\ inFlight[c].pc = "idle"
  /\ IF groups = NONE
     THEN /\ inFlight' = [inFlight EXCEPT ![c] = [pc |-> "answered", rq |-> rq]]
          /\ answer' = [answer EXCEPT ![c] = [code |-> 401, body |-> NONE]]
     ELSE Proceed(c, [pc |-> IF rq.op = "resourceVersions" THEN "read" ELSE "nodes",
                      rq |-> rq, view |-> HandlerFunc(groups)])
  /\ Quiet

\* The client has the answer.
Return(c) ==
  /\ inFlight[c].pc = "answered"
  /\ inFlight' = [inFlight EXCEPT ![c] = Idle]
  /\ answer' = [answer EXCEPT ![c] = NONE]
  /\ Quiet

OverEveryNode == {"nodeIDs", "versions", "secret"}

FilterRequests == {"filterType", "filters", "filtersTCPProxy", "httpFilters",
                   "httpFilterRouter", "httpFilterRBAC"}

\* The first read of most handlers: which nodes the cache lists.
CheckNode(c) ==
  LET r == inFlight[c]
      rq == r.rq
      seen == getAvailableNodeIDs(r)
  IN /\ r.pc = "nodes"
     /\ IF rq.op \in OverEveryNode
        THEN Proceed(c, [pc |-> "loop", rq |-> rq, todo |-> seen, found |-> {}])
        ELSE IF ~ValidParams(rq) \/ rq.node \notin seen
        THEN Reply(c, IF rq.op \in FilterRequests THEN 500 ELSE 400, NONE)
        ELSE Proceed(c, [pc |-> IF rq.op = "overview" THEN "cached" ELSE "read", rq |-> rq])
     /\ Quiet

\* A handler that reads once: everything it answers comes from one snapshot.
ReadOnce(c, op) == inFlight[c].pc = "read" /\ inFlight[c].rq.op = op

ByName(c, set) ==
  LET rq == inFlight[c].rq
  IN Reply(c, IF rq.name = "" \/ Named(set, rq.name) # {} THEN 200 ELSE 500, NONE)

getListeners(c) ==
  /\ ReadOnce(c, "listeners")
  /\ IF HasSnapshot(inFlight[c].rq.node)
     THEN ByName(c, GetListeners(inFlight[c].rq.node))
     ELSE Reply(c, 500, NONE)
  /\ Quiet

getClusters(c) ==
  /\ ReadOnce(c, "clusters")
  /\ IF HasSnapshot(inFlight[c].rq.node)
     THEN ByName(c, GetClusters(inFlight[c].rq.node))
     ELSE Reply(c, 500, NONE)
  /\ Quiet

getRouteConfigurations(c) ==
  /\ ReadOnce(c, "routes")
  /\ IF HasSnapshot(inFlight[c].rq.node)
     THEN ByName(c, GetRouteConfigurations(inFlight[c].rq.node))
     ELSE Reply(c, 500, NONE)
  /\ Quiet

getResourceVersions(c) ==
  /\ ReadOnce(c, "resourceVersions")
  /\ IF inFlight[c].rq.node \notin Node THEN Reply(c, 400, NONE)
     ELSE IF ~HasSnapshot(inFlight[c].rq.node) THEN Reply(c, 500, NONE)
     ELSE Reply(c, 200, GetResourceVersions(inFlight[c].rq.node).clusters)
  /\ Quiet

\* The data of a secret overwritten in place, wherever the object is shared.
clearSecretData(secrets) ==
  /\ blanked' = blanked \cup ({s.ref : s \in secrets} \ {NONE})
  /\ UNCHANGED <<snapshots, nodeIDs, entries, clock, published>>

Cleared(secrets) == {[s EXCEPT !.data = "blank"] : s \in secrets}

getSecrets(c) ==
  /\ ReadOnce(c, "secrets")
  /\ LET rq == inFlight[c].rq
         secrets == GetSecrets(rq.node)
         wanted == IF rq.name = "" THEN secrets ELSE Named(secrets, rq.name)
     IN IF ~HasSnapshot(rq.node) \/ (rq.name # "" /\ wanted = {})
        THEN Reply(c, 500, NONE) /\ Quiet
        ELSE Reply(c, 200, Cleared(wanted)) /\ clearSecretData(wanted)

\* The handlers about the filters of one chain: 200 when ok holds of them.
FilterRequest(c, op, ok(_)) ==
  /\ ReadOnce(c, op)
  /\ LET rq == inFlight[c].rq
         listener == Named(GetListeners(rq.node), rq.name)
         filters == getRequestFilters(CHOOSE l \in listener : TRUE, rq)
     IN IF ~HasSnapshot(rq.node) THEN Reply(c, 500, NONE)
        ELSE IF listener = {} THEN Reply(c, 500, NONE)
        ELSE IF filters = NONE THEN Reply(c, 500, NONE)
        ELSE Reply(c, IF ok(filters) THEN 200 ELSE 500, NONE)
  /\ Quiet

AllOf(filters, kind) == \A i \in DOMAIN filters : filters[i].kind = kind

\* A filter without a configuration is answered with an empty body.
HTTPFilterOf(c, filters, kind) ==
  /\ Len(filters) = 1
  /\ LET hf == getRequestHTTPFilter(filters[1], inFlight[c].rq.http)
     IN IF hf = NONE THEN FALSE ELSE hf.kind \in {kind, "bare"}

getFilterType(c) == FilterRequest(c, "filterType", LAMBDA fs : Len(fs) = 1)

getFilter(c) == FilterRequest(c, "filters", LAMBDA fs : AllOf(fs, "hcm"))

getTCPProxyFilters(c) == FilterRequest(c, "filtersTCPProxy", LAMBDA fs : AllOf(fs, "tcp"))

\* A filter of another kind makes the handler panic, which is answered 500.
getHTTPFilters(c) == FilterRequest(c, "httpFilters", LAMBDA fs : AllOf(fs, "hcm"))

getHTTPFilterRouter(c) ==
  FilterRequest(c, "httpFilterRouter", LAMBDA fs : HTTPFilterOf(c, fs, "router"))

getHTTPFilterRBAC(c) ==
  FilterRequest(c, "httpFilterRBAC", LAMBDA fs : HTTPFilterOf(c, fs, "rbac"))

\* The listeners a domain request is about, NONE for an error.
DomainListeners(rq) ==
  LET all == GetListeners(rq.node)
  IN IF rq.name = "" THEN all
     ELSE IF Named(all, rq.name) = {} THEN NONE ELSE Named(all, rq.name)

getDomains(c) ==
  /\ ReadOnce(c, "domains")
  /\ LET rq == inFlight[c].rq
         listeners == DomainListeners(rq)
     IN IF ~HasSnapshot(rq.node) THEN Reply(c, 500, NONE)
        ELSE IF listeners = NONE THEN Reply(c, 500, NONE)
        ELSE Reply(c, IF \E l \in listeners : \E i \in DOMAIN l.chains : l.chains[i].names # <<>>
                      THEN 200 ELSE 500, NONE)
  /\ Quiet

\* The first read of a location request; every listener then costs a read of
\* the route configurations.
getDomainLocations(c) ==
  /\ ReadOnce(c, "locations")
  /\ LET rq == inFlight[c].rq
         listeners == DomainListeners(rq)
     IN IF ~HasSnapshot(rq.node) THEN Reply(c, 500, NONE)
        ELSE IF listeners = NONE THEN Reply(c, 500, NONE)
        ELSE Proceed(c, [pc |-> "locate", rq |-> rq, todo |-> listeners, found |-> {}])
  /\ Quiet

Locate(c, l) ==
  LET r == inFlight[c]
      chain == getFilterChainForDomainByServerName(l, r.rq.domain)
      filter == findFilterByDomain(r.rq.node, chain, r.rq.domain)
      rest == [r EXCEPT !.todo = @ \ {l}]
  IN /\ l \in r.todo
     /\ IF chain = NONE THEN Proceed(c, rest)
        ELSE IF filter = NONE THEN Reply(c, 500, NONE)
        ELSE Proceed(c, [rest EXCEPT !.found = @ \cup
               {[listener |-> l, chain |-> chain, rds |-> getRDSNameForFilter(filter)]}])
     /\ Quiet

Located(c) ==
  /\ inFlight[c].todo = {}
  /\ Reply(c, IF inFlight[c].found = {} THEN 500 ELSE 200, inFlight[c].found)
  /\ Quiet

getNodeIDs(c) ==
  /\ inFlight[c].rq.op = "nodeIDs"
  /\ Reply(c, 200, inFlight[c].todo)
  /\ Quiet

\* Every node costs a read; one that fails fails the request.
getNodeIDsWithResourceVersions(c) ==
  /\ inFlight[c].rq.op = "versions"
  /\ IF inFlight[c].todo = {}
     THEN Reply(c, 200, inFlight[c].found)
     ELSE \E n \in inFlight[c].todo :
            IF HasSnapshot(n)
            THEN Proceed(c, [inFlight[c] EXCEPT !.todo = @ \ {n}, !.found = @ \cup {<<n, GetVersions(n)>>}])
            ELSE Reply(c, 500, NONE)
  /\ Quiet

getSecretByNamespacedName(c) ==
  /\ inFlight[c].rq.op = "secret"
  /\ IF inFlight[c].todo = {}
     THEN Reply(c, IF inFlight[c].found = {} THEN 404 ELSE 200, NONE)
     ELSE \E n \in inFlight[c].todo :
            LET s == Named(GetSecrets(n), inFlight[c].rq.name)
            IN IF ~HasSnapshot(n) THEN Reply(c, 500, NONE)
               ELSE IF \E x \in s : x.kind = "tls" /\ ~x.parses THEN Reply(c, 500, NONE)
               ELSE Proceed(c, [inFlight[c] EXCEPT !.todo = @ \ {n}, !.found = @ \cup {x.kind : x \in s}])
  /\ Quiet

-----------------------------------------------------------------------------
(* The overview cache and the overview handler, one step per lock.         *)

OverviewExpired(n) == clock > entries[n].expiresAt

CacheQuiet == UNCHANGED <<snapshots, nodeIDs, blanked, clock, published>>

OverviewGet(c) ==
  LET r == inFlight[c]
      n == r.rq.node
  IN /\ r.pc = "cached"
     /\ IF entries[n] = NONE THEN Proceed(c, [r EXCEPT !.pc = "versions"])
        ELSE IF OverviewExpired(n) THEN Proceed(c, [r EXCEPT !.pc = "upgrade"])
        ELSE Reply(c, 200, entries[n].response)
     /\ Quiet

\* The entry is looked up again under the write lock.
OverviewEvict(c) ==
  LET n == inFlight[c].rq.node
  IN /\ inFlight[c].pc = "upgrade"
     /\ entries' = IF entries[n] # NONE /\ (entries[n] # NONE => OverviewExpired(n))
                   THEN [entries EXCEPT ![n] = NONE] ELSE entries
     /\ Proceed(c, [inFlight[c] EXCEPT !.pc = "versions"])
     /\ CacheQuiet

OverviewVersions(c) ==
  LET n == inFlight[c].rq.node
  IN /\ inFlight[c].pc = "versions"
     /\ IF HasSnapshot(n)
        THEN Proceed(c, [pc |-> "listeners", rq |-> inFlight[c].rq, versions |-> GetVersions(n)])
        ELSE Reply(c, 500, NONE)
     /\ Quiet

OverviewListeners(c) ==
  LET n == inFlight[c].rq.node
  IN /\ inFlight[c].pc = "listeners"
     /\ IF HasSnapshot(n)
        THEN Proceed(c, [pc |-> "secrets", rq |-> inFlight[c].rq, versions |-> inFlight[c].versions,
                         listeners |-> GetListeners(n), listenersOf |-> GetVersions(n)])
        ELSE Reply(c, 500, NONE)
     /\ Quiet

\* The versions reported are those of the end of the reads.
OverviewLateVersions(c) ==
  LET n == inFlight[c].rq.node
  IN /\ inFlight[c].pc = "secrets"
     /\ IF HasSnapshot(n)
        THEN Proceed(c, [pc |-> "store", rq |-> inFlight[c].rq,
               response |-> Overview([inFlight[c] EXCEPT !.versions = GetVersions(n)], GetSecrets(n))])
        ELSE Reply(c, 500, NONE)
     /\ Quiet

OverviewSecrets(c) ==
  LET n == inFlight[c].rq.node
  IN /\ inFlight[c].pc = "secrets"
     /\ IF HasSnapshot(n)
        THEN Proceed(c, [pc |-> "store", rq |-> inFlight[c].rq,
                         response |-> Overview(inFlight[c], GetSecrets(n))])
        ELSE Reply(c, 500, NONE)
     /\ Quiet

OverviewSet(c) ==
  /\ inFlight[c].pc = "store"
  /\ entries' = [entries EXCEPT ![inFlight[c].rq.node] =
                   [response |-> inFlight[c].response, expiresAt |-> clock + OverviewTTL]]
  /\ Reply(c, 200, inFlight[c].response)
  /\ CacheQuiet

\* The cleanup goroutine.
Cleanup ==
  /\ \E n \in Node : entries[n] # NONE /\ (entries[n] # NONE => OverviewExpired(n))
  /\ entries' = [n \in Node |-> IF entries[n] = NONE THEN NONE
                                ELSE IF OverviewExpired(n) THEN NONE ELSE entries[n]]
  /\ UNCHANGED <<snapshots, nodeIDs, blanked, clock, published, inFlight, answer>>

OverviewTick ==
  /\ clock < OverviewTime
  /\ clock' = clock + 1
  /\ UNCHANGED <<snapshots, nodeIDs, blanked, entries, published, inFlight, answer>>

-----------------------------------------------------------------------------
CacheInit ==
  /\ snapshots = [n \in Node |-> NONE]
  /\ nodeIDs = {}
  /\ blanked = {}
  /\ entries = [n \in Node |-> NONE]
  /\ clock = 0
  /\ published = 0
  /\ inFlight = [c \in Client |-> Idle]
  /\ answer = [c \in Client |-> NONE]

Handle(c) ==
  \/ CheckNode(c)
  \/ getListeners(c) \/ getClusters(c) \/ getRouteConfigurations(c)
  \/ getResourceVersions(c) \/ getSecrets(c)
  \/ getFilterType(c) \/ getFilter(c) \/ getTCPProxyFilters(c)
  \/ getHTTPFilters(c) \/ getHTTPFilterRouter(c) \/ getHTTPFilterRBAC(c)
  \/ getDomains(c) \/ getDomainLocations(c)
  \/ inFlight[c].pc = "locate" /\ (Located(c) \/ \E l \in inFlight[c].todo : Locate(c, l))
  \/ inFlight[c].pc = "loop" /\ (getNodeIDs(c) \/ getNodeIDsWithResourceVersions(c)
                              \/ getSecretByNamespacedName(c))
  \/ OverviewGet(c) \/ OverviewEvict(c) \/ OverviewVersions(c)
  \/ OverviewListeners(c) \/ OverviewSecrets(c) \/ OverviewSet(c)

CacheNext ==
  \/ \E n \in Node, config \in Configs : SetSnapshot(n, config)
  \/ \E n \in Node : ClearSnapshot(n)
  \/ \E c \in Client, groups \in Groups \cup {NONE} :
       \E rq \in CacheRequests[c] : Call(c, rq, groups)
  \/ \E c \in Client : Handle(c) \/ Return(c)
  \/ Cleanup
  \/ OverviewTick

CacheSpec == CacheInit /\ [][CacheNext]_cacheVars

-----------------------------------------------------------------------------
Answered(c, op) == answer[c] # NONE /\ (answer[c] # NONE =>
                     answer[c].code = 200 /\ inFlight[c].rq.op = op)

\* Reading the secrets through the API never touches what Envoy is served:
\* the handler overwrites the data of the secrets it answers with, and those
\* alias no published object (wrapper.go GetSecrets, utils.go clearSecretData).
PublishedSecretsIntact ==
  /\ blanked = {}
  /\ \A c \in Client : Answered(c, "secrets") => \A s \in answer[c].body : s.data = "blank"

\* The overview is assembled from three reads between which the snapshot may
\* be replaced; the versions it reports are never newer than the listeners it
\* shows, so comparing them with Envoy's never calls old content current.
OverviewNotAhead ==
  \A c \in Client : Answered(c, "overview") => answer[c].body.versions <= answer[c].body.listenersOf

\* Only an expired overview is dropped: a request that found the entry expired
\* and waited for the write lock does not drop the one stored meanwhile.
FreshOverviewKept ==
  [][\A n \in Node : (entries[n] # NONE /\ (entries[n] # NONE => ~OverviewExpired(n)))
                       => entries'[n] # NONE]_cacheVars

PartsAgree(o) ==
  /\ \A e \in o.endpoints : \A x \in e.certificate :
       \E k \in o.certificates : k.name = x /\ e.domain \in k.usedBy
  /\ \A k \in o.certificates : \A d \in k.usedBy :
       \E e \in o.endpoints : e.domain = d /\ k.name \in e.certificate
  /\ o.summary.warning + o.summary.critical + o.summary.expired
       = Cardinality({k \in o.certificates : k.hours < 31 * 24})

\* Within one overview, also one assembled across a replacement, a certificate
\* lists a domain exactly when an endpoint of that domain shows the
\* certificate, and the certificates of every status add up to those in danger.
OverviewAgrees ==
  \A c \in Client : Answered(c, "overview") => PartsAgree(answer[c].body)

\* An overview is of one piece, although it is assembled from three reads.
OverviewConsistent == OverviewNotAhead /\ OverviewAgrees
=============================================================================
