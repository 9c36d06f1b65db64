---------------------------- MODULE ServiceBuild ----------------------------
(***************************************************************************)
(* The build of one VirtualService, as BuildResources makes it: the routes *)
(* of its virtual host, the filter chains, and the clusters and secrets    *)
(* that go with them.  SnapshotBuild takes from this build only whether it *)
(* succeeds and what it brings; here both are computed from the parts of   *)
(* the specification, and Agreed says that they are the same.              *)
(*                                                                         *)
(* The VirtualService is the one that its template has been merged into.   *)
(* Clusters are found in two ways: the routes are walked as they are, and  *)
(* filters, access logs and tracing are turned into JSON that is searched  *)
(* for the names of fields.  A name is searched for, so that the JSON of   *)
(* each kind of message is modelled with the fields on the way to it.      *)
(***************************************************************************)
EXTENDS Naturals, FiniteSets, SequencesExt, Absent

CONSTANTS
    MaxDepth,  \* maxRecursionDepth
    Inputs     \* VirtualServices, each with its listener and the store

VARIABLES
    input,     \* what is built
    result     \* the resources, or Failed

buildVars == <<input, result>>

Failed == [ok |-> FALSE]

-----------------------------------------------------------------------------
(* JSON, and the search for the value of a field.                          *)

Text(s) == [kind |-> "string", value |-> s]
JsonObject(f) == [kind |-> "object", value |-> f]
Array(s) == [kind |-> "array", value |-> s]

(* The object with one field, whose value is json.                         *)
In(field, json) == JsonObject([k \in {field} |-> json])

RECURSIVE FindClusterNames(_, _, _)

FindClusterNames(data, field, depth) ==
    CASE depth >= MaxDepth -> {}
      [] depth < MaxDepth /\ data.kind = "object" ->
            UNION {IF k # field
                   THEN FindClusterNames(data.value[k], field, depth + 1)
                   ELSE IF data.value[k].kind = "string"
                   THEN {data.value[k].value} \ {""}
                   ELSE {} : k \in DOMAIN data.value}
      [] depth < MaxDepth /\ data.kind = "array" ->
            UNION {FindClusterNames(data.value[j], field, depth + 1) :
                      j \in DOMAIN data.value}
      [] OTHER -> {}

Search(data, fields) == UNION {FindClusterNames(data, f, 0) : f \in fields}

-----------------------------------------------------------------------------
(* The messages, as [type, cluster], and their JSON with the field names of*)
(* the protocol buffers.                                                   *)

GrpcService(c) == In("grpc_service", In("envoy_grpc", In("cluster_name", Text(c))))

Json(m) ==
    CASE m.type = "oauth2"    -> In("config", In("token_endpoint", In("cluster", Text(m.cluster))))
      [] m.type = "ext_authz" -> GrpcService(m.cluster)
      [] m.type = "jwt"       -> In("providers", In("idp", In("remote_jwks",
                                    In("http_uri", In("cluster", Text(m.cluster))))))
      [] m.type = "grpc_log"  -> In("common_config", GrpcService(m.cluster))
      [] m.type = "otel"      -> In("provider", GrpcService(m.cluster))
      [] m.type = "zipkin"    -> In("provider", In("collector_cluster", Text(m.cluster)))
      [] m.type = "redis"     -> In("prefix_routes", In("routes",
                                    Array(<<In("cluster", Text(m.cluster))>>)))
      [] OTHER                -> JsonObject([k \in {} |-> Text("")])

(* A tracing configuration as it was written: a message can be written with*)
(* the other spelling of its field names.                                  *)
RawJson(m) ==
    IF m.camel THEN In("provider", In("collectorCluster", Text(m.cluster)))
               ELSE Json(m)

(* encoding/json on the Go structure of an OAuth2 configuration.           *)
GoJson(m) == In("token_endpoint", In("HttpUpstreamType", In("Cluster", Text(m.cluster))))

(* The types that go-control-plane does not know cannot be decoded.        *)
Registered(m) == m.type # "unknown"

SearchMessage(m, fields) == IF Registered(m) THEN Search(Json(m), fields) ELSE {}

-----------------------------------------------------------------------------
(* The clusters that the filter chains of a listener name.                 *)

ExtractClustersFromHTTPFilter(m) ==
    SearchMessage(m, {"cluster", "cluster_name", "token_cluster", "authorization_cluster"})

ExtractClustersFromAccessLog(m) == SearchMessage(m, {"cluster_name", "cluster"})

ExtractClustersFromTracing(m) ==
    IF m = NONE THEN {} ELSE Search(Json(m), {"cluster_name", "collector_cluster"})

ExtractClustersFromHCMFilter(hcm) ==
    UNION {ExtractClustersFromHTTPFilter(m) : m \in hcm.httpFilters}
      \cup UNION {ExtractClustersFromAccessLog(m) : m \in hcm.accessLog}
      \cup ExtractClustersFromTracing(hcm.tracing)

(* One cluster, or the ones of a weighted choice.                          *)
ExtractClustersFromTCPProxyFilter(tcp) == tcp.clusters \ {""}

ExtractClustersFromGenericFilter(m) ==
    SearchMessage(m, {"cluster", "cluster_name", "collector_cluster"})

Results(names, required) == {[name |-> n, isRequired |-> required] : n \in names}

(* The name of the filter decides, not the type of its configuration.      *)
ExtractClustersFromFilter(f) ==
    CASE f.config = NONE      -> {}
      [] f.name = "hcm"       -> Results(ExtractClustersFromHCMFilter(f.config), TRUE)
      [] f.name = "tcp_proxy" -> Results(ExtractClustersFromTCPProxyFilter(f.config), TRUE)
      [] OTHER                -> Results(ExtractClustersFromGenericFilter(f.config), FALSE)

(* Faulty variant: optional takes precedence.                              *)
RemoveRequired(results) ==
    {r \in results : r.isRequired => [r EXCEPT !.isRequired = FALSE] \notin results}

RemoveDuplicateResults(results) ==
    {r \in results : ~r.isRequired => [r EXCEPT !.isRequired = TRUE] \notin results}

(* UnmarshalTo fails on a message of another type.                         *)
Mistyped(f) ==
    f.name \in {"hcm", "tcp_proxy"} /\ f.config # NONE /\ f.config.type # f.name

(* A required cluster that is not stored fails the extraction; an optional *)
(* one is left out.                                                        *)
ExtractClustersFromFilterChains(chains, stored) ==
    IF \E f \in chains : Mistyped(f) THEN Failed
    ELSE LET found == RemoveDuplicateResults(UNION {ExtractClustersFromFilter(f) : f \in chains})
         IN  IF \E r \in found : r.isRequired /\ r.name \notin stored
             THEN Failed
             ELSE [ok |-> TRUE, clusters |-> {r.name : r \in found} \cap stored]

-----------------------------------------------------------------------------
IsTLSListener(listener) == "tls_inspector" \in listener.listenerFilters

ListenerHasPort443(listener) == listener.port = 443

-----------------------------------------------------------------------------
(* The virtual host.  A route is [match, path, clusters]; "regex" stands   *)
(* for any matcher other than a prefix and a path, and matches everything. *)

IsRootRoute(r) == r.match \in {"prefix", "path"} /\ r.path = "/"

FindRootRouteIndexes(routes) == {j \in DOMAIN routes : IsRootRoute(routes[j])}

(* Faulty variant: the root route changes places with the last one.        *)
SwapWithEnd(routes, j) ==
    [k \in DOMAIN routes |->
        CASE k = j           -> routes[Len(routes)]
          [] k = Len(routes) -> routes[j]
          [] OTHER           -> routes[k]]

MoveRouteToEnd(routes, j) == Append(RemoveAt(routes, j), routes[j])

ReorderRoutes(routes) ==
    LET roots == FindRootRouteIndexes(routes)
    IN  IF roots = {} \/ roots = {Len(routes)} THEN routes
        ELSE MoveRouteToEnd(routes, CHOOSE j \in roots : TRUE)

(* The routes of the Routes that are referred to, in order.                *)
BuildAdditionalRoutes(vs, store) ==
    FlattenSeq([j \in DOMAIN vs.additionalRoutes |-> store.routes[vs.additionalRoutes[j]]])

(* A reference to a Route that is missing, or that names a missing cluster.*)
ValidRouteRefs(vs, store) ==
    \A j \in DOMAIN vs.additionalRoutes :
        LET routes == store.routes[vs.additionalRoutes[j]]
        IN  /\ routes # NONE
            /\ \A k \in DOMAIN routes : routes[k].clusters \ {""} \subseteq store.clusters

AllRoutes(vs, store) == vs.routes \o BuildAdditionalRoutes(vs, store)

CheckAllDomainsUnique(domains) == IsInjective(SelectSeq(domains, LAMBDA d : d # ""))

ValidVirtualHost(vs, store) ==
    /\ vs.domains # <<>>
    /\ ValidRouteRefs(vs, store)
    /\ Len(AllRoutes(vs, store)) > 1 =>
          Cardinality(FindRootRouteIndexes(AllRoutes(vs, store))) <= 1
    /\ CheckAllDomainsUnique(vs.domains)

BuildVirtualHost(vs, store) == ReorderRoutes(AllRoutes(vs, store))

AddFallbackVirtualHostIfNeeded(vs, listener) ==
    IsTLSListener(listener) /\ vs.domains # <<"*">> /\ ListenerHasPort443(listener)

-----------------------------------------------------------------------------
(* The parameters of the filter chains.                                    *)

ConfigureTracing(vs, store) ==
    /\ vs.tracing = NONE \/ vs.tracingRef = NONE
    /\ vs.tracingRef # NONE => store.tracings[vs.tracingRef] # NONE

TracingOf(vs, store) ==
    IF vs.tracingRef # NONE THEN store.tracings[vs.tracingRef] ELSE vs.tracing

(* logs maps the four fields of the specification to what they list: access*)
(* logs inline, and names of AccessLogConfigs.                             *)
ValidateAccessLogConfiguration(vs) ==
    Cardinality({k \in DOMAIN vs.logs : vs.logs[k] # {}}) <= 1

ConfigureAccessLogs(vs, store) ==
    /\ ValidateAccessLogConfiguration(vs)
    /\ vs.logs.accessLogConfig \cup vs.logs.accessLogConfigs \subseteq store.logs

DeprecationMessage(vs) ==
    CASE vs.logs.accessLog # {}       -> "accessLog"
      [] vs.logs.accessLogConfig # {} -> "accessLogConfig"
      [] OTHER                        -> ""

(* tls is the set of the kinds that are configured, or NONE.               *)
GetTLSType(tls) == Cardinality(tls) = 1

ConfigureTLS(vs, listener, store) ==
    /\ IsTLSListener(listener) <=> vs.tls # NONE
    /\ vs.tls # NONE =>
          /\ GetTLSType(vs.tls)
          /\ vs.tls = {"autoDiscovery"} =>
                \A d \in Range(vs.domains) : store.discovered[d] # NONE

(* The domains of each secret.                                             *)
SecretNameToDomains(vs, store) ==
    LET secretOf(d) == IF vs.tls = {"secretRef"} THEN vs.secretRef ELSE store.discovered[d]
    IN  [s \in {secretOf(d) : d \in Range(vs.domains)} |->
            {d \in Range(vs.domains) : secretOf(d) = s}]

(* Faulty variant: all of the virtual host's domains decide on the match.  *)
ServerNamesOfHost(vs, domains) == IF "*" \in Range(vs.domains) THEN {} ELSE domains

(* No server names: the filter chain matches every connection.             *)
ServerNames(vs, domains) == IF "*" \in domains THEN {} ELSE domains

(* The filter chains of a TLS listener by secret; otherwise there is one.  *)
BuildFilterChains(vs, listener, store) ==
    IF vs.tls = NONE THEN [s \in {NONE} |-> {}]
    ELSE LET m == SecretNameToDomains(vs, store)
         IN  [s \in DOMAIN m |-> ServerNames(vs, m[s])]

-----------------------------------------------------------------------------
(* The clusters of a VirtualService without filter chains of its listener. *)

FromVirtualHostRoutes(routes) == UNION {routes[j].clusters : j \in DOMAIN routes} \ {""}

FromOAuth2HTTPFilters(filters) ==
    UNION {FindClusterNames(GoJson(m), "Cluster", 0) : m \in {f \in filters : f.type = "oauth2"}}

FromTracing(m) ==
    IF m = NONE THEN {} ELSE Search(RawJson(m), {"cluster_name", "collector_cluster"})

HttpFiltersOf(vs, store) == {store.filters[n] : n \in vs.httpFilters}

ClustersNamed(vs, store) ==
    FromVirtualHostRoutes(BuildVirtualHost(vs, store))
      \cup FromOAuth2HTTPFilters(HttpFiltersOf(vs, store))
      \cup FromTracing(TracingOf(vs, store))

-----------------------------------------------------------------------------
CheckFilterChainsConflicts(vs) ==
    /\ vs.domains = <<>>
    /\ vs.additionalRoutes = <<>>
    /\ vs.httpFilters = {}
    /\ vs.tls = NONE
    /\ \A k \in DOMAIN vs.logs : vs.logs[k] = {}

BuildFromExistingFilterChains(vs, listener, store) ==
    LET found == ExtractClustersFromFilterChains(listener.chains, store.clusters)
    IN  IF CheckFilterChainsConflicts(vs) /\ found.ok
        THEN [ok |-> TRUE, clusters |-> found.clusters, routes |-> <<>>,
              chains |-> [s \in {} |-> {}], fallback |-> FALSE, message |-> ""]
        ELSE Failed

BuildFromVirtualService(vs, listener, store) ==
    IF /\ \A n \in vs.httpFilters : store.filters[n] # NONE
       /\ ValidVirtualHost(vs, store)
       /\ ConfigureTracing(vs, store)
       /\ ConfigureAccessLogs(vs, store)
       /\ ConfigureTLS(vs, listener, store)
       /\ ClustersNamed(vs, store) \subseteq store.clusters
       /\ vs.tls # NONE => DOMAIN SecretNameToDomains(vs, store) \subseteq store.secrets
    THEN [ok       |-> TRUE,
          clusters |-> ClustersNamed(vs, store),
          routes   |-> BuildVirtualHost(vs, store),
          chains   |-> BuildFilterChains(vs, listener, store),
          fallback |-> AddFallbackVirtualHostIfNeeded(vs, listener),
          message  |-> DeprecationMessage(vs)]
    ELSE Failed

BuildResources ==
    /\ result = NONE
    /\ result' = IF input.listener = NONE THEN Failed
                 ELSE IF input.listener.chains # {}
                 THEN BuildFromExistingFilterChains(input.vs, input.listener, input.store)
                 ELSE BuildFromVirtualService(input.vs, input.listener, input.store)
    /\ UNCHANGED input

BuildInit == input \in Inputs /\ result = NONE

BuildNext == BuildResources

BuildSpec == BuildInit /\ [][BuildNext]_buildVars

-----------------------------------------------------------------------------
(* Properties.                                                             *)

Matches(r, path) ==
    CASE r.match = "prefix" -> r.path \in {"/", path}
      [] r.match = "path"   -> r.path = path
      [] OTHER              -> TRUE

(* Envoy takes the first route that matches; 0 when none does.             *)
FirstMatch(routes, path) ==
    LET found == {j \in DOMAIN routes : Matches(routes[j], path)}
    IN  IF found = {} THEN 0 ELSE CHOOSE j \in found : \A k \in found : j <= k

Answer(routes, path) ==
    IF FirstMatch(routes, path) = 0 THEN NONE ELSE routes[FirstMatch(routes, path)]

(* BuildVirtualHost: wherever the route for "/" stands in the              *)
(* specification or in the Routes that are appended to it, a request is    *)
(* answered by the first of the other routes that matches it, in the order *)
(* they were written in, and by the route for "/" only when none does.     *)
RootAnswersLast ==
    result # NONE /\ result.ok /\ input.listener.chains = {} =>
        LET given  == AllRoutes(input.vs, input.store)
            others == SelectSeq(given, LAMBDA r : ~IsRootRoute(r))
            roots  == SelectSeq(given, IsRootRoute)
        IN  \A path \in {"/", "/a", "/b"} :
                Answer(result.routes, path) =
                    IF FirstMatch(others, path) # 0
                    THEN Answer(others, path) ELSE Answer(roots, path)

(* The chain that Envoy picks for a server name: one that lists it, or one *)
(* that matches everything.                                                *)
Picked(chains, d) ==
    LET listing == {s \in DOMAIN chains : d \in chains[s]}
    IN  IF listing # {} THEN listing ELSE {s \in DOMAIN chains : chains[s] = {}}

(* BuildFilterChains: on a TLS listener every domain of the virtual host   *)
(* reaches exactly one filter chain, the one with the secret that was      *)
(* named or discovered for it, also when "*" is one of the domains and the *)
(* chain that has it gets no server names at all.                          *)
DomainGetsItsSecret ==
    result # NONE /\ result.ok /\ input.vs.tls # NONE =>
        \A d \in Range(input.vs.domains) :
            Picked(result.chains, d) =
                {IF "secretRef" \in input.vs.tls THEN input.vs.secretRef
                                                 ELSE input.store.discovered[d]}

-----------------------------------------------------------------------------
(* The abstraction to the store of SnapshotBuild.                          *)

S == INSTANCE SnapshotBuild
        WITH VS <- {"vs"}, Node <- {}, Domain <- {}, Listener <- {"l"},
             Template <- {}, Cluster <- {}, Secret <- {}, Part <- {}, Addr <- {},
             Content <- {}, Eds <- {}, STAR <- "*"

(* The clusters that the parts of a VirtualService name, taken from the    *)
(* messages instead of their JSON.                                         *)
HostReferences(vs, store) ==
    UNION {r.clusters : r \in Range(vs.routes)}
      \cup UNION {UNION {r.clusters : r \in Range(store.routes[n])} :
                     n \in {n \in Range(vs.additionalRoutes) : store.routes[n] # NONE}}
      \cup {m.cluster : m \in {m \in HttpFiltersOf(vs, store) \ {NONE} : m.type = "oauth2"}}
      \cup {m.cluster : m \in {m \in {TracingOf(vs, store)} \ {NONE} : ~m.camel}}

NamesCluster(m) == m.type \in {"oauth2", "ext_authz", "jwt", "grpc_log", "otel", "zipkin", "redis"}

ChainReferences(f, stored) ==
    CASE f.config = NONE -> {}
      [] f.name = "hcm" ->
            {m.cluster : m \in {m \in f.config.httpFilters \cup f.config.accessLog
                                        \cup ({f.config.tracing} \ {NONE}) : NamesCluster(m)}}
      [] f.name = "tcp_proxy" -> f.config.clusters
      [] OTHER -> IF NamesCluster(f.config) THEN {f.config.cluster} \cap stored ELSE {}

Domains(vs) == Range(vs.domains)

AbstractVS(vs, listener, store) ==
    [nodes    |-> {},
     domains  |-> Domains(vs),
     template |-> NONE,
     listener |-> IF listener = NONE THEN NONE ELSE "l",
     clusters |-> (IF listener = NONE \/ listener.chains # {} THEN {}
                   ELSE HostReferences(vs, store)) \ {""},
     secrets  |-> CASE vs.tls = NONE            -> {}
                    [] vs.tls = {"secretRef"}   -> {vs.secretRef}
                    [] OTHER                    -> {store.discovered[d] : d \in Domains(vs)},
     parts    |-> UNION {{<<k, n>> : n \in vs.logs[k]} : k \in DOMAIN vs.logs}
                    \cup {<<"httpFilter", n>> : n \in vs.httpFilters}
                    \cup {<<"route", n>> : n \in Range(vs.additionalRoutes)}]

PartStored(p, store) ==
    CASE p[1] = "httpFilter" -> store.filters[p[2]] # NONE
      [] p[1] = "route"      -> store.routes[p[2]] # NONE
      [] p[1] \in {"accessLogConfig", "accessLogConfigs"} -> p[2] \in store.logs
      [] OTHER               -> TRUE

AbstractStore(i) ==
    LET v == AbstractVS(i.vs, i.listener, i.store)
        l == IF i.listener = NONE THEN NONE
             ELSE [kind     |-> IF i.listener.chains # {} THEN "own"
                                ELSE IF IsTLSListener(i.listener) THEN "tls" ELSE "http",
                   clusters |-> UNION {ChainReferences(f, i.store.clusters) :
                                         f \in {f \in i.listener.chains : ~Mistyped(f)}} \ {""}]
        has(set) == [x \in v.secrets \cup v.clusters \cup
                             (IF l = NONE THEN {} ELSE l.clusters) |->
                        IF x \in set THEN "stored" ELSE NONE]
    IN  [vs        |-> [x \in {"vs"} |-> v],
         listeners |-> [x \in {"l"} |-> l],
         clusters  |-> has(i.store.clusters),
         secrets   |-> has(i.store.secrets),
         parts     |-> [p \in v.parts |-> IF PartStored(p, i.store) THEN "stored" ELSE NONE]]

(* What SnapshotBuild takes for granted of a VirtualService.               *)
WellFormed(vs, store) ==
    /\ ConfigureTracing(vs, store)
    /\ ValidateAccessLogConfiguration(vs)
    /\ vs.tls # NONE => Cardinality(vs.tls) = 1
    /\ CheckAllDomainsUnique(vs.domains)
    /\ Cardinality({j \in DOMAIN AllRoutes(vs, store) :
                       IsRootRoute(AllRoutes(vs, store)[j])}) <= 1

(* BuildResources is what SnapshotBuild says of it: a well-formed          *)
(* VirtualService builds exactly when Builds says so, and brings exactly   *)
(* the clusters that ClustersOf says, though the build finds them by       *)
(* searching JSON for field names.                                         *)
Agreed ==
    result # NONE =>
        LET st == AbstractStore(input)
        IN  IF /\ S!Builds(st, "vs")
               /\ IF input.listener.chains = {}
                  THEN WellFormed(input.vs, input.store)
                  ELSE \A f \in input.listener.chains : ~Mistyped(f)
            THEN result.ok /\ result.clusters = S!ClustersOf(st, "vs")
            ELSE ~result.ok

=============================================================================
