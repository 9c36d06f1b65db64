------------------------------ MODULE MCStore -------------------------------
(***************************************************************************)
(* The store and what is done with the objects in it, each in behaviours   *)
(* of its own: "subject" says what a behaviour is about, and the variables *)
(* of the others stay as they are.                                         *)
(*   indices     ResourceStore: two names, two incarnations, two           *)
(*               templates, two spec names                                 *)
(*   copies      StoreCopies                                               *)
(*   templates   Templates: templates with an access log config and a      *)
(*               route in another namespace than the template's, templates *)
(*               that are refused, and VirtualServices that override,      *)
(*               replace, delete and append                                *)
(*   building    ServiceBuild: two clusters, "c" and "d", either of which  *)
(*               may be missing from the store                             *)
(*   management  ManagementAPI: one VirtualService and two requests at a   *)
(*               time.  One body has everything, one leaves out what may   *)
(*               be left out, one asks for a listener that is not allowed  *)
(*               and one for a virtual host that does not build.           *)
(***************************************************************************)
EXTENDS ResourceStore, StoreCopies, Templates, ServiceBuild, ManagementAPI

CONSTANTS
    Subjects,   \* what the run is about
    \* Templates
    tns, other, l1, a1, a2, r1, env, tier, envMark, tierMark, dev, prod, quoted, x1, y1,
    \* ManagementAPI
    service, template1, lst, denied, r2, n1, n2, h1, badHost, opt, remote

VARIABLE subject

-----------------------------------------------------------------------------
Nothing(names) == [i \in names |-> NONE]

Empty ==
    /\ virtualServices = Nothing(Name)
    /\ clusters = Nothing(Name)
    /\ others = Nothing(Name)

MCInit ==
    /\ subject \in Subjects
    /\ subject # "indices" => Empty
    /\ Init
    /\ CopiesInit
    /\ subject # "copies" => part = "strings"
    /\ TemplatesInit
    /\ IF subject = "building" THEN BuildInit ELSE input = NONE /\ result = NONE
    /\ APIInit

MCNext ==
    \/ /\ subject = "indices"
       /\ Next
       /\ UNCHANGED <<subject, copyVars, templatesVars, buildVars, apiVars>>
    \/ /\ subject = "copies"
       /\ CopiesNext
       /\ UNCHANGED <<subject, vars, templatesVars, buildVars, apiVars>>
    \/ /\ subject = "templates"
       /\ TemplatesNext
       /\ UNCHANGED <<subject, vars, copyVars, buildVars, apiVars>>
    \/ /\ subject = "building"
       /\ BuildNext
       /\ UNCHANGED <<subject, vars, copyVars, templatesVars, apiVars>>
    \/ /\ subject = "management"
       /\ APINext
       /\ UNCHANGED <<subject, vars, copyVars, templatesVars, buildVars>>

MCSpec ==
    MCInit /\ [][MCNext]_<<subject, vars, copyVars, templatesVars, buildVars, apiVars>>

(* The names of the resource store and the clients of the API have the     *)
(* same two values; either may be exchanged for the other.                 *)
Symmetry == Permutations(Client)

-----------------------------------------------------------------------------
\* References have no order: what counts is the room and the content of every
\* list and set, and which of them are shared.
ListsHeld == [h \in Handle |-> IF stores[h] = NONE THEN NONE ELSE stores[h].list]
             @@ [reader |-> IF handed = NONE THEN NONE ELSE handed.list]

SetsHeld == [h \in Handle |-> IF stores[h] = NONE THEN NONE ELSE stores[h].domains]
            @@ [reader |-> IF lent = NONE THEN NONE ELSE lent.idx]

Shared(f) == {<<x, y>> \in (DOMAIN f) \X (DOMAIN f) : f[x] # NONE /\ f[y] # NONE /\ f[x] = f[y]}

Arrays == [x \in DOMAIN ListsHeld |-> IF ListsHeld[x] = NONE THEN NONE ELSE ListsHeld[x].arr]

\* A reader's list and a dry run's copy share memory through the live store or
\* not at all: they are tried one at a time.
OneAtATime == handed = NONE \/ stores["copy"] = NONE

Reachable ==
    <<[h \in Handle |-> IF stores[h] = NONE THEN NONE ELSE <<stores[h].vs, stores[h].item, stores[h].itemByUID>>],
      [x \in DOMAIN ListsHeld |-> IF ListsHeld[x] = NONE THEN NONE
                              ELSE <<Content(arrays, ListsHeld[x]), Len(arrays[ListsHeld[x].arr])>>],
      [x \in DOMAIN SetsHeld |-> IF SetsHeld[x] = NONE THEN NONE ELSE DomainSets(sets, SetsHeld[x])],
      Shared(Arrays), Shared(SetsHeld),
      IF handed = NONE THEN NONE ELSE handed.was, IF lent = NONE THEN NONE ELSE lent.was,
      pool, interning, part>>

MCView ==
    CASE subject = "indices"    -> <<subject, vars>>
      [] subject = "copies"     -> <<subject, Reachable>>
      [] subject = "templates"  -> <<subject, templatesVars>>
      [] subject = "building"   -> <<subject, buildVars>>
      [] subject = "management" -> <<subject, apiVars>>

-----------------------------------------------------------------------------
MCObjUid == {l1, a1, a2, r1}

MCObjKey ==
    l1 :> [kind |-> "listener", name |-> "https", namespace |-> tns]
      @@ a1 :> [kind |-> "alc", name |-> "stdout", namespace |-> other]
      @@ a2 :> [kind |-> "alc", name |-> "file", namespace |-> tns]
      @@ r1 :> [kind |-> "route", name |-> "health", namespace |-> other]

MCMark == env :> envMark @@ tier :> tierMark

Host(f) == "virtualHost" :> Obj("header" :> Val(Mark[f]) @@ "domains" :> Arr(<<Val(y1)>>))

Def(f, type, must, default) ==
    [name |-> f, type |-> type, required |-> must, enum |-> {dev, prod}, default |-> default]

MCTemplateSpecs ==
    {[spec |-> "listener" :> Ref("https", NONE) @@ Host(env)
                 @@ "accessLogConfigs" :> Arr(<<Ref("file", NONE)>>)
                 @@ "tlsConfig" :> Obj("secretRef" :> Ref("cert", tns) @@ "autoDiscovery" :> Val(x1)),
      defs |-> {Def(env, "string", FALSE, dev)}],
     [spec |-> Host(tier) @@ "accessLogConfig" :> Ref("file", NONE)
                 @@ "additionalRoutes" :> Arr(<<Ref("ready", tns)>>),
      defs |-> {Def(tier, "enum", TRUE, NONE)}],
     [spec |-> Host(env) @@ "tracingRef" :> Ref("zipkin", NONE), defs |-> {}],
     [spec |-> Host(env), defs |-> {Def(env, "string", FALSE, NONE), Def(tier, "string", FALSE, NONE)}],
     [spec |-> "tracing" :> Val(x1) @@ "tracingRef" :> Ref("zipkin", tns), defs |-> {}]}

MCOwnSpecs ==
    {[spec |-> "accessLogConfigs" :> Arr(<<Ref("local", NONE), Ref("stdout", other)>>),
      options |-> {}, fields |-> NoFields],
     [spec |-> "listener" :> Ref("http", NONE) @@ "tlsConfig" :> Obj("secretRef" :> Ref("own", NONE)),
      options |-> {[path |-> <<"tlsConfig">>, op |-> "replace"],
                   [path |-> <<"virtualHost", "header">>, op |-> "delete"]},
      fields |-> env :> dev],
     [spec |-> "virtualHost" :> Obj("domains" :> Arr(<<Val(x1), Val(y1)>>)),
      options |-> {[path |-> <<"virtualHost", "domains">>, op |-> "merge"]},
      fields |-> tier :> prod],
     [spec |-> NoFields, options |-> {}, fields |-> env :> quoted],
     [spec |-> NoFields, options |-> {[path |-> <<"listener">>, op |-> ""]}, fields |-> NoFields]}

Asked ==
    [allowed |-> TRUE, listener |-> EMPTY, alcs |-> <<>>, routes |-> <<>>, filters |-> <<>>,
     host |-> NONE, remote |-> NONE, tls |-> NONE, options |-> {}, fields |-> NoFields]

MCRequests ==
    {[Asked EXCEPT !.allowed = FALSE],
     [Asked EXCEPT !.host = y1],
     [Asked EXCEPT !.alcs = <<a1, a2>>, !.fields = env :> prod],
     [Asked EXCEPT !.alcs = <<a2, EMPTY>>, !.tls = "own", !.listener = l1],
     [Asked EXCEPT !.alcs = <<a1, a1>>, !.host = x1],
     [Asked EXCEPT !.routes = <<r1>>, !.fields = tier :> dev, !.remote = x1],
     [Asked EXCEPT !.routes = <<r1>>, !.alcs = <<a1>>, !.host = x1,
                   !.options = {[path |-> <<"accessLogConfigs">>, op |-> "replace"],
                                [path |-> <<"listener">>, op |-> "delete"]}]}

-----------------------------------------------------------------------------
Msg(type, c) == [type |-> type, cluster |-> c, camel |-> FALSE]

Root(match) == [match |-> match, path |-> "/", clusters |-> {"c"}]

RouteChoice ==
    {Root("prefix"), Root("path"),
     [match |-> "prefix", path |-> "/a", clusters |-> {"d"}],
     [match |-> "path", path |-> "/a", clusters |-> {"c", "d", ""}],
     [match |-> "regex", path |-> "", clusters |-> {}]}

NoLogs == [accessLog |-> {}, accessLogConfig |-> {}, accessLogs |-> {}, accessLogConfigs |-> {}]

LogChoice ==
    {NoLogs,
     [NoLogs EXCEPT !.accessLog = {"inline"}],
     [NoLogs EXCEPT !.accessLogConfig = {"stored"}],
     [NoLogs EXCEPT !.accessLogs = {"inline"}],
     [NoLogs EXCEPT !.accessLogConfigs = {"stored", "missing"}],
     [NoLogs EXCEPT !.accessLogConfigs = {"stored"}, !.accessLogs = {"inline"}]}

Plain ==
    [routes |-> <<Root("prefix")>>, additionalRoutes |-> <<>>, domains |-> <<"x">>,
     httpFilters |-> {}, tracing |-> NONE, tracingRef |-> NONE, logs |-> NoLogs,
     tls |-> NONE, secretRef |-> "s"]

BaseStore ==
    [clusters |-> {"c", "d"},
     routes |-> [n \in {"r", "missing"} |->
                    IF n = "r" THEN <<[match |-> "prefix", path |-> "/a", clusters |-> {"d"}]>> ELSE NONE],
     filters |-> [n \in {"oauth2", "ext_authz", "missing"} |->
                    IF n = "missing" THEN NONE ELSE Msg(n, "d")],
     tracings |-> [n \in {"t", "missing"} |-> IF n = "t" THEN Msg("zipkin", "d") ELSE NONE],
     logs |-> {"stored"},
     secrets |-> {"s", "t"},
     discovered |-> [d \in {"x", "y", "*", ""} |-> IF d = "y" THEN "t" ELSE "s"]]

Http == [listenerFilters |-> {}, port |-> 80, chains |-> {}]

Https == [listenerFilters |-> {"tls_inspector", "other"}, port |-> 443, chains |-> {}]

(* Every order of up to two routes of the specification and one more of a  *)
(* Route that it refers to.                                                *)
RouteInputs ==
    {[vs |-> [Plain EXCEPT !.routes = s, !.additionalRoutes = a],
      listener |-> Http,
      store |-> [BaseStore EXCEPT !.clusters = cs, !.routes["r"] = <<r>>]] :
        s \in SeqOf(RouteChoice, 2), a \in {<<>>, <<"r">>, <<"missing">>, <<"r", "missing">>},
        cs \in {{"c", "d"}, {"c"}}, r \in RouteChoice}

PartInputs ==
    {[vs |-> [Plain EXCEPT !.httpFilters = hf, !.tracing = t, !.tracingRef = tr, !.logs = lg],
      listener |-> l,
      store |-> [BaseStore EXCEPT !.clusters = cs]] :
        hf \in {{}, {"oauth2"}, {"ext_authz"}, {"oauth2", "missing"}},
        t \in {NONE, Msg("otel", "d"), [Msg("zipkin", "d") EXCEPT !.camel = TRUE]},
        tr \in {NONE, "t", "missing"}, lg \in LogChoice,
        l \in {NONE, Http}, cs \in SUBSET {"c", "d"}}

Discovered ==
    {f @@ ("" :> "s") : f \in [{"x", "y", "*"} -> {"s", "t", NONE}]}

TlsInputs ==
    {[vs |-> [Plain EXCEPT !.tls = k.tls, !.domains = ds],
      listener |-> l,
      store |-> [BaseStore EXCEPT !.secrets = ss, !.discovered = k.found]] :
        k \in [tls : {{"autoDiscovery"}}, found : Discovered]
                \cup [tls : {NONE, {}, {"secretRef"}, {"secretRef", "autoDiscovery"}},
                      found : {BaseStore.discovered}],
        ds \in SeqOf({"x", "y", "*"}, 2) \cup {<<"x", "", "">>}, l \in {Http, Https},
        ss \in {{"s", "t"}, {"s"}}}

Filters ==
    {[name |-> "tcp_proxy", config |-> [type |-> "tcp_proxy", clusters |-> {"c"}]],
     [name |-> "tcp_proxy", config |-> [type |-> "tcp_proxy", clusters |-> {"c", "d", ""}]],
     [name |-> "redis", config |-> Msg("redis", "c")],
     [name |-> "redis", config |-> Msg("redis", "e")],
     [name |-> "other", config |-> Msg("unknown", "c")],
     [name |-> "tcp_proxy", config |-> NONE],
     [name |-> "hcm", config |-> [type |-> "tcp_proxy", clusters |-> {"c"}]],
     [name |-> "hcm", config |-> [type |-> "hcm", httpFilters |-> {Msg("oauth2", "c"), Msg("router", "d")},
                                  accessLog |-> {Msg("file", "d")}, tracing |-> NONE]],
     [name |-> "hcm", config |-> [type |-> "hcm", httpFilters |-> {Msg("jwt", "c")},
                                  accessLog |-> {Msg("grpc_log", "d")}, tracing |-> NONE]],
     [name |-> "hcm", config |-> [type |-> "hcm", httpFilters |-> {Msg("ext_authz", "c")},
                                  accessLog |-> {}, tracing |-> Msg("zipkin", "d")]]}

Bare == [Plain EXCEPT !.domains = <<>>, !.routes = <<>>]

OwnInputs ==
    {[vs |-> v, listener |-> [Http EXCEPT !.chains = ch],
      store |-> [BaseStore EXCEPT !.clusters = cs]] :
        v \in {Bare, Plain, [Bare EXCEPT !.tracingRef = "t"],
               [Bare EXCEPT !.additionalRoutes = <<"r">>], [Bare EXCEPT !.httpFilters = {"oauth2"}],
               [Bare EXCEPT !.tls = {"secretRef"}]}
               \cup {[Bare EXCEPT !.logs = lg] : lg \in LogChoice},
        ch \in {x \in SUBSET Filters : Cardinality(x) \in 1..2},
        cs \in SUBSET {"c", "d"}}

MCInputs == RouteInputs \cup PartInputs \cup TlsInputs \cup OwnInputs

-----------------------------------------------------------------------------
MCResource == {template1, lst, denied, r1, r2}
MCAllowed  == {template1, lst, r1, r2}
EmptyBody == [f \in {"nodes", "template", "listener", "virtualHost", "useRemoteAddress"} |-> NONE]
               @@ [f \in {"options", "accessLogConfigs", "additionalRoutes",
                          "additionalHttpFilters"} |-> <<>>]
Full   == [EmptyBody EXCEPT !.nodes = n1, !.template = template1, !.listener = lst, !.virtualHost = h1,
                            !.options = <<opt>>, !.accessLogConfigs = <<r1>>,
                            !.additionalRoutes = <<r1>>, !.additionalHttpFilters = <<r2>>,
                            !.useRemoteAddress = remote]
Sparse == [EmptyBody EXCEPT !.nodes = n2, !.template = template1, !.additionalRoutes = <<r2, r1>>]
Denied == [Sparse EXCEPT !.nodes = n1, !.listener = denied]
Broken == [Sparse EXCEPT !.virtualHost = badHost, !.listener = lst]
MCCreations == {[name |-> service, body |-> Full]}
MCUpdates == {Full, Sparse, Denied, Broken}
MCForeign == {[EmptyBody EXCEPT !.nodes = n1, !.template = template1, !.listener = lst]}

-----------------------------------------------------------------------------
(* ManagementAPI: docs/xds.md, "When a Kubernetes CR changes, the update   *)
(* is propagated to Envoy proxies within milliseconds".                    *)
ChangeReachesEnvoy == subject = "management" => UpdatePropagated

=============================================================================
