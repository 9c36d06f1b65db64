----------------------------- MODULE MCAdmission -----------------------------
(***************************************************************************)
(* Two VirtualServices in one namespace and what they refer to, on two     *)
(* nodes.  Changes come one by one or overtake each other.                 *)
(***************************************************************************)
EXTENDS Admission

CONSTANTS n1, n2, d1, d2, a1, x

v1 == <<"ns", "v1">>
v2 == <<"ns", "v2">>
l1 == <<"ns", "l1">>
l2 == <<"ns", "l2">>
far == <<"other", "l1">>
t  == <<"ns", "t">>
c1 == <<"ns", "c1">>
s1 == <<"ns", "s1">>
route  == <<"ns", "r", "Route">>
filter == <<"ns", "f", "HttpFilter">>
policy == <<"ns", "p", "Policy">>
trace  == <<"ns", "tr", "Tracing">>
log    == <<"ns", "a", "AccessLogConfig">>
logs   == <<"ns", "b", "AccessLogConfig">>

MCVS == {v1, v2}
MCListener == {l1, l2, far}
MCTemplate == {t}
MCCluster == {c1}
MCSecret == {s1}
MCPart == {route, filter, policy, trace, log, logs}
MCListed == {logs}
MCContent == {x, c1}

VSWith(nodes, domains, listener) ==
    [nodes |-> nodes, domains |-> domains, template |-> NONE,
     listener |-> listener, clusters |-> {}, secrets |-> {}, parts |-> {}]

Http == [addr |-> a1, kind |-> "http", clusters |-> {}]
Tls  == [addr |-> a1, kind |-> "tls", clusters |-> {}]

Plain == VSWith({n1}, {d1}, l1)
FromTemplate == [VSWith({n1}, {d1}, NONE) EXCEPT !.template = t]
Secured == [VSWith({n1}, {d1}, l2) EXCEPT !.secrets = {s1}]
Routed == [Plain EXCEPT !.clusters = {c1}, !.parts = {route, filter, policy, trace, log}]

MCVSSpecs ==
    {Plain, FromTemplate, Secured, Routed,
     VSWith({n1, n2}, {d1}, l1), VSWith({n2}, {d1}, l1), VSWith({STAR}, {d1, d2}, l1),
     VSWith({STAR}, {d2}, l2), VSWith({n1}, {d2}, far), VSWith({}, {d1}, l1),
     [Plain EXCEPT !.parts = {logs}]}

Change(kind, name, value) == [kind |-> kind, name |-> name, value |-> value]

MCChanges ==
    {Change("vs", v, r) : v \in MCVS, r \in MCVSSpecs \cup {NONE}}
      \cup {Change("templates", t, l) : l \in {l1, l2, NONE}}
      \cup {Change("listeners", l, r) : l \in {l1, l2}, r \in {Http, NONE}}
      \cup {Change("clusters", c1, r) : r \in {x, MALFORMED, NONE}}
      \cup {Change("secrets", s1, r) : r \in {x, NONE}}
      \cup {Change("parts", p, r) : p \in MCPart, r \in {MALFORMED, NONE}}

MCStore(vs1, vs2) ==
    [vs        |-> [v \in MCVS |-> IF v = v1 THEN vs1 ELSE vs2],
     templates |-> [u \in MCTemplate |-> l1],
     listeners |-> [l \in MCListener |-> IF l = l2 THEN Tls ELSE Http],
     clusters  |-> [c \in MCCluster |-> x],
     secrets   |-> [s \in MCSecret |-> x],
     parts     |-> [p \in MCPart |-> IF p = route THEN c1 ELSE x]]

MCLoads == {MCStore(NONE, NONE), MCStore(Routed, NONE), MCStore(FromTemplate, NONE),
            MCStore(Plain, VSWith({STAR}, {d2}, l1))}

EmptyStore ==
    [vs        |-> [v \in VS |-> NONE],
     templates |-> [u \in Template |-> NONE],
     listeners |-> [l \in Listener |-> NONE],
     clusters  |-> [c \in Cluster |-> NONE],
     secrets   |-> [s \in Secret |-> NONE],
     parts     |-> [p \in Part |-> NONE]]
MCInitStores == {EmptyStore}

Undoubted == doubt = {}

=============================================================================
