---------------------------- MODULE MCSnapshots -----------------------------
(***************************************************************************)
(* CacheUpdater in three settings, each in behaviours of its own; "part"   *)
(* says which one a behaviour is in.                                       *)
(*   placement  what decides where VirtualServices go: specific and common *)
(*              ones on two nodes, clashing domains, listeners that share  *)
(*              an address (so that the commit fails for one node and not  *)
(*              the other), and listeners with filter chains of their own  *)
(*   shared     one node with two VirtualServices that may route to the    *)
(*              same cluster, and clusters that change, disappear or need  *)
(*              an EDS                                                     *)
(*   tls        one node with what one VirtualService is built from: a     *)
(*              listener given directly or by a template, one or two       *)
(*              secrets, a filter, and a listener that is TLS, plain, or   *)
(*              has filter chains of its own that refer to a cluster       *)
(* The steps are those of CacheUpdater; a setting says which changes come. *)
(***************************************************************************)
EXTENDS CacheUpdater, TLC

CONSTANTS
    Parts,   \* the settings of the run
    n1, n2, d1, d2, l1, l2, t1, c1, c2, s1, s2, p1, a1, a2, x, e

VARIABLE part

VSWith(nodes, domains, listener) ==
    [nodes |-> nodes, domains |-> domains, template |-> NONE,
     listener |-> listener, clusters |-> {}, secrets |-> {}, parts |-> {}]

ListenerWith(a, kind, clusters) == [addr |-> a, kind |-> kind, clusters |-> clusters]

EmptyStore ==
    [vs        |-> [v \in VS |-> NONE],
     templates |-> [t \in Template |-> NONE],
     listeners |-> [l \in Listener |-> NONE],
     clusters  |-> [c \in Cluster |-> NONE],
     secrets   |-> [s \in Secret |-> NONE],
     parts     |-> [p \in Part |-> NONE]]

-----------------------------------------------------------------------------
(* What each setting starts with, and what may change.                     *)
Http == ListenerWith(a1, "http", {})

Settings ==
    [placement |->
        [stores    |-> {EmptyStore,
                        [EmptyStore EXCEPT
                            !.listeners = [l \in Listener |-> Http],
                            !.vs = [v \in VS |-> VSWith({n1}, {d1}, l1)]]},
         services  |-> {VSWith({n1}, {d1}, l1), VSWith({n1, n2}, {d2}, l2),
                        VSWith({n2}, {}, l2), VSWith({STAR}, {d1}, l1),
                        VSWith({}, {d1}, l1)},
         listeners |-> {<<l1, Http>>, <<l2, Http>>, <<l2, ListenerWith(a2, "own", {})>>},
         clusters  |-> {}, contents |-> {}],
     shared |->
        [stores    |-> {[EmptyStore EXCEPT
                            !.listeners[l1] = Http,
                            !.clusters = [c \in Cluster |-> x]]},
         services  |-> {[VSWith({n1}, {d1}, l1) EXCEPT !.clusters = {c1}],
                        [VSWith({n1}, {d2}, l1) EXCEPT !.clusters = {c1}],
                        [VSWith({n1}, {d2}, l1) EXCEPT !.clusters = {c2}]},
         listeners |-> {<<l1, Http>>},
         clusters  |-> Cluster, contents |-> {x, e}],
     tls |->
        [stores    |-> {[EmptyStore EXCEPT
                            !.clusters[c1] = x,
                            !.secrets = [s \in Secret |-> x]]},
         services  |-> {[VSWith({n1}, {d1}, l1) EXCEPT !.secrets = {s1}, !.parts = {p1}],
                        [VSWith({n1}, {d1}, NONE) EXCEPT !.template = t1, !.secrets = {s1, s2}],
                        [VSWith({n1}, {d1}, l1) EXCEPT !.parts = {p1}],
                        [VSWith({n1}, {}, NONE) EXCEPT !.template = t1]},
         listeners |-> {l1} \X {Http, ListenerWith(a1, "tls", {}),
                                 ListenerWith(a1, "own", {}),
                                 ListenerWith(a1, "own", {c1})},
         clusters  |-> {c1}, contents |-> {x}]]

Setting == Settings[part]

MCVSSpecs == UNION {Settings[i].services : i \in DOMAIN Settings}
MCListenerSpecs == UNION {{b[2] : b \in Settings[i].listeners} : i \in DOMAIN Settings}
MCInitStores == UNION {Settings[i].stores : i \in DOMAIN Settings}

MCInit == part \in Parts /\ Init /\ store \in Setting.stores

(* With templates and secrets there is one VirtualService at a time.       *)
Alone(v) == part = "tls" => \A w \in VS \ {v} : store.vs[w] = NONE

MCChange ==
    \/ \E v \in VS : Alone(v)
        /\ ((\E spec \in Setting.services : ApplyVirtualService(v, spec))
            \/ DeleteVirtualService(v))
    \/ \E b \in Setting.listeners : ApplyListener(b[1], b[2]) \/ DeleteListener(b[1])
    \/ \E c \in Setting.clusters :
        (\E content \in Setting.contents : ApplyCluster(c, content)) \/ DeleteCluster(c)
    \/ /\ part = "tls"
       /\ \/ ApplyVirtualServiceTemplate(t1, l1) \/ DeleteVirtualServiceTemplate(t1)
          \/ \E s \in Secret : ApplySecret(s, x) \/ DeleteSecret(s)
          \/ ApplyPart(p1, x) \/ DeletePart(p1)

MCNext ==
    /\ UNCHANGED part
    /\ \/ outcome # "none" /\ MCChange
       \/ RebuildSnapshots
       \/ \E n \in Node : CommitNode(n) \/ CleanNode(n)
       \/ FinishRebuild
       \/ Shutdown

MCSpec == MCInit /\ [][MCNext]_<<part, vars>>

(* VirtualServices are interchangeable: the specs name none of them.       *)
Symmetry == Permutations(VS)

=============================================================================
