------------------------------ MODULE Queries ------------------------------
(***************************************************************************)
(* The read side of the gRPC API: who may see what (auth_middleware.go,    *)
(* permissions.go, accessgroup.go) and the List and Get handlers.  A       *)
(* request authorises the items of its answer one by one, each time with   *)
(* the enforcer as it then is, and reads the store and the static          *)
(* resources at different moments: policies are reloaded (ConfigReload)    *)
(* and objects come and go while it runs.                                  *)
(*                                                                         *)
(* An object is a record of its kind, its name and its access group        *)
(* (GetAccessGroup: the label, "general" without one); a virtual service   *)
(* also has the set of objects it refers to.  The actions of the policy    *)
(* are named after the kinds they list.                                    *)
(***************************************************************************)
EXTENDS ConfigReload

CONSTANTS Objects,     \* the objects of the store, over time
          Callers,     \* sets of subjects: a caller's name and groups
          Requests,    \* what may be asked: records of a kind and a group
          MaxChanges   \* bound on changes of the store

(* Nodes, access groups and permissions are no objects of the store, and
   "get" is no kind. *)
ASSUME ObjectKinds ==
    \A o \in Objects : o.kind \notin {"nodes", "groups", "permissions", "get"}

VARIABLES store,    \* the objects in the store
          changes,  \* changes of the store so far
          req       \* the request being served

queriesVars == <<file, dir, events, files, wpc, event, todo, data, cfg, policy, auth,
          boot, missed, writes, store, changes, req>>

General == "general"

(* Kinds listed by access group, and the ones listed for any group. *)
Grouped == {"listeners", "routes", "httpfilters", "accesslogs"}

-----------------------------------------------------------------------------
(* casbin with the model of the chart: a request is granted by a rule whose *)
(* subject the caller is or has as a role in the domain, and whose domain   *)
(* and object patterns match.                                              *)

Glob(v, pattern) == pattern = "*" \/ v = pattern

(* The roles of s in domain d, through other roles as well. *)
RolesFrom(p, known, d) ==
    LET links == {l \in p.links : l.dom = d}
        all == known \cup {l.role : l \in links}
        closed == {S \in SUBSET all : /\ known \subseteq S
                                       /\ \A l \in links : l.user \in S => l.role \in S}
    IN  {r \in all : \A S \in closed : r \in S}

Enforce(p, s, d, o, act) ==
    \/ s = "superuser"
    \/ \E r \in p.rules : /\ r.sub \in RolesFrom(p, {s}, d)
                          /\ Glob(d, r.dom) /\ Glob(o, r.obj) /\ r.act = act

GetDomainsForUser(p, s) == {l.dom : l \in {k \in p.links : k.user = s}}

-----------------------------------------------------------------------------
(* The authorizer of a request.                                            *)

(* Listing clusters, and any procedure without an action, is refused to
   authenticated callers. *)
LookupAction(kind) == IF kind = "clusters" THEN "" ELSE kind

(* The first subject the enforcer accepts decides. *)
Authorized(p, subs, d, o, act) == \E s \in subs : Enforce(p, s, d, o, act)

(* Without authentication every call has the stub authorizer. *)
Authorize(d, o) ==
    auth => Authorized(policy, req.subs, d, o, LookupAction(req.kind))

(* A subject whose only domain is "*" has them all. *)
AvailableAccessGroups(p, subs) ==
    IF \E s \in subs : GetDomainsForUser(p, s) = {"*"}
    THEN {"*"}
    ELSE UNION {GetDomainsForUser(p, s) : s \in subs}

GroupsOf(list) == {list[i] : i \in 1 .. Len(list)}

(* The groups of the configuration, and "general", the caller belongs to. *)
GetAvailableAccessGroups(p, subs, groups) ==
    LET available == IF auth THEN AvailableAccessGroups(p, subs) ELSE {"*"}
    IN  {g \in GroupsOf(groups) \cup {General} : available = {"*"} \/ g \in available}

(* Faulty variant: the roles are taken in every domain. *)
PermissionsAnyDomain(p, s, d) ==
    {[group |-> d, act |-> r.act, obj |-> r.obj] :
        r \in {q \in p.rules : /\ q.dom \in {"*", d}
                               /\ \E e \in {l.dom : l \in p.links} :
                                     q.sub \in RolesFrom(p, {s}, e)}}

(* The rules of the subject and of its roles in the domain. *)
GetPermissionsForUserInDomain(p, s, d) ==
    {[group |-> d, act |-> r.act, obj |-> r.obj] :
        r \in {q \in p.rules : q.dom \in {"*", d} /\ q.sub \in RolesFrom(p, {s}, d)}}

-----------------------------------------------------------------------------
(* A request: the kind and the group asked for, the subjects of the        *)
(* caller, where it is, the items still to be authorised, the answer, and, *)
(* for the properties, the policies in force and the objects that were in  *)
(* the store all the time since it began.                                  *)

NoRequest == [pc |-> "none", kind |-> "", group |-> "", subs |-> {}, items |-> {},
              answer |-> {}, seen |-> {}, kept |-> {}]

Busy == req.pc \notin {"none", "done", "error", "panic"}

(* What the steps of others leave of the history of a request. *)
Witnessed(r, p, s) == [r EXCEPT !.seen = @ \cup {p}, !.kept = @ \cap s]

(* authFunc and the routes: a procedure without an action is refused, and
   the permissions are served only with authentication. *)
Available(kind) == IF auth THEN LookupAction(kind) # "" ELSE kind # "permissions"

Receive(kind, group, subs) ==
    /\ boot = "up" /\ req = NoRequest
    /\ Available(kind)
    /\ req' = [NoRequest EXCEPT !.pc = "read", !.kind = kind, !.group = group, !.subs = subs,
                                !.seen = {policy}, !.kept = store]
    /\ UNCHANGED <<store, changes>> /\ UNCHANGED configVars

Refuse(kind, subs) ==
    /\ boot = "up" /\ req = NoRequest
    /\ ~Available(kind)
    /\ req' = [NoRequest EXCEPT !.pc = "error", !.kind = kind, !.subs = subs]
    /\ UNCHANGED <<store, changes>> /\ UNCHANGED configVars

Respond(r) ==
    /\ req' = r
    /\ UNCHANGED <<store, changes>> /\ UNCHANGED configVars

(* The domain an item is authorised in: its own access group for grouped
   objects and virtual services, the requested one for templates and nodes,
   "general" for policies. *)
DomainOf(item) ==
    CASE req.kind \in Grouped \cup {"virtualservices"} -> item.group
      [] req.kind = "policies" -> General
      [] OTHER -> IF req.group = "" THEN General ELSE req.group

(* Faulty variant: objects of the general group are left out. *)
ListedOwn(kind, group) ==
    {o \in store : o.kind = kind /\ (kind \in Grouped => o.group = group)}

(* Which objects of the store a list goes through (MapListeners and the
   like): the grouped ones of the requested group and of "general". *)
Listed(kind, group) ==
    {o \in store : o.kind = kind /\ (kind \in Grouped => o.group \in {group, General})}

(* The first read of a list handler; it goes on item by item. *)
ListObjects(kind, then) ==
    /\ req.pc = "read" /\ req.kind = kind
    /\ Respond([req EXCEPT !.pc = then, !.items = Listed(kind, req.group)])

ListListeners == ListObjects("listeners", "authorize")
ListRoutes == ListObjects("routes", "authorize")
ListHTTPFilters == ListObjects("httpfilters", "authorize")
ListAccessLogConfigs == ListObjects("accesslogs", "authorize")
ListVirtualServiceTemplates == ListObjects("templates", "authorize")
ListPolicies == ListObjects("policies", "authorize")
ListClusters == ListObjects("clusters", "authorize")

(* A list of virtual services requires a group. *)
ListVirtualServices ==
    ListObjects("virtualservices", IF req.group = "" THEN "error" ELSE "authorize")

(* The node identifiers in memory.  GetNodeIDs hands out the slice itself,
   which a reload overwrites: during the write the handler may meet the old
   identifiers, the new ones, or anything. *)
ListNodes ==
    /\ req.pc = "read" /\ req.kind = "nodes"
    /\ \E ids \in IF wpc = "nodes" THEN {cfg.nodes, Decoded(cfg, data, "nodes"), <<Torn>>}
                  ELSE {cfg.nodes} :
          Respond([req EXCEPT !.pc = "authorize",
                              !.items = {[kind |-> "nodes", name |-> ids[i], group |-> General] :
                                            i \in 1 .. Len(ids)}])

(* Whether an authorised item is put in the answer: a virtual service of
   the requested group, unless the template it refers to is missing. *)
TemplatesOf(item) == {t \in item.refs : t.kind = "templates"}

Shown(item) ==
    req.kind = "virtualservices" =>
        item.group = req.group /\ TemplatesOf(item) \subseteq store

(* One item is authorised and added.  Clusters are added unasked.  An
   enforcer without a model fails the request. *)
AuthorizeItem(item) ==
    /\ req.pc = "authorize" /\ item \in req.items
    /\ IF auth /\ policy = NoModel
       THEN Respond([req EXCEPT !.pc = "error", !.items = {}, !.answer = {}])
       ELSE Respond([req EXCEPT !.items = @ \ {item},
                                !.answer = IF (req.kind = "clusters" \/ Authorize(DomainOf(item), item.name))
                                              /\ Shown(item)
                                           THEN @ \cup {item} ELSE @])

Answer ==
    /\ req.pc = "authorize" /\ req.items = {}
    /\ Respond([req EXCEPT !.pc = "done"])

(* ListAccessGroups, and the first half of ListPermissions. *)
ListAccessGroups ==
    /\ req.pc = "read" /\ req.kind \in {"groups", "permissions"}
    /\ \E groups \in IF wpc = "groups" THEN {cfg.groups, Decoded(cfg, data, "groups"), <<Torn>>}
                     ELSE {cfg.groups} :
          LET available == IF auth /\ policy = NoModel THEN {}
                           ELSE GetAvailableAccessGroups(policy, req.subs, groups)
          IN  IF req.kind = "groups"
              THEN Respond([req EXCEPT !.pc = "done",
                                       !.answer = {[kind |-> "groups", name |-> g, group |-> g] : g \in available}])
              ELSE Respond([req EXCEPT !.pc = "permissions", !.items = available])

(* The permissions of one access group. *)
ListPermissions(group) ==
    /\ req.pc = "permissions" /\ group \in req.items
    /\ Respond([req EXCEPT !.items = @ \ {group},
                           !.answer = @ \cup
                              (IF policy = NoModel THEN {}
                               ELSE UNION {GetPermissionsForUserInDomain(policy, s, group) : s \in req.subs})])

AnswerPermissions ==
    /\ req.pc = "permissions" /\ req.items = {}
    /\ Respond([req EXCEPT !.pc = "done"])

(* GetVirtualService: the virtual service, then each object it refers to,
   every one a separate read of the store.  A missing one is dereferenced. *)
GetVirtualService(v) ==
    /\ req.pc = "read" /\ req.kind = "get"
    /\ v.kind = "virtualservices"
    /\ IF v \in store
       THEN Respond([req EXCEPT !.pc = "refs", !.items = v.refs, !.answer = {v}])
       ELSE Respond([req EXCEPT !.pc = "error"])

GetReference(o) ==
    /\ req.pc = "refs" /\ o \in req.items
    /\ IF o \in store
       THEN Respond([req EXCEPT !.items = @ \ {o}, !.answer = @ \cup {o}])
       ELSE Respond([req EXCEPT !.pc = "panic", !.items = {}])

AnswerGet ==
    /\ req.pc = "refs" /\ req.items = {}
    /\ Respond([req EXCEPT !.pc = "done"])

Serve ==
    \/ ListListeners \/ ListRoutes \/ ListHTTPFilters \/ ListAccessLogConfigs
    \/ ListVirtualServiceTemplates \/ ListPolicies \/ ListClusters \/ ListVirtualServices
    \/ ListNodes \/ Answer \/ ListAccessGroups \/ AnswerPermissions \/ AnswerGet
    \/ \E item \in req.items : AuthorizeItem(item) \/ ListPermissions(item) \/ GetReference(item)
    \/ \E v \in Objects : GetVirtualService(v)

(* The next request, when this one is over. *)
Finish ==
    /\ req.pc \in {"done", "error", "panic"}
    /\ Respond(NoRequest)

(* A reconciler sets or deletes an object of the store. *)
StoreChanges ==
    /\ changes < MaxChanges
    /\ changes' = changes + 1
    /\ \E o \in Objects : store' = IF o \in store THEN store \ {o} ELSE store \cup {o}
    /\ req' = IF Busy THEN Witnessed(req, policy, store') ELSE req
    /\ UNCHANGED configVars

Reconfigure ==
    /\ ConfigNext
    /\ req' = IF Busy THEN Witnessed(req, policy', store) ELSE req
    /\ UNCHANGED <<store, changes>>

QueriesInit ==
    /\ ConfigInit
    /\ store = Objects
    /\ changes = 0
    /\ req = NoRequest

Ask == \E r \in Requests, subs \in Callers :
          Receive(r.kind, r.group, subs) \/ Refuse(r.kind, subs)

QueriesNext == Ask \/ Serve \/ Finish \/ StoreChanges \/ Reconfigure

QueriesSpec == QueriesInit /\ [][QueriesNext]_queriesVars

-----------------------------------------------------------------------------
(* The policies in force while a request was served. *)
PoliciesSeen(seen) == seen \ {NoModel}

(* What an answer may hold under policy p. *)
GrantedBy(p, item) ==
    CASE req.kind = "permissions" ->
            \A o \in {x.name : x \in Objects} :
                Glob(o, item.obj) => Authorized(p, req.subs, item.group, o, item.act)
      [] req.kind = "groups" ->
            \E s \in req.subs : GetDomainsForUser(p, s) \cap {item.name, "*"} # {}
      [] OTHER -> Authorized(p, req.subs, DomainOf(item), item.name, LookupAction(req.kind))

(* Everything an answer holds, be it an object, a node, an access group or
   a permission, was granted to the caller by a policy that was in force
   while the request was served: a list and the permissions the user
   interface is built from never go beyond what Authorize allows, even when
   the policy is reloaded between two items (Authorize, ListPermissions). *)
AnswerGranted ==
    auth /\ req.kind # "get" => \A item \in req.answer : \E p \in PoliciesSeen(req.seen) : GrantedBy(p, item)

Wanted(o) ==
    /\ o.kind = req.kind
    /\ req.kind \in Grouped => o.group \in {req.group, General}
    /\ req.kind = "virtualservices" => o.group = req.group /\ TemplatesOf(o) \subseteq req.kept

Unhindered(o) == auth => NoModel \notin req.seen /\ \A p \in req.seen : GrantedBy(p, o)

(* A list leaves out nothing the caller may see: an object that was in the
   store all the time and granted by every policy in force is in the answer
   (the List handlers).  A Get that met all the objects the virtual service
   refers to names them all, and it ends in a panic only when one of them
   was missing (get.go). *)
AnswerComplete ==
    /\ req.pc = "done" => \A o \in req.kept : Wanted(o) /\ Unhindered(o) => o \in req.answer
    /\ req.pc = "panic" =>
          \E v \in req.answer : v.kind = "virtualservices" /\ ~(v.refs \subseteq req.kept)
=============================================================================
