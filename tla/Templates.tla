------------------------------ MODULE Templates ------------------------------
(***************************************************************************)
(* VirtualServiceTemplates: the admission checks on a template, how a      *)
(* VirtualService is filled from it (merging JSON documents, rendering     *)
(* extra fields, decoding the result back into the VirtualService), and    *)
(* the FillTemplate call of the management API, which previews the result. *)
(*                                                                         *)
(* A JSON value is tagged with its kind; a spec is the function from the   *)
(* fields it sets to their values.  An object of the store is known by its *)
(* uid: its key in the store's map never changes, but the Namespace field  *)
(* of the object itself is memory that FillTemplate takes the address of.  *)
(***************************************************************************)
EXTENDS Naturals, Sequences, FiniteSets, TLC, Absent

CONSTANTS
    ObjUid,        \* uids of listeners, access log configs, routes, filters
    ObjKey,        \* ObjUid -> [kind, name, namespace]
    TemplateSpecs, \* the templates that may be applied: [spec, defs]
    OwnSpecs,      \* the VirtualServices that may be applied: [spec, options, fields]
    Requests,      \* the requests to FillTemplate and CreateVirtualService
    TemplateNs,    \* the template's namespace
    Tracings,      \* names of the Tracings in the template's namespace
    Mark,          \* extra field -> the placeholder that stands for it
    Breaking,      \* extra field values that end the JSON string they land in
    EMPTY,         \* the empty string, as an extra field value or a uid
    NOVALUE        \* what text/template prints for a missing key

VARIABLES
    objects,  \* ObjUid -> the Namespace field of the stored object, NONE if absent
    template, \* the stored template, NONE if absent
    vs        \* the stored VirtualService, NONE if absent

templatesVars == <<objects, template, vs>>

Val(x) == [kind |-> "val", of |-> x]
Obj(f) == [kind |-> "obj", of |-> f]
Arr(s) == [kind |-> "arr", of |-> s]

NoFields == [x \in {} |-> NONE]

Ref(name, ns) ==
    Obj(IF ns = NONE THEN "name" :> Val(name)
                     ELSE "name" :> Val(name) @@ "namespace" :> Val(ns))

HasNamespace(ref) == "namespace" \in DOMAIN ref.of

Without(f, keys) == [k \in DOMAIN f \ keys |-> f[k]]

Images(s) == {s[i] : i \in DOMAIN s}

ListField == {"accessLogConfigs", "additionalRoutes", "additionalHttpFilters"}

RefField == {"listener", "accessLogConfig", "tracingRef"}

(* Fields whose bytes are taken as they are when the spec is decoded.      *)
RawField == {"virtualHost", "tracing"}

-----------------------------------------------------------------------------
(* The package merge.  An option is [path, op]; a path is a sequence of    *)
(* keys.                                                                   *)

OptPaths(opts, op) == {o.path : o \in {p \in opts : p.op = op}}

(* Faulty variant: duplicates of the template's items are appended too.    *)
MergeArraysAll(a, b, opts, path) ==
    IF path \in OptPaths(opts, "replace") THEN b ELSE a \o b

MergeArrays(a, b, opts, path) ==
    IF path \in OptPaths(opts, "replace")
    THEN b
    ELSE a \o SelectSeq(b, LAMBDA item : item \notin Images(a))

RECURSIVE DeleteRecursive(_, _)
DeleteRecursive(m, keys) ==
    IF keys = <<>> THEN m
    ELSE IF Len(keys) = 1 THEN Without(m, {keys[1]})
    ELSE IF keys[1] \in DOMAIN m /\ m[keys[1]].kind = "obj"
    THEN [m EXCEPT ![keys[1]] = Obj(DeleteRecursive(@.of, Tail(keys)))]
    ELSE m

RECURSIVE DeleteKeys(_, _)
DeleteKeys(m, paths) ==
    IF paths = {} THEN m
    ELSE LET p == CHOOSE q \in paths : TRUE
         IN  DeleteKeys(DeleteRecursive(m, p), paths \ {p})

(* Every nested call deletes the option paths again, from its own root.    *)
RECURSIVE MergeMaps(_, _, _, _)
MergeMaps(a, b, opts, path) ==
    LET Merged(k) ==
            LET old == a[k]
                new == b[k]
                at  == Append(path, k)
            IN  CASE new.kind = "obj" /\ old.kind = "obj" ->
                       IF at \in OptPaths(opts, "replace") THEN new
                       ELSE Obj(MergeMaps(old.of, new.of, opts, at))
                  [] new.kind = "arr" /\ old.kind = "arr" ->
                       Arr(MergeArrays(old.of, new.of, opts, at))
                  [] OTHER -> new
    IN  DeleteKeys([k \in DOMAIN a \cup DOMAIN b |->
                       IF k \notin DOMAIN b THEN a[k]
                       ELSE IF k \notin DOMAIN a THEN b[k]
                       ELSE Merged(k)],
                   OptPaths(opts, "delete"))

-----------------------------------------------------------------------------
(* Filling a VirtualService from a template.                               *)

(* VirtualServiceTemplate.NormalizeSpec *)
NormalizeSpec(spec) ==
    LET WithNs(ref) == IF HasNamespace(ref) THEN ref
                       ELSE Ref(ref.of["name"].of, TemplateNs)
    IN  [k \in DOMAIN spec |->
            CASE k \in RefField  -> WithNs(spec[k])
              [] k \in ListField -> Arr([i \in 1..Len(spec[k].of) |-> WithNs(spec[k].of[i])])
              [] OTHER           -> spec[k]]

ValidExtraFields(defs, fields) ==
    defs # {} =>
      /\ \A d \in defs :
            /\ d.required => d.name \in DOMAIN fields /\ fields[d.name] # EMPTY
            /\ d.type = "enum" /\ d.name \in DOMAIN fields => fields[d.name] \in d.enum
      /\ DOMAIN fields \subseteq {d.name : d \in defs}

ValidOptions(opts) ==
    \A o \in opts : o.path # <<>> /\ o.op \in {"merge", "replace", "delete"}

RECURSIVE Rendered(_, _)
Rendered(v, fields) ==
    CASE v.kind = "obj" -> Obj([k \in DOMAIN v.of |-> Rendered(v.of[k], fields)])
      [] v.kind = "arr" -> Arr([i \in 1..Len(v.of) |-> Rendered(v.of[i], fields)])
      [] OTHER ->
           IF \E f \in DOMAIN Mark : Mark[f] = v.of
           THEN LET f == CHOOSE g \in DOMAIN Mark : Mark[g] = v.of
                IN  Val(IF f \in DOMAIN fields THEN fields[f] ELSE NOVALUE)
           ELSE v

(* The leaves of a value; the marks among them are the fields it uses.     *)
RECURSIVE Leaves(_)
Leaves(v) ==
    CASE v.kind = "obj" -> UNION {Leaves(v.of[k]) : k \in DOMAIN v.of}
      [] v.kind = "arr" -> UNION {Leaves(v.of[i]) : i \in DOMAIN v.of}
      [] OTHER          -> {v.of}

UsedFields(spec) == {f \in DOMAIN Mark : Mark[f] \in Leaves(Obj(spec))}

(* The template as a JSON document.  With no value given it is not rendered *)
(* at all; one that a value has made unparsable counts as empty.           *)
BaseData(t, fields) ==
    LET spec == NormalizeSpec(t.spec)
    IN  IF DOMAIN fields = {} \/ t.defs = {} THEN spec
        ELSE IF \E f \in UsedFields(spec) : f \in DOMAIN fields /\ fields[f] \in Breaking
        THEN NoFields
        ELSE Rendered(Obj(spec), fields).of

(* json.Unmarshal into the VirtualService's own spec: what the document    *)
(* does not mention keeps its value, and a list element is decoded into    *)
(* the element that the list already has at that index.                    *)
RECURSIVE Decoded(_, _)
Decoded(old, new) ==
    CASE new.kind = "obj" ->
           Obj([k \in DOMAIN old.of \cup DOMAIN new.of |->
                  IF k \notin DOMAIN new.of THEN old.of[k]
                  ELSE IF k \notin DOMAIN old.of \/ k \in RawField THEN new.of[k]
                  ELSE Decoded(old.of[k], new.of[k])])
      [] new.kind = "arr" ->
           Arr([i \in 1..Len(new.of) |->
                  IF i <= Len(old.of) THEN Decoded(old.of[i], new.of[i]) ELSE new.of[i]])
      [] OTHER -> new

Fillable(v, t) == ValidExtraFields(t.defs, v.fields) /\ ValidOptions(v.options)

MergedSpec(v, t) == MergeMaps(BaseData(t, v.fields), v.spec, v.options, <<>>)

FillFromTemplate(v, t) == Decoded(Obj(v.spec), Obj(MergedSpec(v, t))).of

(* Faulty variant: the options do not reach FillFromTemplate.              *)
FilledCopyMerged(v, t) == FillFromTemplate([v EXCEPT !.options = {}], t)

(* applyVirtualServiceTemplate fills a deep copy of the VirtualService.    *)
FilledCopy(v, t) == FillFromTemplate(v, t)

-----------------------------------------------------------------------------
(* Admission of a template.                                                *)

ValidateExtraFieldsUsage(t) ==
    /\ \A d \in t.defs :
          /\ d.name # EMPTY
          /\ d.type \in {"string", "enum"}
          /\ d.type = "enum" => d.enum # {}
    /\ {d.name : d \in t.defs} \subseteq UsedFields(t.spec)

(* A Tracing in another namespace than the template's does not exist here. *)
ValidateTemplateTracing(t) ==
    LET set == DOMAIN t.spec
    IN  /\ ~({"tracing", "tracingRef"} \subseteq set)
        /\ "tracingRef" \in set =>
              LET ref == t.spec["tracingRef"]
              IN  /\ ref.of["name"].of \in Tracings
                  /\ HasNamespace(ref) => ref.of["namespace"].of = TemplateNs

(* ValidateCreate; ValidateUpdate also builds the VirtualServices that use *)
(* the template, which needs their filling to succeed.                     *)
AdmitsTemplate(t) ==
    /\ ValidateExtraFieldsUsage(t)
    /\ ValidateTemplateTracing(t)
    /\ template # NONE /\ vs # NONE => Fillable(vs, t)

-----------------------------------------------------------------------------
(* The management API.  A request is a record                              *)
(*   [allowed, listener, alcs, routes, filters, host, remote, tls,         *)
(*    options, fields]                                                     *)
(* that names stored objects by uid.                                       *)

ObjRef(u) == Ref(ObjKey[u].name, objects[u])

ValidateTemplateAccess(r) == template # NONE /\ r.allowed

ListenerFound(r) == r.listener # EMPTY => objects[r.listener] # NONE

SetupListenerRef(r) ==
    IF r.listener = EMPTY THEN NoFields ELSE "listener" :> ObjRef(r.listener)

SetupVirtualHost(r) ==
    IF r.host = NONE THEN NoFields
    ELSE "virtualHost" :> Obj("domains" :> Arr(<<Val(r.host)>>))

(* Uids of access log configs that are empty are skipped.                  *)
AlcUids(r) == SelectSeq(r.alcs, LAMBDA u : u # EMPTY)

RefList(field, uids) ==
    IF uids = <<>> THEN NoFields
    ELSE field :> Arr([i \in 1..Len(uids) |-> ObjRef(uids[i])])

AllFound(uids) == \A i \in DOMAIN uids : uids[i] # EMPTY /\ objects[uids[i]] # NONE

SetupAccessLogConfigs(r) == RefList("accessLogConfigs", AlcUids(r))

SetupAdditionalRoutes(r) == RefList("additionalRoutes", r.routes)

SetupAdditionalHttpFilters(r) == RefList("additionalHttpFilters", r.filters)

SetupUseRemoteAddress(r) ==
    IF r.remote = NONE THEN NoFields ELSE "useRemoteAddress" :> Val(r.remote)

(* The secret of a TLS configuration is named without a namespace.         *)
SetupTlsConfig(r) ==
    IF r.tls = NONE THEN NoFields
    ELSE "tlsConfig" :> Obj("secretRef" :> Ref(r.tls, NONE))

SetupTemplateOptions(r) == r.options

SetupExtraFields(r) == r.fields

(* The VirtualService that FillTemplate sets up from the request.          *)
RequestedVS(r) ==
    [spec    |-> SetupListenerRef(r) @@ SetupVirtualHost(r) @@ SetupAccessLogConfigs(r)
                   @@ SetupAdditionalRoutes(r) @@ SetupAdditionalHttpFilters(r)
                   @@ SetupUseRemoteAddress(r) @@ SetupTlsConfig(r),
     options |-> SetupTemplateOptions(r),
     fields  |-> SetupExtraFields(r)]

CanFill(r) ==
    /\ ValidateTemplateAccess(r)
    /\ ListenerFound(r) /\ AllFound(AlcUids(r)) /\ AllFound(r.routes) /\ AllFound(r.filters)
    /\ Fillable(RequestedVS(r), template)

UidsOf(r) ==
    "accessLogConfigs" :> AlcUids(r) @@ "additionalRoutes" :> r.routes
      @@ "additionalHttpFilters" :> r.filters

(* The references set up from a request hold the address of the Namespace  *)
(* of the stored object, and the decoder writes through it: the object at  *)
(* index i of a request's list takes the namespace of item i of the merged *)
(* list.  An object listed twice keeps the last namespace written.         *)
DecodedNamespaces(r) ==
    LET merged == MergedSpec(RequestedVS(r), template)
        uids   == UidsOf(r)
        Written(u) == {p \in UNION {{k} \X DOMAIN uids[k] : k \in ListField} :
                         /\ uids[p[1]][p[2]] = u
                         /\ p[1] \in DOMAIN merged /\ p[2] \in DOMAIN merged[p[1]].of
                         /\ HasNamespace(merged[p[1]].of[p[2]])}
        Last(u) == CHOOSE p \in Written(u) : \A q \in Written(u) : q[2] <= p[2]
    IN  [u \in ObjUid |->
            IF Written(u) = {} THEN objects[u]
            ELSE merged[Last(u)[1]].of[Last(u)[2]].of["namespace"].of]

(* The filled spec, whose first items still share those addresses.         *)
Preview(r) ==
    LET filled == FillFromTemplate(RequestedVS(r), template)
        Item(k, i) == IF i \in DOMAIN UidsOf(r)[k]
                      THEN Ref(filled[k].of[i].of["name"].of,
                               DecodedNamespaces(r)[UidsOf(r)[k][i]])
                      ELSE filled[k].of[i]
    IN  [k \in DOMAIN filled |->
            IF k \in ListField THEN Arr([i \in 1..Len(filled[k].of) |-> Item(k, i)])
            ELSE filled[k]]

(* Is there an object of this kind under the reference's key?              *)
Exists(kind, ref) ==
    \E u \in ObjUid :
        /\ objects[u] # NONE
        /\ ObjKey[u] = [kind |-> kind, name |-> ref.of["name"].of,
                        namespace |-> ref.of["namespace"].of]

ExpandsRef(spec, field, kind) ==
    field \in DOMAIN spec => HasNamespace(spec[field]) /\ Exists(kind, spec[field])

ExpandsRefs(spec, field, kind) ==
    field \in DOMAIN spec =>
        \A i \in DOMAIN spec[field].of :
            HasNamespace(spec[field].of[i]) /\ Exists(kind, spec[field].of[i])

ExpandListenerReference(spec) == ExpandsRef(spec, "listener", "listener")
ExpandAccessLogConfigReference(spec) == ExpandsRef(spec, "accessLogConfig", "alc")
ExpandAccessLogConfigsReferences(spec) == ExpandsRefs(spec, "accessLogConfigs", "alc")
ExpandAdditionalRoutesReferences(spec) == ExpandsRefs(spec, "additionalRoutes", "route")
ExpandAdditionalHttpFiltersReferences(spec) == ExpandsRefs(spec, "additionalHttpFilters", "filter")

(* Does FillTemplate answer with the references expanded, or with an error? *)
ExpandReferences(spec) ==
    /\ ExpandListenerReference(spec)
    /\ ExpandAccessLogConfigReference(spec)
    /\ ExpandAccessLogConfigsReferences(spec)
    /\ ExpandAdditionalRoutesReferences(spec)
    /\ ExpandAdditionalHttpFiltersReferences(spec)

-----------------------------------------------------------------------------
TemplatesInit ==
    /\ objects = [u \in ObjUid |-> ObjKey[u].namespace]
    /\ template = NONE
    /\ vs = NONE

(* A template is admitted, and the controller stores it normalised.        *)
ApplyVirtualServiceTemplate(t) ==
    /\ AdmitsTemplate(t)
    /\ template' = [t EXCEPT !.spec = NormalizeSpec(@)]
    /\ UNCHANGED <<objects, vs>>

(* A VirtualService is applied with kubectl.                               *)
ApplyOwn(v) ==
    /\ template # NONE /\ Fillable(v, template)
    /\ vs' = v
    /\ UNCHANGED <<objects, template>>

(* CreateVirtualService refuses an empty uid that FillTemplate would skip, *)
(* takes no TLS configuration, and stores what it builds.                  *)
CreatedVS(r) == [RequestedVS(r) EXCEPT !.spec = Without(@, {"tlsConfig"})]

CanCreate(r) ==
    /\ ValidateTemplateAccess(r)
    /\ ListenerFound(r) /\ AllFound(r.alcs) /\ AllFound(r.routes) /\ AllFound(r.filters)
    /\ Fillable(CreatedVS(r), template)

CreateVirtualService(r) ==
    /\ CanCreate(r)
    /\ vs' = CreatedVS(r)
    /\ UNCHANGED <<objects, template>>

FillTemplate(r) ==
    /\ CanFill(r)
    /\ objects' = DecodedNamespaces(r)
    /\ UNCHANGED <<template, vs>>

(* A change of the object's spec stores a new object.                      *)
SetObject(u) ==
    /\ objects' = [objects EXCEPT ![u] = ObjKey[u].namespace]
    /\ UNCHANGED <<template, vs>>

DeleteObject(u) ==
    /\ objects[u] # NONE
    /\ objects' = [objects EXCEPT ![u] = NONE]
    /\ UNCHANGED <<template, vs>>

TemplatesNext ==
    \/ \E t \in TemplateSpecs : ApplyVirtualServiceTemplate(t)
    \/ \E v \in OwnSpecs : ApplyOwn(v)
    \/ \E r \in Requests : CreateVirtualService(r) \/ FillTemplate(r)
    \/ \E u \in ObjUid : SetObject(u) \/ DeleteObject(u)

TemplatesSpec == TemplatesInit /\ [][TemplatesNext]_templatesVars

-----------------------------------------------------------------------------
(* The VirtualServices that may be filled from the stored template now.    *)
Candidates ==
    IF template = NONE THEN {}
    ELSE {v \in OwnSpecs : Fillable(v, template)}
           \cup {RequestedVS(r) : r \in {q \in Requests : CanFill(q)}}

(* What a spec says at a path, NONE when nothing.                          *)
RECURSIVE At(_, _)
At(spec, path) ==
    IF path[1] \notin DOMAIN spec THEN NONE
    ELSE IF Len(path) = 1 THEN spec[path[1]]
    ELSE IF spec[path[1]].kind # "obj" THEN NONE
    ELSE At(spec[path[1]].of, Tail(path))

(* The paths of a spec's lists and single values.                          *)
RECURSIVE Paths(_)
Paths(spec) ==
    UNION {IF spec[k].kind = "obj"
           THEN {<<k>> \o p : p \in Paths(spec[k].of)}
           ELSE {<<k>>} : k \in DOMAIN spec}

PathPrefixes(path) == {SubSeq(path, 1, i) : i \in 1..Len(path)}

(* What the merge is documented to give at a path: nothing where an option *)
(* deletes it; only what the VirtualService sets where an option replaces  *)
(* the value; both lists, without the repetitions, or the VirtualService's *)
(* value before the template's, everywhere else.                           *)
Meant(v, base, path) ==
    LET own == At(v.spec, path)
        tpl == At(base, path)
    IN  IF PathPrefixes(path) \cap OptPaths(v.options, "delete") # {} THEN NONE
        ELSE IF \E p \in PathPrefixes(path) \cap OptPaths(v.options, "replace") :
                   At(v.spec, p) # NONE
        THEN own
        ELSE IF own = NONE THEN tpl
        ELSE IF tpl = NONE \/ own.kind # "arr" THEN own
        ELSE Arr(tpl.of \o SelectSeq(own.of, LAMBDA x : x \notin Images(tpl.of)))

(* The merge of a template and a VirtualService, computed by recursion     *)
(* over both documents, says at every path what the documentation promises *)
(* for the options given.                                                  *)
MergedAsMeant ==
    \A v \in Candidates :
        LET base == BaseData(template, v.fields)
        IN  \A path \in Paths(base) \cup Paths(v.spec) :
                At(MergedSpec(v, template), path) = Meant(v, base, path)

NoRepeats(s) == \A i, j \in DOMAIN s : s[i] = s[j] => i = j

(* What FillTemplate shows for a request is what the builder fills in for  *)
(* the VirtualService that CreateVirtualService makes of the same request, *)
(* whatever happened to the objects that both refer to.  (A request that   *)
(* lists an object twice makes two items of the preview share one address, *)
(* and is left out.)                                                       *)
PreviewIsBuilt ==
    template # NONE =>
      \A r \in {q \in Requests : NoRepeats(q.alcs) /\ NoRepeats(q.routes)
                                  /\ NoRepeats(q.filters)} :
        CanFill(r) /\ CanCreate(r) =>
          Without(FilledCopy(CreatedVS(r), template), {"tlsConfig"})
            = Without(Preview([r EXCEPT !.tls = NONE]), {"tlsConfig"})

(* The stored template has a namespace in every reference, so that the     *)
(* NormalizeSpec at the head of FillFromTemplate, which runs without a     *)
(* lock, writes nothing to the shared object; and no reference of a        *)
(* preview lacks the namespace that expandReferences insists on.           *)
SharedTemplateSettled ==
    template # NONE =>
      /\ NormalizeSpec(template.spec) = template.spec
      /\ \A r \in Requests :
           CanFill(r) =>
             LET spec == Preview(r)
             IN  /\ \A k \in DOMAIN spec \cap RefField : HasNamespace(spec[k])
                 /\ \A k \in DOMAIN spec \cap ListField :
                       \A i \in DOMAIN spec[k].of : HasNamespace(spec[k].of[i])

(* Every extra field value that the stored VirtualService gives for a      *)
(* field its template defines reaches the document that is merged: the     *)
(* admission of the template, its update and the filling agree on which    *)
(* fields there are.                                                       *)
FieldsReachBase ==
    template # NONE /\ vs # NONE /\ template.defs # {} =>
      \A f \in DOMAIN vs.fields :
        vs.fields[f] \notin Breaking =>
          \/ vs.fields[f] \in Leaves(Obj(BaseData(template, vs.fields)))
          \/ \E g \in DOMAIN vs.fields : vs.fields[g] \in Breaking

(* A template, its users and its previews fit together.                    *)
TemplateFits == PreviewIsBuilt /\ SharedTemplateSettled /\ FieldsReachBase

=============================================================================
