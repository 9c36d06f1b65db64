------------------------ MODULE ManagementAPIProofs ------------------------
(***************************************************************************)
(* What an accepted request of the management API writes, for any number   *)
(* of clients, requests, VirtualServices and changes by others.            *)
(***************************************************************************)
EXTENDS ManagementAPI, FiniteSetTheorems, TLAPS

(* Steps are first-order reasoning unless they name another prover.        *)
USE Zenon

-----------------------------------------------------------------------------
(* Versions.                                                               *)

(* A finite set of numbers that is not empty has a greatest one: of the    *)
(* subsets without one, a smallest would have one.                         *)
LEMMA GreatestExists ==
    ASSUME NEW S \in SUBSET Nat, IsFiniteSet(S), S # {}
    PROVE  \E m \in S : \A n \in S : m >= n
<1> DEFINE HasMax(T) == \E m \in T : \A n \in T : m >= n
           Bad == {T \in SUBSET S : T # {} /\ ~HasMax(T)}
           R == StrictSubsetOrdering(S)
<1>1. SUFFICES ASSUME Bad # {} PROVE FALSE
  <2>1. S \notin Bad => HasMax(S)
    OBVIOUS
  <2> QED BY <2>1
<1>2. IsWellFoundedOn(R, FiniteSubsetsOf(S))
  BY FS_StrictSubsetOrderingWellFounded
<1>3. Bad \subseteq FiniteSubsetsOf(S)
  BY FS_Subset DEF FiniteSubsetsOf
<1>4. PICK T \in Bad : \A U \in Bad : ~(<<U, T>> \in R)
  <2> HIDE DEF Bad, R
  <2> QED BY <1>1, <1>2, <1>3, WFMin
<1>5. T \in SUBSET S /\ T # {} /\ ~HasMax(T)
  OBVIOUS
<1>6. PICK x : x \in T
  BY <1>5
<1> DEFINE U == T \ {x}
<1>7. <<U, T>> \in R
  BY <1>5, <1>6 DEF StrictSubsetOrdering
<1>8. U = {} \/ HasMax(U)
  BY <1>4, <1>5, <1>7
<1>9. \A n \in T : n \in Nat
  BY <1>5
<1>10. CASE U = {}
  <2>1. \A n \in T : n = x
    BY <1>10
  <2>2. x >= x
    BY <1>6, <1>9, SMT
  <2> QED BY <1>5, <1>6, <2>1, <2>2
<1>11. CASE HasMax(U)
  <2>1. PICK m \in U : \A n \in U : m >= n
    BY <1>11
  <2>2. CASE m >= x
    <3>1. \A n \in T : m >= n
      BY <2>1, <2>2
    <3> QED BY <1>5, <2>1, <3>1
  <2>3. CASE ~(m >= x)
    <3>1. \A n \in U : x >= n
      BY <1>6, <1>9, <2>1, <2>3, SMT
    <3>2. x >= x
      BY <1>6, <1>9, SMT
    <3>3. \A n \in T : x >= n
      BY <3>1, <3>2
    <3> QED BY <1>5, <1>6, <3>3
  <2> QED BY <2>2, <2>3
<1> QED BY <1>8, <1>10, <1>11

(* The next number is one that no member of the set has.                   *)
LEMMA MaxFresh ==
    ASSUME NEW S \in SUBSET Nat, IsFiniteSet(S)
    PROVE  1 + Max(S \cup {0}) \in Nat /\ 1 + Max(S \cup {0}) \notin S
<1> DEFINE T == S \cup {0}
<1>1. T \in SUBSET Nat /\ T # {} /\ IsFiniteSet(T)
  <2>1. IsFiniteSet(T)
    BY FS_AddElement
  <2> QED BY <2>1, SMT
<1>2. Max(T) \in T /\ \A n \in T : Max(T) >= n
  <2>1. \E m \in T : \A n \in T : m >= n
    <3> HIDE DEF T
    <3> QED BY <1>1, GreatestExists
  <2> HIDE DEF T
  <2> QED BY <2>1 DEF Max
<1>3. \A n \in S : Max(T) >= n
  BY <1>2
<1>4. Max(T) \in Nat
  BY <1>1, <1>2
<1> HIDE DEF T
<1>5. 1 + Max(T) \in Nat /\ 1 + Max(T) \notin S
  BY <1>3, <1>4, SMT
<1> QED BY <1>5 DEF T

-----------------------------------------------------------------------------
(* The heap.                                                               *)

IsSeq(h) == \E S : h \in Seq(S)

(* The indices of a sequence.                                              *)
LEMMA LengthFacts == ASSUME NEW h, IsSeq(h) PROVE Len(h) \in Nat /\ DOMAIN h = 1..Len(h)
<1>1. PICK S : h \in Seq(S)
  BY DEF IsSeq
<1> QED BY <1>1, SMT

(* h2 is h with x at i.                                                    *)
Put(h, h2, i, x) ==
    /\ IsSeq(h2) /\ Len(h2) = Len(h)
    /\ h2[i] = x
    /\ \A j \in 1..Len(h) : j # i => h2[j] = h[j]

(* h2 is h with x at its end.                                              *)
Pushed(h, h2, x) ==
    /\ IsSeq(h2) /\ Len(h2) = Len(h) + 1
    /\ h2[Len(h) + 1] = x
    /\ \A j \in 1..Len(h) : h2[j] = h[j]

(* Assigning to an object of the heap.                                     *)
LEMMA PutFacts ==
    ASSUME NEW h, IsSeq(h), NEW i \in 1..Len(h), NEW x
    PROVE  Put(h, [h EXCEPT ![i] = x], i, x)
<1>1. PICK T : h \in Seq(T) /\ x \in T
  <2>1. PICK S : h \in Seq(S)
    BY DEF IsSeq
  <2>2. h \in Seq(S \cup {x}) /\ x \in S \cup {x}
    BY <2>1, SMT
  <2> QED BY <2>2
<1> DEFINE h2 == [h EXCEPT ![i] = x]
<1>2. /\ h2 \in Seq(T) /\ Len(h2) = Len(h)
      /\ \A j \in 1..Len(h) : h2[j] = IF j = i THEN x ELSE h[j]
  BY <1>1, SMT
<1> HIDE DEF h2
<1>3. Put(h, h2, i, x)
  BY <1>2 DEF Put, IsSeq
<1> QED BY <1>3 DEF h2

(* A new object of the heap.                                               *)
LEMMA PushFacts ==
    ASSUME NEW h, IsSeq(h), NEW x
    PROVE  Pushed(h, Append(h, x), x)
<1>1. PICK T : h \in Seq(T) /\ x \in T
  <2>1. PICK S : h \in Seq(S)
    BY DEF IsSeq
  <2>2. h \in Seq(S \cup {x}) /\ x \in S \cup {x}
    BY <2>1, SMT
  <2> QED BY <2>2
<1> DEFINE h2 == Append(h, x)
<1>2. /\ h2 \in Seq(T) /\ Len(h2) = Len(h) + 1
      /\ \A j \in 1..Len(h) : h2[j] = h[j]
      /\ h2[Len(h) + 1] = x
  BY <1>1, SMT
<1> HIDE DEF h2
<1>3. Pushed(h, h2, x)
  BY <1>2 DEF Pushed, IsSeq
<1> QED BY <1>3 DEF h2

-----------------------------------------------------------------------------
(* The progress of a request.                                              *)

Steps == {"template", "listener", "virtualHost", "accessLogConfigs", "additionalRoutes",
          "additionalHttpFilters", "build", "commit"}

(* The fields that are settled when a request comes to a step.             *)
Done(pc) ==
    CASE pc = "template" -> {"nodes"}
      [] pc = "listener" -> {"nodes", "template", "options"}
      [] pc = "virtualHost" -> {"nodes", "template", "options", "listener"}
      [] pc = "accessLogConfigs" -> {"nodes", "template", "options", "listener", "virtualHost"}
      [] pc = "additionalRoutes" ->
            Fields \ {"additionalRoutes", "additionalHttpFilters", "useRemoteAddress"}
      [] pc = "additionalHttpFilters" -> Fields \ {"additionalHttpFilters", "useRemoteAddress"}
      [] pc = "build" -> Fields \ {"useRemoteAddress"}
      [] OTHER -> Fields

(* A spec on the way from the old one to the requested one.                *)
Half(old, body, pc) ==
    [f \in Fields |-> IF f \in Done(pc) THEN Requested(old, body)[f] ELSE old[f]]

IsSpec(s) == s = [f \in Fields |-> s[f]]

(* Whatever the request began with, the step takes it further.             *)
Advances(s, body, from, new, to) ==
    IsSpec(new) /\ \A old : s = Half(old, body, from) => new = Half(old, body, to)

Changed(s, new, g, x) == IsSpec(new) /\ \A f \in Fields : new[f] = IF f = g THEN x ELSE s[f]

Settled(new, old, body, pc) ==
    \A f \in Fields : new[f] = IF f \in Done(pc) THEN Requested(old, body)[f] ELSE old[f]

(* A spec with one field changed.                                          *)
LEMMA SpecExcept ==
    ASSUME NEW s, IsSpec(s), NEW g, NEW x
    PROVE  Changed(s, [s EXCEPT ![g] = x], g, x)
<1>1. DOMAIN s = Fields
  BY DEF IsSpec
<1> QED BY <1>1 DEF IsSpec, Changed

(* A half-way spec is settled field by field.                              *)
LEMMA HalfAt ==
    ASSUME NEW new, IsSpec(new), NEW old, NEW body, NEW pc, Settled(new, old, body, pc)
    PROVE  new = Half(old, body, pc)
BY DEF IsSpec, Half, Settled

(* One settled field more.                                                 *)
LEMMA AdvanceField ==
    ASSUME NEW s, IsSpec(s), NEW body, NEW from, NEW to, NEW g \in Fields, NEW x,
           Done(to) = Done(from) \cup {g}, g \notin Done(from),
           \A old : x = Requested(old, body)[g] \/ (x = s[g] /\ Requested(old, body)[g] = old[g])
    PROVE  Advances(s, body, from, [s EXCEPT ![g] = x], to)
<1> DEFINE new == [s EXCEPT ![g] = x]
<1>0. Changed(s, new, g, x)
  BY SpecExcept
<1> HIDE DEF new
<1>1. IsSpec(new) /\ \A f \in Fields : new[f] = IF f = g THEN x ELSE s[f]
  BY <1>0 DEF Changed
<1>2. ASSUME NEW old, s = Half(old, body, from)
      PROVE  new = Half(old, body, to)
  <2>1. \A f \in Fields : s[f] = IF f \in Done(from) THEN Requested(old, body)[f] ELSE old[f]
    BY <1>2 DEF Half
  <2>2. ASSUME NEW f \in Fields
        PROVE  new[f] = IF f \in Done(to) THEN Requested(old, body)[f] ELSE old[f]
    <3>1. CASE f = g
      BY <1>1, <2>1, <3>1
    <3>2. CASE f # g
      BY <1>1, <2>1, <3>2
    <3> QED BY <3>1, <3>2
  <2>3. Settled(new, old, body, to)
    BY <2>2 DEF Settled
  <2> QED BY <1>1, <2>3, HalfAt
<1>4. Advances(s, body, from, new, to)
  BY <1>1, <1>2 DEF Advances
<1> QED BY <1>4 DEF new

-----------------------------------------------------------------------------
(* The inductive invariant.                                                *)

IsObject(o) == o = Stamped(o.spec, o.editable, o.version) /\ IsSpec(o.spec) /\ o.version \in Nat

IsReq(r) == DOMAIN r = {"op", "name", "body", "pc", "ptr", "own"}

(* A request on its way knows what it works on, and a creation has done    *)
(* what it has come past.                                                  *)
Creating(r) ==
    /\ r.op = "create" /\ r.ptr = 0 /\ r.pc \in Steps
    /\ r.name \in Service /\ r.body.template # NONE
    /\ IsObject(r.own) /\ r.own.spec = Half(EmptySpec, r.body, r.pc)

Updating(r) ==
    /\ r.op = "update" /\ r.ptr \in 1..Len(heap) /\ r.pc \in Steps
    /\ r.name \in Service /\ r.body.template # NONE
    /\ heap[r.ptr].editable

Deleting(r) == r.op = "delete" /\ r.ptr = 0 /\ r.pc = "delete" /\ r.name \in Service

RequestOK(r) == IsReq(r) /\ (r = Idle \/ Creating(r) \/ Updating(r) \/ Deleting(r))

APITyped ==
    /\ IsSeq(heap) /\ \A i \in 1..Len(heap) : IsObject(heap[i])
    /\ DOMAIN api = Service /\ \A n \in Service : InKubernetes(n) => IsObject(api[n])
    /\ DOMAIN store = Service /\ \A n \in Service : store[n] = NoObject \/ store[n] \in 1..Len(heap)
    /\ DOMAIN req = Client /\ \A c \in Client : RequestOK(req[c])
    /\ mixed \subseteq 1..Len(heap)

(* An object of the heap is at the version that Kubernetes has for n.      *)
SameVersion(i, n) == InKubernetes(n) /\ heap[i].version = api[n].version

(* A version is of one VirtualService, nothing in the store has the one of *)
(* a change it lacks, and objects of one version are editable alike.       *)
VersionsUnique ==
    \A m, n \in Service : InKubernetes(m) /\ InKubernetes(n) /\ api[m].version = api[n].version => m = n
UnseenNewer == \A n \in Service, i \in 1..Len(heap) : SameVersion(i, n) => n \notin unseen
SameEditable ==
    \A n \in Service, i \in 1..Len(heap) : SameVersion(i, n) => heap[i].editable = api[n].editable
VersionsTell == VersionsUnique /\ UnseenNewer /\ SameEditable

(* An object that is not mixed has at most one request at work on it, is   *)
(* half-way from what Kubernetes has to what that request asks for, and is *)
(* what Kubernetes has when no request is at work.                         *)
OneEditor(i) == \A c, d \in Client : req[c].ptr = i /\ req[d].ptr = i => c = d
HalfWay(i) ==
    \A c \in Client, n \in Service :
        req[c].ptr = i /\ req[c].name = n /\ SameVersion(i, n) =>
            heap[i].spec = Half(api[n].spec, req[c].body, req[c].pc)
Untouched(i) ==
    (\A c \in Client : req[c].ptr # i) =>
        \A n \in Service : SameVersion(i, n) => heap[i].spec = api[n].spec
Follows(i) == OneEditor(i) /\ HalfWay(i) /\ Untouched(i)
SpecsFollow == \A i \in 1..Len(heap) : i \notin mixed => Follows(i)

APIInv == APITyped /\ VersionsTell /\ SpecsFollow

-----------------------------------------------------------------------------
(* Records.                                                                *)

(* o2 is o with another spec, or with another version.                     *)
Respecced(o, o2, s) == IsObject(o2) /\ o2.spec = s /\ o2.editable = o.editable /\ o2.version = o.version
Renumbered(o, o2, v) == IsObject(o2) /\ o2.spec = o.spec /\ o2.editable = o.editable /\ o2.version = v

(* An object with another spec.                                            *)
LEMMA RespeccedFacts ==
    ASSUME NEW o, IsObject(o), NEW s, IsSpec(s)
    PROVE  Respecced(o, [o EXCEPT !.spec = s], s)
<1>1. DOMAIN o = {"spec", "editable", "version"}
  BY SMT DEF IsObject, Stamped
<1>2. [o EXCEPT !.spec = s] = Stamped(s, o.editable, o.version)
  BY SMT DEF IsObject, Stamped
<1> DEFINE o2 == Stamped(s, o.editable, o.version)
<1>3. o2.spec = s /\ o2.editable = o.editable /\ o2.version = o.version
  BY DEF Stamped
<1> HIDE DEF o2
<1>4. IsObject(o2)
  BY <1>3 DEF IsObject, o2
<1> QED BY <1>2, <1>3, <1>4 DEF Respecced, o2

(* An object with another version.                                         *)
LEMMA RenumberedFacts ==
    ASSUME NEW o, IsObject(o), NEW v \in Nat
    PROVE  Renumbered(o, [o EXCEPT !.version = v], v)
<1>2. [o EXCEPT !.version = v] = Stamped(o.spec, o.editable, v)
  BY SMT DEF IsObject, Stamped
<1> DEFINE o2 == Stamped(o.spec, o.editable, v)
<1>3. o2.spec = o.spec /\ o2.editable = o.editable /\ o2.version = v
  BY DEF Stamped
<1> HIDE DEF o2
<1>4. IsObject(o2)
  BY <1>3 DEF IsObject, o2
<1> QED BY <1>2, <1>3, <1>4 DEF Renumbered, o2

(* A stamped spec is an object.                                            *)
LEMMA StampedFacts ==
    ASSUME NEW s, IsSpec(s), NEW e, NEW v \in Nat
    PROVE  IsObject(Stamped(s, e, v)) /\ Stamped(s, e, v).version = v /\ Stamped(s, e, v).spec = s
<1> DEFINE o2 == Stamped(s, e, v)
<1>3. o2.spec = s /\ o2.editable = e /\ o2.version = v
  BY DEF Stamped
<1> HIDE DEF o2
<1>4. IsObject(o2)
  BY <1>3 DEF IsObject, o2
<1> QED BY <1>3, <1>4 DEF o2

(* A request that has moved on.                                            *)
Moved(r, q, pc, own) ==
    /\ IsReq(q) /\ q.op = r.op /\ q.name = r.name /\ q.body = r.body /\ q.ptr = r.ptr
    /\ q.pc = pc /\ q.own = own

(* Moving on with and without an object of its own.                        *)
LEMMA MovedFacts ==
    ASSUME NEW r, IsReq(r), NEW pc, NEW own
    PROVE  /\ Moved(r, [r EXCEPT !.pc = pc], pc, r.own)
           /\ Moved(r, [r EXCEPT !.own = own, !.pc = pc], pc, own)
BY SMT DEF IsReq, Moved

(* The record of an idle client, and of requests that begin.               *)
LEMMA BeginFacts ==
    ASSUME NEW n, NEW body, NEW p, NEW own
    PROVE  /\ IsReq(Idle) /\ Idle.op = "idle" /\ Idle.ptr = 0 /\ Idle.pc = "idle"
           /\ LET q == [op |-> "create", name |-> n, body |-> body, pc |-> "template", ptr |-> 0, own |-> own]
              IN  IsReq(q) /\ q.op = "create" /\ q.name = n /\ q.body = body /\ q.pc = "template" /\ q.ptr = 0 /\ q.own = own
           /\ LET q == [op |-> "update", name |-> n, body |-> body, pc |-> "template", ptr |-> p, own |-> NONE]
              IN  IsReq(q) /\ q.op = "update" /\ q.name = n /\ q.body = body /\ q.pc = "template" /\ q.ptr = p
           /\ LET q == [Idle EXCEPT !.op = "delete", !.name = n, !.pc = "delete"]
              IN  IsReq(q) /\ q.op = "delete" /\ q.name = n /\ q.pc = "delete" /\ q.ptr = 0
BY SMT DEF IsReq, Idle

-----------------------------------------------------------------------------
(* Versions: what the writes do to them.                                   *)

(* Kubernetes gives a version that nothing has.                            *)
LEMMA NextVersionFresh ==
    ASSUME APITyped
    PROVE  /\ NextVersion \in Nat
           /\ \A n \in Service : InKubernetes(n) => api[n].version # NextVersion
           /\ \A i \in 1..Len(heap) : heap[i].version # NextVersion
<1> DEFINE A == {api[n].version : n \in {m \in Service : InKubernetes(m)}}
           B == {heap[i].version : i \in DOMAIN heap}
<1>1. DOMAIN heap = 1..Len(heap) /\ Len(heap) \in Nat
  BY LengthFacts DEF APITyped
<1>2. A \subseteq Nat /\ B \subseteq Nat
  BY <1>1 DEF APITyped, IsObject
<1>3. IsFiniteSet(A)
  <2> DEFINE S == {m \in Service : InKubernetes(m)}
             f == [n \in S |-> api[n].version]
  <2>1. IsFiniteSet(S)
    BY APIAssumption, FS_Subset
  <2>2. f \in Surjection(S, A)
    BY DEF Surjection
  <2> HIDE DEF S, A, f
  <2> QED BY <2>1, <2>2, FS_Surjection
<1>4. IsFiniteSet(B)
  <2>1. IsFiniteSet(DOMAIN heap)
    <3>1. 1 \in Int /\ Len(heap) \in Int
      BY <1>1, SMT
    <3> QED BY <1>1, <3>1, FS_Interval
  <2> DEFINE f == [i \in DOMAIN heap |-> heap[i].version]
  <2>2. f \in Surjection(DOMAIN heap, B)
    BY DEF Surjection
  <2> HIDE DEF B, f
  <2> QED BY <2>1, <2>2, FS_Surjection
<1>5. Versions = A \cup B
  BY DEF Versions
<1>6. IsFiniteSet(Versions) /\ Versions \in SUBSET Nat
  BY <1>2, <1>3, <1>4, <1>5, FS_Union
<1>7. NextVersion \in Nat /\ NextVersion \notin Versions
  BY <1>6, MaxFresh DEF NextVersion
<1>8. \A n \in Service : InKubernetes(n) => api[n].version \in Versions
  BY <1>5
<1>9. \A i \in 1..Len(heap) : heap[i].version \in Versions
  BY <1>1, <1>5
<1> QED BY <1>7, <1>8, <1>9

(* A write with a new version.                                             *)
LEMMA UniqueWrite ==
    ASSUME APITyped, VersionsUnique, NEW n \in Service, NEW o, o.version = NextVersion,
           api' = [api EXCEPT ![n] = o]
    PROVE  VersionsUnique'
<1>1. api'[n] = o /\ \A m \in Service : m # n => api'[m] = api[m]
  BY DEF APITyped
<1>2. SUFFICES ASSUME NEW a \in Service, NEW b \in Service, InKubernetes(a)', InKubernetes(b)',
                      api'[a].version = api'[b].version, a # b
               PROVE  FALSE
  BY DEF VersionsUnique
<1>3. \A m \in Service : m # n /\ InKubernetes(m)' => InKubernetes(m) /\ api'[m].version # NextVersion
  BY <1>1, NextVersionFresh DEF InKubernetes
<1>4. a # n /\ b # n
  BY <1>1, <1>2, <1>3
<1> QED BY <1>1, <1>2, <1>3, <1>4 DEF VersionsUnique

(* A write by others, or a creation: what is at one version now was so     *)
(* before.                                                                 *)
LEMMA FreshWrite ==
    ASSUME APITyped, VersionsTell, NEW n \in Service, NEW o, o.version = NextVersion,
           api' = [api EXCEPT ![n] = o], heap' = heap, unseen' \subseteq unseen \cup {n}
    PROVE  /\ VersionsTell'
           /\ \A i \in 1..Len(heap), m \in Service : SameVersion(i, m)' => SameVersion(i, m) /\ api'[m] = api[m]
<1>1. api'[n] = o /\ \A m \in Service : m # n => api'[m] = api[m]
  BY DEF APITyped
<1>2. ASSUME NEW i \in 1..Len(heap), NEW m \in Service, SameVersion(i, m)'
      PROVE  SameVersion(i, m) /\ api'[m] = api[m] /\ m # n
  <2>1. m # n
    BY <1>1, <1>2, NextVersionFresh DEF SameVersion, InKubernetes
  <2> QED BY <1>1, <1>2, <2>1 DEF SameVersion, InKubernetes
<1>3. VersionsUnique'
  BY UniqueWrite DEF VersionsTell
<1>4. UnseenNewer'
  BY <1>2 DEF VersionsTell, UnseenNewer
<1>5. SameEditable'
  <2>1. SUFFICES ASSUME NEW m \in Service, NEW i \in 1..Len(heap), SameVersion(i, m)'
                 PROVE  heap[i].editable = api'[m].editable
    BY DEF SameEditable
  <2> QED BY <1>2, <2>1 DEF VersionsTell, SameEditable
<1> QED BY <1>2, <1>3, <1>4, <1>5 DEF VersionsTell

(* A deletion.                                                             *)
LEMMA DeletingWrite ==
    ASSUME APITyped, VersionsTell, NEW n \in Service,
           api' = [api EXCEPT ![n] = NONE], heap' = heap, unseen' = unseen
    PROVE  /\ VersionsTell'
           /\ \A i \in 1..Len(heap), m \in Service : SameVersion(i, m)' => SameVersion(i, m) /\ api'[m] = api[m]
<1>1. api'[n] = NONE /\ \A m \in Service : m # n => api'[m] = api[m]
  BY DEF APITyped
<1>2. ASSUME NEW i \in 1..Len(heap), NEW m \in Service, SameVersion(i, m)'
      PROVE  SameVersion(i, m) /\ api'[m] = api[m]
  BY <1>1, <1>2 DEF SameVersion, InKubernetes
<1>3. VersionsUnique'
  BY <1>1 DEF VersionsTell, VersionsUnique, InKubernetes
<1>4. UnseenNewer'
  BY <1>2 DEF VersionsTell, UnseenNewer
<1>5. SameEditable'
  <2>1. SUFFICES ASSUME NEW m \in Service, NEW i \in 1..Len(heap), SameVersion(i, m)'
                 PROVE  heap[i].editable = api'[m].editable
    BY DEF SameEditable
  <2> QED BY <1>2, <2>1 DEF VersionsTell, SameEditable
<1> QED BY <1>2, <1>3, <1>4, <1>5 DEF VersionsTell

(* Afterwards k and n are at one version, each with no other.              *)
BothTold(k, n) ==
    /\ VersionsTell'
    /\ \A i \in 1..Len(heap), m \in Service : SameVersion(i, m)' =>
          (i = k /\ m = n) \/ (i # k /\ m # n /\ SameVersion(i, m))

(* A write that both sides learn of: a status report, an accepted update.  *)
LEMMA BothWrite ==
    ASSUME APITyped, VersionsTell, NEW n \in Service, NEW k \in 1..Len(heap), SameVersion(k, n),
           NEW o, o.version = NextVersion, o.editable = api[n].editable, api' = [api EXCEPT ![n] = o],
           NEW x, x.version = NextVersion, x.editable = heap[k].editable, Put(heap, heap', k, x),
           unseen' = unseen
    PROVE  BothTold(k, n)
<1>1. api'[n] = o /\ \A m \in Service : m # n => api'[m] = api[m]
  BY DEF APITyped
<1>2. heap'[k] = x /\ Len(heap') = Len(heap) /\ \A j \in 1..Len(heap) : j # k => heap'[j] = heap[j]
  BY DEF Put
<1>3. ASSUME NEW i \in 1..Len(heap), NEW m \in Service, SameVersion(i, m)'
      PROVE  (i = k /\ m = n) \/ (i # k /\ m # n /\ SameVersion(i, m))
  <2>1. CASE i = k /\ m # n
    BY <1>1, <1>2, <1>3, <2>1, NextVersionFresh DEF SameVersion, InKubernetes
  <2>2. CASE i # k /\ m = n
    <3>1. api'[m].version = NextVersion /\ heap'[i] = heap[i]
      BY <1>1, <1>2, <2>2
    <3>2. heap[i].version # NextVersion
      BY NextVersionFresh
    <3> QED BY <1>3, <3>1, <3>2 DEF SameVersion
  <2>3. CASE i # k /\ m # n
    BY <1>1, <1>2, <1>3, <2>3 DEF SameVersion, InKubernetes
  <2> QED BY <2>1, <2>2, <2>3
<1>4. VersionsUnique'
  BY UniqueWrite DEF VersionsTell
<1>5. UnseenNewer'
  BY <1>2, <1>3 DEF VersionsTell, UnseenNewer
<1>6. SameEditable'
  <2>1. SUFFICES ASSUME NEW m \in Service, NEW i \in 1..Len(heap), SameVersion(i, m)'
                 PROVE  heap'[i].editable = api'[m].editable
    BY <1>2 DEF SameEditable
  <2>2. CASE i = k /\ m = n
    <3>1. heap[k].editable = api[n].editable
      BY DEF VersionsTell, SameEditable
    <3>2. heap'[k].editable = api'[n].editable
      BY <1>1, <1>2, <3>1
    <3> QED BY <2>2, <3>2
  <2>3. CASE i # k /\ m # n /\ SameVersion(i, m)
    <3>1. heap[i].editable = api[m].editable
      BY <2>3 DEF VersionsTell, SameEditable
    <3>2. heap'[i] = heap[i] /\ api'[m] = api[m]
      BY <1>1, <1>2, <2>3
    <3> QED BY <3>1, <3>2
  <2> QED BY <1>3, <2>1, <2>2, <2>3
<1> QED BY <1>3, <1>4, <1>5, <1>6 DEF VersionsTell, BothTold

(* A request writes to a spec of the heap.                                 *)
LEMMA SpecWrite ==
    ASSUME APITyped, VersionsTell, NEW k \in 1..Len(heap), NEW x,
           x.version = heap[k].version, x.editable = heap[k].editable,
           Put(heap, heap', k, x), api' = api, unseen' = unseen
    PROVE  /\ VersionsTell'
           /\ \A i \in 1..Len(heap), m \in Service : SameVersion(i, m)' => SameVersion(i, m)
<1>1. Len(heap') = Len(heap) /\ \A i \in 1..Len(heap) : /\ heap'[i].version = heap[i].version
                                                        /\ heap'[i].editable = heap[i].editable
  BY DEF Put
<1>2. \A i \in 1..Len(heap), m \in Service : SameVersion(i, m)' => SameVersion(i, m)
  BY <1>1 DEF SameVersion, InKubernetes
<1>3. VersionsUnique'
  BY DEF VersionsTell, VersionsUnique, InKubernetes
<1>4. UnseenNewer'
  BY <1>1, <1>2 DEF VersionsTell, UnseenNewer
<1>5. SameEditable'
  BY <1>1, <1>2 DEF VersionsTell, SameEditable
<1> QED BY <1>2, <1>3, <1>4, <1>5 DEF VersionsTell

(* The reconciler stores the object of Kubernetes.                         *)
LEMMA StoreWrite ==
    ASSUME APITyped, VersionsTell, NEW n \in Service, InKubernetes(n),
           Pushed(heap, heap', api[n]), api' = api, unseen' = unseen \ {n}
    PROVE  /\ VersionsTell'
           /\ \A i \in 1..Len(heap'), m \in Service : SameVersion(i, m)' =>
                 (i \in 1..Len(heap) /\ SameVersion(i, m)) \/ (i = Len(heap) + 1 /\ m = n)
<1>1. /\ Len(heap') = Len(heap) + 1 /\ heap'[Len(heap) + 1] = api[n]
      /\ \A i \in 1..Len(heap) : heap'[i] = heap[i]
  BY DEF Pushed
<1>2. \A i \in 1..Len(heap') : i \in 1..Len(heap) \/ i = Len(heap) + 1
  <2>1. Len(heap) \in Nat
    BY LengthFacts DEF APITyped
  <2> QED BY <1>1, <2>1, SMT
<1>3. ASSUME NEW i \in 1..Len(heap'), NEW m \in Service, SameVersion(i, m)'
      PROVE  (i \in 1..Len(heap) /\ SameVersion(i, m)) \/ (i = Len(heap) + 1 /\ m = n)
  <2>1. CASE i \in 1..Len(heap)
    BY <1>1, <1>3, <2>1 DEF SameVersion, InKubernetes
  <2>2. CASE i = Len(heap) + 1
    BY <1>1, <1>3, <2>2 DEF SameVersion, InKubernetes, VersionsTell, VersionsUnique
  <2> QED BY <1>2, <2>1, <2>2
<1>4. VersionsUnique'
  BY DEF VersionsTell, VersionsUnique, InKubernetes
<1>5. UnseenNewer'
  BY <1>3 DEF VersionsTell, UnseenNewer
<1>6. SameEditable'
  BY <1>1, <1>3 DEF VersionsTell, SameEditable
<1> QED BY <1>3, <1>4, <1>5, <1>6 DEF VersionsTell

-----------------------------------------------------------------------------
(* Types.                                                                  *)

(* Objects of the heap stay, and stay editable or not.                     *)
HeapKept ==
    /\ IsSeq(heap') /\ \A i \in 1..Len(heap) : i \in 1..Len(heap') /\ heap'[i].editable = heap[i].editable
    /\ \A i \in 1..Len(heap') : IsObject(heap'[i])

(* A request is as good as before for a heap like that.                    *)
LEMMA RequestKept ==
    ASSUME HeapKept, NEW r, RequestOK(r)
    PROVE  RequestOK(r)'
<1>1. Updating(r) => Updating(r)'
  BY DEF HeapKept, Updating
<1>2. Creating(r) => Creating(r)'
  BY DEF Creating
<1>3. Deleting(r) => Deleting(r)'
  BY DEF Deleting
<1> QED BY <1>1, <1>2, <1>3 DEF RequestOK

(* The types after a step that touches one name and one client at most.    *)
LEMMA TypesKept ==
    ASSUME APITyped, HeapKept,
           DOMAIN api' = Service, \A n \in Service : api'[n] = api[n] \/ api'[n] = NONE \/ IsObject(api'[n]),
           DOMAIN store' = Service, \A n \in Service : store'[n] = store[n] \/ store'[n] = NoObject \/ store'[n] \in 1..Len(heap'),
           DOMAIN req' = Client, \A c \in Client : req'[c] = req[c] \/ RequestOK(req[c])',
           mixed' \subseteq 1..Len(heap')
    PROVE  APITyped'
<1>1. (IsSeq(heap) /\ \A i \in 1..Len(heap) : IsObject(heap[i]))'
  BY DEF HeapKept
<1>2. (\A n \in Service : InKubernetes(n) => IsObject(api[n]))'
  BY DEF APITyped, InKubernetes
<1>3. (\A n \in Service : store[n] = NoObject \/ store[n] \in 1..Len(heap))'
  <2>1. ASSUME NEW n \in Service
        PROVE  store'[n] = NoObject \/ store'[n] \in 1..Len(heap')
    BY DEF APITyped, HeapKept
  <2> QED BY <2>1
<1>4. (\A c \in Client : RequestOK(req[c]))'
  <2>1. ASSUME NEW c \in Client
        PROVE  RequestOK(req[c])'
    <3>1. RequestOK(req[c])
      BY DEF APITyped
    <3>2. CASE req'[c] = req[c]
      BY <3>1, <3>2, RequestKept
    <3> QED BY <3>2
  <2> QED BY <2>1
<1> QED BY <1>1, <1>2, <1>3, <1>4 DEF APITyped

(* A heap that does not change.                                            *)
LEMMA SameHeapKept == ASSUME APITyped, heap' = heap PROVE HeapKept
BY DEF APITyped, HeapKept, IsSeq

-----------------------------------------------------------------------------
(* Specs.                                                                  *)

(* Objects that a step and its requests leave alone.                       *)
LEMMA KeepsFollowing ==
    ASSUME NEW i, Follows(i), heap'[i].spec = heap[i].spec,
           \A m \in Service : SameVersion(i, m)' => SameVersion(i, m) /\ api'[m].spec = api[m].spec,
           \A c \in Client : req'[c] = req[c] \/ (req'[c].ptr # i /\ req[c].ptr # i)
    PROVE  Follows(i)'
<1>1. \A c \in Client : req'[c].ptr = i <=> req[c].ptr = i
  OBVIOUS
<1>2. OneEditor(i)'
  BY <1>1 DEF Follows, OneEditor
<1>3. ASSUME NEW c \in Client, NEW n \in Service, req'[c].ptr = i, req'[c].name = n, SameVersion(i, n)'
      PROVE  heap'[i].spec = Half(api'[n].spec, req'[c].body, req'[c].pc)
  <2>1. req'[c] = req[c]
    BY <1>3
  <2>2. SameVersion(i, n) /\ api'[n].spec = api[n].spec
    BY <1>3
  <2>3. heap[i].spec = Half(api[n].spec, req[c].body, req[c].pc)
    BY <1>3, <2>1, <2>2 DEF Follows, HalfWay
  <2> QED BY <2>1, <2>2, <2>3
<1>4. HalfWay(i)'
  BY <1>3 DEF HalfWay
<1>5. ASSUME \A c \in Client : req'[c].ptr # i, NEW n \in Service, SameVersion(i, n)'
      PROVE  heap'[i].spec = api'[n].spec
  <2>1. \A c \in Client : req[c].ptr # i
    BY <1>1, <1>5
  <2>2. SameVersion(i, n) /\ api'[n].spec = api[n].spec
    BY <1>5
  <2> QED BY <2>1, <2>2 DEF Follows, Untouched
<1>6. Untouched(i)'
  BY <1>5 DEF Untouched
<1> QED BY <1>2, <1>4, <1>6 DEF Follows

(* No object has the index 0.                                              *)
LEMMA IndexFacts == ASSUME APITyped PROVE Len(heap) \in Nat /\ \A i \in 1..Len(heap) : i # 0
<1>1. Len(heap) \in Nat
  BY LengthFacts DEF APITyped
<1> QED BY <1>1, SMT

(* A request works on an object of the heap or on none.                    *)
LEMMA PointerFacts ==
    ASSUME APITyped, NEW c \in Client
    PROVE  req[c].ptr = 0 \/ req[c].ptr \in 1..Len(heap)
<1>1. RequestOK(req[c])
  BY DEF APITyped
<1>2. CASE req[c] = Idle
  BY <1>2, BeginFacts
<1>3. CASE Creating(req[c]) \/ Deleting(req[c])
  BY <1>3 DEF Creating, Deleting
<1>4. CASE Updating(req[c])
  BY <1>4 DEF Updating
<1> QED BY <1>1, <1>2, <1>3, <1>4 DEF RequestOK

(* A step that changes no object of the heap and moves no request that     *)
(* works on one.                                                           *)
LEMMA QuietStep ==
    ASSUME APITyped, SpecsFollow, heap' = heap, mixed' = mixed,
           \A i \in 1..Len(heap), m \in Service : SameVersion(i, m)' => SameVersion(i, m) /\ api'[m] = api[m],
           \A c \in Client : req'[c] = req[c] \/ (req'[c].ptr = 0 /\ req[c].ptr = 0)
    PROVE  SpecsFollow'
<1>1. ASSUME NEW i \in 1..Len(heap), i \notin mixed
      PROVE  Follows(i)'
  <2>1. Follows(i)
    BY <1>1 DEF SpecsFollow
  <2>2. \A c \in Client : req'[c] = req[c] \/ (req'[c].ptr # i /\ req[c].ptr # i)
    BY <1>1, IndexFacts
  <2>3. \A m \in Service : SameVersion(i, m)' => SameVersion(i, m) /\ api'[m].spec = api[m].spec
    OBVIOUS
  <2> QED BY <2>1, <2>2, <2>3, KeepsFollowing
<1> QED BY <1>1 DEF SpecsFollow

(* A request that works on an object of the heap goes on.                  *)
LEMMA WorkStep ==
    ASSUME APITyped, VersionsTell, SpecsFollow, NEW c \in Client, NEW k \in 1..Len(heap), req[c].ptr = k,
           NEW s, NEW x, Respecced(heap[k], x, s), Put(heap, heap', k, x),
           api' = api, unseen' = unseen, mixed' = mixed,
           \A d \in Client : d # c => req'[d] = req[d],
           NEW pc, Moved(req[c], req'[c], pc, req[c].own), Advances(heap[k].spec, req[c].body, req[c].pc, s, pc)
    PROVE  VersionsTell' /\ SpecsFollow'
<1>1. x.version = heap[k].version /\ x.editable = heap[k].editable /\ x.spec = s
  BY DEF Respecced
<1>2. VersionsTell' /\ \A i \in 1..Len(heap), m \in Service : SameVersion(i, m)' => SameVersion(i, m)
  BY <1>1, SpecWrite
<1>3. Len(heap') = Len(heap) /\ heap'[k] = x /\ \A j \in 1..Len(heap) : j # k => heap'[j] = heap[j]
  BY DEF Put
<1>4. /\ req'[c].ptr = k /\ req'[c].name = req[c].name /\ req'[c].body = req[c].body /\ req'[c].pc = pc
  BY DEF Moved
<1>5. ASSUME NEW i \in 1..Len(heap), i \notin mixed, i # k
      PROVE  Follows(i)'
  <2>1. Follows(i)
    BY <1>5 DEF SpecsFollow
  <2>2. \A d \in Client : req'[d] = req[d] \/ (req'[d].ptr # i /\ req[d].ptr # i)
    BY <1>4, <1>5
  <2>3. \A m \in Service : SameVersion(i, m)' => SameVersion(i, m) /\ api'[m].spec = api[m].spec
    BY <1>2
  <2>4. heap'[i].spec = heap[i].spec
    BY <1>3, <1>5
  <2> QED BY <2>1, <2>2, <2>3, <2>4, KeepsFollowing
<1>6. ASSUME k \notin mixed
      PROVE  Follows(k)'
  <2>1. Follows(k)
    BY <1>6 DEF SpecsFollow
  <2>2. \A d \in Client : req'[d].ptr = req[d].ptr
    BY <1>4
  <2>3. OneEditor(k)'
    BY <2>1, <2>2 DEF Follows, OneEditor
  <2>4. ASSUME NEW d \in Client, NEW n \in Service, req'[d].ptr = k, req'[d].name = n, SameVersion(k, n)'
        PROVE  heap'[k].spec = Half(api'[n].spec, req'[d].body, req'[d].pc)
    <3>1. d = c
      BY <2>1, <2>2, <2>4 DEF Follows, OneEditor
    <3>2. SameVersion(k, n) /\ req[c].name = n
      BY <1>2, <1>4, <2>4, <3>1
    <3>3. heap[k].spec = Half(api[n].spec, req[c].body, req[c].pc)
      BY <2>1, <3>2 DEF Follows, HalfWay
    <3>4. s = Half(api[n].spec, req[c].body, pc)
      BY <3>3 DEF Advances
    <3>5. heap'[k].spec = Half(api[n].spec, req[c].body, pc)
      BY <1>1, <1>3, <3>4
    <3> QED BY <1>4, <3>1, <3>5
  <2>5. HalfWay(k)'
    BY <2>4 DEF HalfWay
  <2>6. Untouched(k)'
    BY <1>4 DEF Untouched
  <2> QED BY <2>3, <2>5, <2>6 DEF Follows
<1>7. SpecsFollow'
  BY <1>3, <1>5, <1>6 DEF SpecsFollow
<1> QED BY <1>2, <1>7

(* A request that works on an object of the heap fails.                    *)
LEMMA FailStep ==
    ASSUME APITyped, VersionsTell, SpecsFollow, NEW c \in Client, NEW k \in 1..Len(heap), req[c].ptr = k,
           NEW s, NEW x, Respecced(heap[k], x, s), Put(heap, heap', k, x),
           api' = api, unseen' = unseen, mixed' = mixed \cup {k},
           \A d \in Client : d # c => req'[d] = req[d], req'[c].ptr = 0
    PROVE  VersionsTell' /\ SpecsFollow'
<1>1. x.version = heap[k].version /\ x.editable = heap[k].editable
  BY DEF Respecced
<1>2. VersionsTell' /\ \A i \in 1..Len(heap), m \in Service : SameVersion(i, m)' => SameVersion(i, m)
  BY <1>1, SpecWrite
<1>3. Len(heap') = Len(heap) /\ \A j \in 1..Len(heap) : j # k => heap'[j] = heap[j]
  BY DEF Put
<1>4. ASSUME NEW i \in 1..Len(heap), i \notin mixed'
      PROVE  Follows(i)'
  <2>0. i # k /\ i \notin mixed
    BY <1>4
  <2>1. Follows(i)
    BY <2>0 DEF SpecsFollow
  <2>2. \A d \in Client : req'[d] = req[d] \/ (req'[d].ptr # i /\ req[d].ptr # i)
    BY <2>0, IndexFacts
  <2>3. \A m \in Service : SameVersion(i, m)' => SameVersion(i, m) /\ api'[m].spec = api[m].spec
    BY <1>2
  <2>4. heap'[i].spec = heap[i].spec
    BY <1>3, <2>0
  <2> QED BY <2>1, <2>2, <2>3, <2>4, KeepsFollowing
<1>5. SpecsFollow'
  BY <1>3, <1>4 DEF SpecsFollow
<1> QED BY <1>2, <1>5

(* An update takes an object of the heap.                                  *)
LEMMA TakeStep ==
    ASSUME APITyped, VersionsTell, SpecsFollow, NEW c \in Client, NEW k \in 1..Len(heap), req[c].ptr = 0,
           NEW s, NEW x, Respecced(heap[k], x, s), Put(heap, heap', k, x),
           api' = api, unseen' = unseen,
           mixed' = IF \E d \in Client : req[d].ptr = k THEN mixed \cup {k} ELSE mixed,
           \A d \in Client : d # c => req'[d] = req[d],
           req'[c].ptr = k, s = Half(heap[k].spec, req'[c].body, req'[c].pc)
    PROVE  VersionsTell' /\ SpecsFollow'
<1>1. x.version = heap[k].version /\ x.editable = heap[k].editable /\ x.spec = s
  BY DEF Respecced
<1>2. VersionsTell' /\ \A i \in 1..Len(heap), m \in Service : SameVersion(i, m)' => SameVersion(i, m)
  BY <1>1, SpecWrite
<1>3. Len(heap') = Len(heap) /\ heap'[k] = x /\ \A j \in 1..Len(heap) : j # k => heap'[j] = heap[j]
  BY DEF Put
<1>4. mixed \subseteq mixed'
  OBVIOUS
<1>5. ASSUME NEW i \in 1..Len(heap), i \notin mixed', i # k
      PROVE  Follows(i)'
  <2>1. Follows(i)
    BY <1>4, <1>5 DEF SpecsFollow
  <2>2. \A d \in Client : req'[d] = req[d] \/ (req'[d].ptr # i /\ req[d].ptr # i)
    BY <1>5, IndexFacts
  <2>3. \A m \in Service : SameVersion(i, m)' => SameVersion(i, m) /\ api'[m].spec = api[m].spec
    BY <1>2
  <2>4. heap'[i].spec = heap[i].spec
    BY <1>3, <1>5
  <2> QED BY <2>1, <2>2, <2>3, <2>4, KeepsFollowing
<1>6. ASSUME k \notin mixed'
      PROVE  Follows(k)'
  <2>1. k \notin mixed /\ \A d \in Client : req[d].ptr # k
    <3>1. ~ \E d \in Client : req[d].ptr = k
      BY <1>6
    <3> QED BY <1>4, <1>6, <3>1
  <2>2. \A d \in Client : req'[d].ptr = k => d = c
    BY <2>1
  <2>3. OneEditor(k)'
    BY <2>2 DEF OneEditor
  <2>4. ASSUME NEW d \in Client, NEW n \in Service, req'[d].ptr = k, req'[d].name = n, SameVersion(k, n)'
        PROVE  heap'[k].spec = Half(api'[n].spec, req'[d].body, req'[d].pc)
    <3>1. d = c /\ SameVersion(k, n)
      BY <1>2, <2>2, <2>4
    <3>2. heap[k].spec = api[n].spec
      BY <2>1, <3>1 DEF SpecsFollow, Follows, Untouched
    <3>3. heap'[k].spec = Half(api[n].spec, req'[c].body, req'[c].pc)
      BY <1>1, <1>3, <3>2
    <3> QED BY <3>1, <3>3
  <2>5. HalfWay(k)'
    BY <2>4 DEF HalfWay
  <2>6. Untouched(k)'
    BY DEF Untouched
  <2> QED BY <2>3, <2>5, <2>6 DEF Follows
<1>7. SpecsFollow'
  BY <1>3, <1>5, <1>6 DEF SpecsFollow
<1> QED BY <1>2, <1>7

(* The reconciler stores a new object.                                     *)
LEMMA PushStep ==
    ASSUME APITyped, VersionsTell, SpecsFollow, NEW n \in Service, InKubernetes(n),
           Pushed(heap, heap', api[n]), api' = api, unseen' = unseen \ {n}, mixed' = mixed, req' = req
    PROVE  VersionsTell' /\ SpecsFollow'
<1>0. PICK k : k = Len(heap) + 1
  OBVIOUS
<1>1. /\ VersionsTell'
      /\ \A i \in 1..Len(heap'), m \in Service : SameVersion(i, m)' =>
            (i \in 1..Len(heap) /\ SameVersion(i, m)) \/ (i = k /\ m = n)
  BY <1>0, StoreWrite
<1>2. Len(heap') = k /\ heap'[k] = api[n] /\ \A j \in 1..Len(heap) : heap'[j] = heap[j]
  BY <1>0 DEF Pushed
<1>3. /\ k \notin 1..Len(heap) /\ k # 0 /\ k \in 1..Len(heap')
      /\ \A i \in 1..Len(heap') : i \in 1..Len(heap) \/ i = k
  BY <1>0, <1>2, IndexFacts, SMT
<1>4. ASSUME NEW i \in 1..Len(heap), i \notin mixed
      PROVE  Follows(i)'
  <2>1. Follows(i)
    BY <1>4 DEF SpecsFollow
  <2>2. \A d \in Client : req'[d] = req[d]
    OBVIOUS
  <2>3. \A m \in Service : SameVersion(i, m)' => SameVersion(i, m) /\ api'[m].spec = api[m].spec
    <3>1. i \in 1..Len(heap') /\ i # k
      <4>1. \A j \in 1..Len(heap) : j \in 1..Len(heap')
        BY <1>0, <1>2, IndexFacts, SMT
      <4> QED BY <1>3, <4>1
    <3> QED BY <1>1, <3>1
  <2>4. heap'[i].spec = heap[i].spec
    BY <1>2
  <2> QED BY <2>1, <2>2, <2>3, <2>4, KeepsFollowing
<1>5. Follows(k)'
  <2>1. \A d \in Client : req'[d].ptr # k
    BY <1>3, PointerFacts
  <2>2. ASSUME NEW m \in Service, SameVersion(k, m)'
        PROVE  heap'[k].spec = api'[m].spec
    <3>1. m = n
      BY <1>1, <1>3, <2>2
    <3> QED BY <1>2, <3>1
  <2>3. OneEditor(k)'
    BY <2>1 DEF OneEditor
  <2>4. HalfWay(k)'
    BY <2>1 DEF HalfWay
  <2>5. Untouched(k)'
    BY <2>2 DEF Untouched
  <2> QED BY <2>3, <2>4, <2>5 DEF Follows
<1>6. ASSUME NEW i \in 1..Len(heap'), i \notin mixed'
      PROVE  Follows(i)'
  <2>1. CASE i = k
    BY <1>5, <2>1
  <2>2. CASE i \in 1..Len(heap)
    BY <1>4, <1>6, <2>2
  <2> QED BY <1>3, <2>1, <2>2
<1>7. SpecsFollow'
  BY <1>6 DEF SpecsFollow
<1> QED BY <1>1, <1>7

(* The reconciler reports the status of an object, whose spec stays.       *)
LEMMA StatusStep ==
    ASSUME APITyped, VersionsTell, SpecsFollow, NEW n \in Service, NEW k \in 1..Len(heap), SameVersion(k, n),
           NEW o, Renumbered(api[n], o, NextVersion), api' = [api EXCEPT ![n] = o],
           NEW x, Renumbered(heap[k], x, NextVersion), Put(heap, heap', k, x),
           unseen' = unseen, mixed' = mixed, req' = req
    PROVE  VersionsTell' /\ SpecsFollow'
<1>1. /\ o.version = NextVersion /\ o.editable = api[n].editable /\ o.spec = api[n].spec
      /\ x.version = NextVersion /\ x.editable = heap[k].editable /\ x.spec = heap[k].spec
  BY DEF Renumbered
<1>2. /\ VersionsTell'
      /\ \A i \in 1..Len(heap), m \in Service : SameVersion(i, m)' =>
            (i = k /\ m = n) \/ (i # k /\ m # n /\ SameVersion(i, m))
  <2>1. BothTold(k, n)
    BY <1>1, BothWrite
  <2> QED BY <2>1 DEF BothTold
<1>3. Len(heap') = Len(heap) /\ \A j \in 1..Len(heap) : heap'[j].spec = heap[j].spec
  BY <1>1 DEF Put
<1>4. \A m \in Service : api'[m].spec = api[m].spec
  <2>1. api'[n] = o /\ \A m \in Service : m # n => api'[m] = api[m]
    BY DEF APITyped
  <2> QED BY <1>1, <2>1
<1>5. ASSUME NEW i \in 1..Len(heap), i \notin mixed
      PROVE  Follows(i)'
  <2>1. Follows(i)
    BY <1>5 DEF SpecsFollow
  <2>2. \A m \in Service : SameVersion(i, m)' => SameVersion(i, m) /\ api'[m].spec = api[m].spec
    BY <1>2, <1>4
  <2>3. \A d \in Client : req'[d] = req[d]
    OBVIOUS
  <2>4. heap'[i].spec = heap[i].spec
    BY <1>3
  <2> QED BY <2>1, <2>2, <2>3, <2>4, KeepsFollowing
<1>6. SpecsFollow'
  BY <1>3, <1>5 DEF SpecsFollow
<1> QED BY <1>2, <1>6

(* Kubernetes accepts an update: the object of the heap and its own are    *)
(* one again.                                                              *)
LEMMA AcceptStep ==
    ASSUME APITyped, VersionsTell, SpecsFollow, NEW n \in Service, NEW k \in 1..Len(heap), SameVersion(k, n),
           NEW o, Renumbered(heap[k], o, NextVersion), api' = [api EXCEPT ![n] = o],
           Put(heap, heap', k, o), unseen' = unseen, mixed' = mixed,
           NEW c \in Client, req[c].ptr = k, req'[c].ptr = 0, \A d \in Client : d # c => req'[d] = req[d]
    PROVE  VersionsTell' /\ SpecsFollow'
<1>1. o.version = NextVersion /\ o.editable = heap[k].editable /\ o.spec = heap[k].spec
  BY DEF Renumbered
<1>2. heap[k].editable = api[n].editable
  BY DEF VersionsTell, SameEditable
<1>3. /\ VersionsTell'
      /\ \A i \in 1..Len(heap), m \in Service : SameVersion(i, m)' =>
            (i = k /\ m = n) \/ (i # k /\ m # n /\ SameVersion(i, m))
  <2>1. o.editable = api[n].editable
    BY <1>1, <1>2
  <2>2. BothTold(k, n)
    BY <1>1, <2>1, BothWrite
  <2> QED BY <2>2 DEF BothTold
<1>4. Len(heap') = Len(heap) /\ heap'[k] = o /\ \A j \in 1..Len(heap) : j # k => heap'[j] = heap[j]
  BY DEF Put
<1>5. api'[n] = o /\ \A m \in Service : m # n => api'[m] = api[m]
  BY DEF APITyped
<1>6. ASSUME NEW i \in 1..Len(heap), i \notin mixed, i # k
      PROVE  Follows(i)'
  <2>1. Follows(i)
    BY <1>6 DEF SpecsFollow
  <2>2. \A d \in Client : req'[d] = req[d] \/ (req'[d].ptr # i /\ req[d].ptr # i)
    BY <1>6, IndexFacts
  <2>3. \A m \in Service : SameVersion(i, m)' => SameVersion(i, m) /\ api'[m].spec = api[m].spec
    BY <1>3, <1>5, <1>6
  <2>4. heap'[i].spec = heap[i].spec
    BY <1>4, <1>6
  <2> QED BY <2>1, <2>2, <2>3, <2>4, KeepsFollowing
<1>7. ASSUME k \notin mixed
      PROVE  Follows(k)'
  <2>1. \A d \in Client : req'[d].ptr # k
    <3>1. OneEditor(k)
      BY <1>7 DEF SpecsFollow, Follows
    <3> QED BY <3>1, IndexFacts DEF OneEditor
  <2>2. ASSUME NEW m \in Service, SameVersion(k, m)'
        PROVE  heap'[k].spec = api'[m].spec
    <3>1. m = n
      BY <1>3, <2>2
    <3> QED BY <1>4, <1>5, <3>1
  <2>3. OneEditor(k)'
    BY <2>1 DEF OneEditor
  <2>4. HalfWay(k)'
    BY <2>1 DEF HalfWay
  <2>5. Untouched(k)'
    BY <2>2 DEF Untouched
  <2> QED BY <2>3, <2>4, <2>5 DEF Follows
<1>8. SpecsFollow'
  BY <1>4, <1>6, <1>7 DEF SpecsFollow
<1> QED BY <1>3, <1>8

-----------------------------------------------------------------------------
(* Actions.                                                                *)

(* Nobody writes.                                                          *)
LEMMA NoWrite ==
    ASSUME VersionsTell, api' = api, heap' = heap, unseen' \subseteq unseen
    PROVE  /\ VersionsTell'
           /\ \A i \in 1..Len(heap), m \in Service : SameVersion(i, m)' => SameVersion(i, m) /\ api'[m] = api[m]
<1>1. \A i, m : SameVersion(i, m)' => SameVersion(i, m)
  BY DEF SameVersion, InKubernetes
<1>2. VersionsUnique'
  BY DEF VersionsTell, VersionsUnique, InKubernetes
<1>3. UnseenNewer'
  BY <1>1 DEF VersionsTell, UnseenNewer
<1>4. SameEditable'
  BY <1>1 DEF VersionsTell, SameEditable
<1> QED BY <1>1, <1>2, <1>3, <1>4 DEF VersionsTell

(* A heap with an object replaced or one more.                             *)
LEMMA PutKept ==
    ASSUME APITyped, NEW k \in 1..Len(heap), NEW x, Put(heap, heap', k, x), IsObject(x), x.editable = heap[k].editable
    PROVE  HeapKept /\ Len(heap') = Len(heap)
<1>1. /\ IsSeq(heap') /\ Len(heap') = Len(heap) /\ heap'[k] = x
      /\ \A j \in 1..Len(heap) : j # k => heap'[j] = heap[j]
  BY DEF Put
<1>2. \A i \in 1..Len(heap) : heap'[i].editable = heap[i].editable /\ IsObject(heap'[i])
  <2>1. ASSUME NEW i \in 1..Len(heap)
        PROVE  heap'[i].editable = heap[i].editable /\ IsObject(heap'[i])
    <3>1. CASE i = k
      BY <1>1, <3>1
    <3>2. CASE i # k
      BY <1>1, <3>2 DEF APITyped
    <3> QED BY <3>1, <3>2
  <2> QED BY <2>1
<1> QED BY <1>1, <1>2 DEF HeapKept

(* The same for a new object.                                              *)
LEMMA PushKept ==
    ASSUME APITyped, NEW x, Pushed(heap, heap', x), IsObject(x)
    PROVE  HeapKept /\ Len(heap') \in 1..Len(heap') /\ 1..Len(heap) \subseteq 1..Len(heap')
<1>1. /\ IsSeq(heap') /\ Len(heap') = Len(heap) + 1 /\ heap'[Len(heap) + 1] = x
      /\ \A j \in 1..Len(heap) : heap'[j] = heap[j]
  BY DEF Pushed
<1>2. /\ \A i \in 1..Len(heap') : i \in 1..Len(heap) \/ i = Len(heap) + 1
      /\ Len(heap') \in 1..Len(heap') /\ 1..Len(heap) \subseteq 1..Len(heap')
  BY <1>1, IndexFacts, SMT
<1>3. \A i \in 1..Len(heap') : IsObject(heap'[i])
  <2>1. ASSUME NEW i \in 1..Len(heap')
        PROVE  IsObject(heap'[i])
    <3>1. CASE i = Len(heap) + 1
      BY <1>1, <3>1
    <3>2. CASE i \in 1..Len(heap)
      BY <1>1, <3>2 DEF APITyped
    <3> QED BY <1>2, <3>1, <3>2
  <2> QED BY <2>1
<1> QED BY <1>1, <1>2, <1>3 DEF HeapKept

(* A request that goes on or fails writes a spec.                          *)
LEMMA SpecPut ==
    ASSUME APITyped, NEW k \in 1..Len(heap), NEW s, IsSpec(s), heap' = [heap EXCEPT ![k].spec = s]
    PROVE  \E x : Put(heap, heap', k, x) /\ Respecced(heap[k], x, s) /\ IsObject(x) /\ x.editable = heap[k].editable
<1>1. heap' = [heap EXCEPT ![k] = [heap[k] EXCEPT !.spec = s]]
  OBVIOUS
<1> DEFINE x == [heap[k] EXCEPT !.spec = s]
<1>2. Respecced(heap[k], x, s)
  BY RespeccedFacts DEF APITyped
<1> HIDE DEF x
<1>3. Put(heap, heap', k, x)
  <2>1. IsSeq(heap)
    BY DEF APITyped
  <2>2. heap' = [heap EXCEPT ![k] = x]
    BY <1>1 DEF x
  <2>3. Put(heap, [heap EXCEPT ![k] = x], k, x)
    BY <2>1, PutFacts
  <2> QED BY <2>2, <2>3
<1> QED BY <1>2, <1>3 DEF Respecced

(* A request at one of the steps is a creation or an update.               *)
LEMMA AtWork ==
    ASSUME APITyped, NEW c \in Client, req[c].pc \in Steps
    PROVE  IsReq(req[c]) /\ (Creating(req[c]) \/ Updating(req[c]))
<1>1. RequestOK(req[c])
  BY DEF APITyped
<1>2. "idle" \notin Steps /\ "delete" \notin Steps
  BY SMT DEF Steps
<1>3. req[c] # Idle
  <2>1. Idle.pc = "idle"
    BY BeginFacts
  <2> QED BY <1>2, <2>1
<1>4. ~ Deleting(req[c])
  BY <1>2 DEF Deleting
<1> QED BY <1>1, <1>3, <1>4 DEF RequestOK

(* A step that takes a creation further.                                   *)
LEMMA CreationGoesOn ==
    ASSUME APIInv, NEW c \in Client, NEW s, NEW pc \in Steps, Creating(req[c]), IsReq(req[c]),
           Continue(c, s, pc), mixed' = mixed, UNCHANGED Others,
           Advances(Target(c).spec, req[c].body, req[c].pc, s, pc)
    PROVE  APIInv'
<1> DEFINE own == [req[c].own EXCEPT !.spec = s]
<1>0. PICK q : q = [req[c] EXCEPT !.own = own, !.pc = pc]
  OBVIOUS
<1>1. req[c].ptr = 0 /\ IsObject(req[c].own) /\ req[c].own.spec = Half(EmptySpec, req[c].body, req[c].pc)
  BY DEF Creating
<1>2. heap' = heap /\ req' = [req EXCEPT ![c] = q]
  BY <1>0, <1>1 DEF Continue
<1>3. Target(c) = req[c].own
  BY <1>1 DEF Target
<1>4. IsSpec(s) /\ s = Half(EmptySpec, req[c].body, pc)
  BY <1>1, <1>3 DEF Advances
<1>5. Respecced(req[c].own, own, s)
  BY <1>1, <1>4, RespeccedFacts
<1> HIDE DEF own
<1>6. Moved(req[c], q, pc, own)
  BY <1>0, MovedFacts
<1>7. DOMAIN req' = Client /\ req'[c] = q /\ \A d \in Client : d # c => req'[d] = req[d]
  BY <1>2 DEF APIInv, APITyped
<1>8. RequestOK(req[c])'
  <2>1. IsReq(q) /\ Creating(q)
    BY <1>4, <1>5, <1>6 DEF Moved, Respecced, Creating
  <2>2. RequestOK(q)
    BY <2>1 DEF RequestOK
  <2>3. HeapKept
    BY <1>2, SameHeapKept DEF APIInv
  <2>4. RequestOK(q)'
    BY <2>2, <2>3, RequestKept
  <2> QED BY <1>7, <2>4
<1>9. VersionsTell' /\ \A i \in 1..Len(heap), m \in Service : SameVersion(i, m)' => SameVersion(i, m) /\ api'[m] = api[m]
  <2>1. api' = api /\ unseen' \subseteq unseen
    BY DEF Others
  <2> QED BY <1>2, <2>1, NoWrite DEF APIInv
<1>10. SpecsFollow'
  <2>1. q.ptr = 0
    BY <1>1, <1>6 DEF Moved
  <2>2. \A d \in Client : req'[d] = req[d] \/ (req'[d].ptr = 0 /\ req[d].ptr = 0)
    BY <1>1, <1>7, <2>1
  <2> QED BY <1>2, <1>9, <2>2, QuietStep DEF APIInv
<1>11. APITyped'
  <2>1. HeapKept
    BY <1>2, SameHeapKept DEF APIInv
  <2>2. api' = api /\ store' = store
    BY DEF Others
  <2>3. \A d \in Client : req'[d] = req[d] \/ RequestOK(req[d])'
    BY <1>7, <1>8
  <2> QED BY <1>2, <1>7, <2>1, <2>2, <2>3, TypesKept DEF APIInv, APITyped
<1> QED BY <1>9, <1>10, <1>11 DEF APIInv

(* A step that takes an update further.                                    *)
LEMMA UpdateGoesOn ==
    ASSUME APIInv, NEW c \in Client, NEW s, NEW pc \in Steps, Updating(req[c]), IsReq(req[c]),
           Continue(c, s, pc), mixed' = mixed, UNCHANGED Others,
           Advances(Target(c).spec, req[c].body, req[c].pc, s, pc)
    PROVE  APIInv'
<1>0. PICK k, q : k = req[c].ptr /\ q = [req[c] EXCEPT !.pc = pc]
  OBVIOUS
<1>1. k \in 1..Len(heap) /\ k # 0
  BY <1>0, IndexFacts DEF Updating, APIInv
<1>2. heap' = [heap EXCEPT ![k].spec = s] /\ req' = [req EXCEPT ![c] = q]
  BY <1>0, <1>1 DEF Continue
<1>3. Target(c) = heap[k]
  BY <1>0, <1>1 DEF Target
<1>4. IsSpec(s)
  BY DEF Advances
<1>5. PICK x : Put(heap, heap', k, x) /\ Respecced(heap[k], x, s) /\ IsObject(x) /\ x.editable = heap[k].editable
  BY <1>1, <1>2, <1>4, SpecPut DEF APIInv
<1>6. Moved(req[c], q, pc, req[c].own)
  BY <1>0, MovedFacts
<1>7. DOMAIN req' = Client /\ req'[c] = q /\ \A d \in Client : d # c => req'[d] = req[d]
  BY <1>2 DEF APIInv, APITyped
<1>8. HeapKept /\ Len(heap') = Len(heap)
  BY <1>1, <1>5, PutKept DEF APIInv
<1>9. RequestOK(req[c])'
  <2>1. IsReq(q) /\ Updating(q)
    BY <1>6 DEF Moved, Updating
  <2>2. RequestOK(q)
    BY <2>1 DEF RequestOK
  <2>3. RequestOK(q)'
    BY <1>8, <2>2, RequestKept
  <2> QED BY <1>7, <2>3
<1>10. VersionsTell' /\ SpecsFollow'
  <2>1. api' = api /\ unseen' = unseen
    BY DEF Others
  <2>2. Advances(heap[k].spec, req[c].body, req[c].pc, s, pc)
    BY <1>3
  <2>3. Moved(req[c], req'[c], pc, req[c].own)
    BY <1>6, <1>7
  <2> QED BY <1>0, <1>1, <1>5, <1>7, <2>1, <2>2, <2>3, WorkStep DEF APIInv
<1>11. APITyped'
  <2>2. api' = api /\ store' = store
    BY DEF Others
  <2>3. \A d \in Client : req'[d] = req[d] \/ RequestOK(req[d])'
    BY <1>7, <1>9
  <2> QED BY <1>7, <1>8, <2>2, <2>3, TypesKept DEF APIInv, APITyped
<1> QED BY <1>10, <1>11 DEF APIInv

(* A step that takes a request further.                                    *)
LEMMA GoesOn ==
    ASSUME APIInv, NEW c \in Client, NEW s, NEW pc \in Steps, req[c].pc \in Steps,
           Continue(c, s, pc), mixed' = mixed, UNCHANGED Others,
           Advances(Target(c).spec, req[c].body, req[c].pc, s, pc)
    PROVE  APIInv'
<1>1. IsReq(req[c]) /\ (Creating(req[c]) \/ Updating(req[c]))
  BY AtWork DEF APIInv
<1> QED BY <1>1, CreationGoesOn, UpdateGoesOn

(* The spec that a request works on is one.                                *)
LEMMA TargetFacts ==
    ASSUME APIInv, NEW c \in Client, req[c].pc \in Steps
    PROVE  IsSpec(Target(c).spec) /\ req[c].body.template # NONE
<1>1. CASE Creating(req[c])
  BY <1>1 DEF Creating, Target, IsObject
<1>2. CASE Updating(req[c])
  <2>1. Target(c) = heap[req[c].ptr]
    BY <1>2, IndexFacts DEF Updating, Target, APIInv
  <2>2. IsObject(heap[req[c].ptr])
    BY <1>2 DEF Updating, APIInv, APITyped
  <2> QED BY <1>2, <2>1, <2>2 DEF Updating, IsObject
<1> QED BY <1>1, <1>2, AtWork DEF APIInv

(* A step at which a request fails.                                        *)
LEMMA Fails ==
    ASSUME APIInv, NEW c \in Client, NEW s, IsSpec(s), req[c].pc \in Steps, Refuse(c, s),
           api' = api, store' = store, unseen' = unseen
    PROVE  APIInv'
<1>0. PICK k : k = req[c].ptr
  OBVIOUS
<1>1. DOMAIN req' = Client /\ req'[c] = Idle /\ \A d \in Client : d # c => req'[d] = req[d]
  BY DEF APIInv, APITyped, Refuse, Leave
<1>2. RequestOK(req[c])'
  <2>1. (RequestOK(Idle))'
    BY BeginFacts DEF RequestOK
  <2> QED BY <1>1, <2>1
<1>3. \A d \in Client : req'[d] = req[d] \/ RequestOK(req[d])'
  BY <1>1, <1>2
<1>4. CASE k = 0
  <2>1. heap' = heap /\ mixed' = mixed
    BY <1>0, <1>4 DEF Refuse
  <2>2. VersionsTell' /\ \A i \in 1..Len(heap), m \in Service : SameVersion(i, m)' => SameVersion(i, m) /\ api'[m] = api[m]
    BY <2>1, NoWrite DEF APIInv
  <2>3. \A d \in Client : req'[d] = req[d] \/ (req'[d].ptr = 0 /\ req[d].ptr = 0)
    BY <1>0, <1>1, <1>4, BeginFacts
  <2>4. SpecsFollow'
    BY <2>1, <2>2, <2>3, QuietStep DEF APIInv
  <2>5. HeapKept
    BY <2>1, SameHeapKept DEF APIInv
  <2>6. APITyped'
    BY <1>1, <1>3, <2>1, <2>5, TypesKept DEF APIInv, APITyped
  <2> QED BY <2>2, <2>4, <2>6 DEF APIInv
<1>5. CASE k # 0
  <2>1. k \in 1..Len(heap)
    BY <1>0, <1>5, PointerFacts DEF APIInv
  <2>2. heap' = [heap EXCEPT ![k].spec = s] /\ mixed' = mixed \cup {k}
    BY <1>0, <1>5 DEF Refuse
  <2>3. PICK x : Put(heap, heap', k, x) /\ Respecced(heap[k], x, s) /\ IsObject(x) /\ x.editable = heap[k].editable
    BY <2>1, <2>2, SpecPut DEF APIInv
  <2>4. HeapKept /\ Len(heap') = Len(heap)
    BY <2>1, <2>3, PutKept DEF APIInv
  <2>5. VersionsTell' /\ SpecsFollow'
    <3>1. req'[c].ptr = 0
      BY <1>1, BeginFacts
    <3> QED BY <1>0, <1>1, <2>1, <2>2, <2>3, <3>1, FailStep DEF APIInv
  <2>6. mixed' \subseteq 1..Len(heap')
    BY <2>1, <2>2, <2>4 DEF APIInv, APITyped
  <2>7. APITyped'
    BY <1>1, <1>3, <2>4, <2>6, TypesKept DEF APIInv, APITyped
  <2> QED BY <2>5, <2>7 DEF APIInv
<1> QED BY <1>4, <1>5

(* The fields one by one: which ones each step settles, and to what.       *)
LEMMA DoneFacts ==
    /\ Done("listener") = Done("template") \cup {"template", "options"}
    /\ "template" \notin Done("template") /\ "options" \notin Done("template")
    /\ Done("virtualHost") = Done("listener") \cup {"listener"} /\ "listener" \notin Done("listener")
    /\ Done("accessLogConfigs") = Done("virtualHost") \cup {"virtualHost"}
    /\ "virtualHost" \notin Done("virtualHost")
    /\ Done("additionalRoutes") = Done("accessLogConfigs") \cup {"accessLogConfigs"}
    /\ "accessLogConfigs" \notin Done("accessLogConfigs")
    /\ Done("additionalHttpFilters") = Done("additionalRoutes") \cup {"additionalRoutes"}
    /\ "additionalRoutes" \notin Done("additionalRoutes")
    /\ Done("build") = Done("additionalHttpFilters") \cup {"additionalHttpFilters"}
    /\ "additionalHttpFilters" \notin Done("additionalHttpFilters")
    /\ Done("commit") = Done("build") \cup {"useRemoteAddress"} /\ "useRemoteAddress" \notin Done("build")
    /\ Done("template") = {"nodes"} /\ Done("commit") = Fields
BY SMT DEF Done, Fields

(* What a request asks for, field by field: a field that the body leaves   *)
(* out keeps its former value where the code tests for it.                 *)
LEMMA RequestedFacts ==
    ASSUME NEW old, NEW body
    PROVE  /\ Requested(old, body)["nodes"] = body["nodes"]
           /\ Requested(old, body)["additionalRoutes"] = body["additionalRoutes"]
           /\ Requested(old, body)["additionalHttpFilters"] = body["additionalHttpFilters"]
           /\ Requested(old, body)["options"] = IF body["options"] = <<>> THEN old["options"] ELSE body["options"]
           /\ Requested(old, body)["accessLogConfigs"] = IF body["accessLogConfigs"] = <<>> THEN old["accessLogConfigs"] ELSE body["accessLogConfigs"]
           /\ Requested(old, body)["template"] = IF body["template"] = NONE THEN old["template"] ELSE body["template"]
           /\ Requested(old, body)["listener"] = IF body["listener"] = NONE THEN old["listener"] ELSE body["listener"]
           /\ Requested(old, body)["virtualHost"] = IF body["virtualHost"] = NONE THEN old["virtualHost"] ELSE body["virtualHost"]
           /\ Requested(old, body)["useRemoteAddress"] = IF body["useRemoteAddress"] = NONE THEN old["useRemoteAddress"] ELSE body["useRemoteAddress"]
BY SMT DEF Requested, Fields, Replaced, Lists

(* A step that fills a list.                                               *)
LEMMA ListFilled ==
    ASSUME APIInv, NEW c \in Client, req[c].pc \in Steps, NEW field \in Fields, NEW uids, NEW next \in Steps,
           FillList(c, field, uids, next), UNCHANGED Others,
           Done(next) = Done(req[c].pc) \cup {field}, field \notin Done(req[c].pc),
           \A old : Requested(old, req[c].body)[field] = uids
    PROVE  APIInv'
<1> DEFINE t == Target(c).spec
           s == [t EXCEPT ![field] = Usable(uids)]
<1>1. IsSpec(t)
  BY TargetFacts
<1>2. CASE Usable(uids) = uids
  <2>1. Continue(c, s, next) /\ mixed' = mixed
    BY <1>2 DEF FillList
  <2>2. Advances(t, req[c].body, req[c].pc, s, next)
    <3> HIDE DEF t
    <3> QED BY <1>1, <1>2, AdvanceField
  <2> HIDE DEF s
  <2> QED BY <2>1, <2>2, GoesOn
<1>3. CASE Usable(uids) # uids
  <2>1. Refuse(c, s)
    BY <1>3 DEF FillList
  <2>2. Changed(t, s, field, Usable(uids))
    <3> HIDE DEF t
    <3> QED BY <1>1, SpecExcept
  <2>3. IsSpec(s)
    BY <2>2 DEF Changed
  <2>4. api' = api /\ store' = store /\ unseen' = unseen
    BY DEF Others
  <2> HIDE DEF s
  <2> QED BY <2>1, <2>3, <2>4, Fails
<1> QED BY <1>2, <1>3

(* The steps of a request.                                                 *)
LEMMA StepsAre == \A pc \in Steps : pc # "idle" /\ pc # "delete"
BY SMT DEF Steps

(* The step that sets the additional routes keeps the invariant.           *)
LEMMA RoutesStep == ASSUME APIInv, NEW c \in Client, processAdditionalRoutes(c) PROVE APIInv'
<1>1. /\ req[c].pc = "additionalRoutes" /\ UNCHANGED Others
      /\ FillList(c, "additionalRoutes", req[c].body["additionalRoutes"], "additionalHttpFilters")
  BY DEF processAdditionalRoutes, Works
<1>2. \A old : Requested(old, req[c].body)["additionalRoutes"] = req[c].body["additionalRoutes"]
  BY RequestedFacts, SMT
<1>3. "additionalRoutes" \in Steps /\ "additionalHttpFilters" \in Steps /\ "additionalRoutes" \in Fields
  BY DEF Steps, Fields
<1>4. Done("additionalHttpFilters") = Done("additionalRoutes") \cup {"additionalRoutes"} /\ "additionalRoutes" \notin Done("additionalRoutes")
  BY DoneFacts
<1> QED BY <1>1, <1>2, <1>3, <1>4, ListFilled

(* The step that sets the additional HTTP filters keeps the invariant.     *)
LEMMA FiltersStep == ASSUME APIInv, NEW c \in Client, processAdditionalHTTPFilters(c) PROVE APIInv'
<1>1. /\ req[c].pc = "additionalHttpFilters" /\ UNCHANGED Others
      /\ FillList(c, "additionalHttpFilters", req[c].body["additionalHttpFilters"], "build")
  BY DEF processAdditionalHTTPFilters, Works
<1>2. \A old : Requested(old, req[c].body)["additionalHttpFilters"] = req[c].body["additionalHttpFilters"]
  BY RequestedFacts, SMT
<1>3. "additionalHttpFilters" \in Steps /\ "build" \in Steps /\ "additionalHttpFilters" \in Fields
  BY DEF Steps, Fields
<1>4. Done("build") = Done("additionalHttpFilters") \cup {"additionalHttpFilters"} /\ "additionalHttpFilters" \notin Done("additionalHttpFilters")
  BY DoneFacts
<1> QED BY <1>1, <1>2, <1>3, <1>4, ListFilled

(* A step that only keeps a field advances too.                            *)
LEMMA AdvanceKeeping ==
    ASSUME NEW s, IsSpec(s), NEW body, NEW from, NEW to, NEW g \in Fields,
           Done(to) = Done(from) \cup {g}, g \notin Done(from),
           \A old : Requested(old, body)[g] = old[g]
    PROVE  Advances(s, body, from, s, to)
<1>1. [s EXCEPT ![g] = s[g]] = s
  BY DEF IsSpec
<1>2. \E x : x = s[g]
  OBVIOUS
<1>3. PICK x : x = s[g]
  OBVIOUS
<1>4. Advances(s, body, from, [s EXCEPT ![g] = x], to)
  BY <1>3, AdvanceField
<1> QED BY <1>1, <1>3, <1>4

(* The step that sets the access log configurations keeps the invariant.   *)
LEMMA LogConfigsStep == ASSUME APIInv, NEW c \in Client, processAccessLogConfigs(c) PROVE APIInv'
<1> DEFINE uids == req[c].body["accessLogConfigs"]
           t == Target(c).spec
<1>1. req[c].pc = "accessLogConfigs" /\ UNCHANGED Others
  BY DEF processAccessLogConfigs, Works
<1>2. "accessLogConfigs" \in Steps /\ "additionalRoutes" \in Steps /\ "accessLogConfigs" \in Fields
  BY DEF Steps, Fields
<1>3. CASE uids = <<>>
  <2>1. Continue(c, t, "additionalRoutes") /\ mixed' = mixed
    BY <1>3 DEF processAccessLogConfigs
  <2>2. \A old : Requested(old, req[c].body)["accessLogConfigs"] = old["accessLogConfigs"]
    BY <1>3, RequestedFacts, SMT
  <2>3. IsSpec(t)
    BY <1>1, <1>2, TargetFacts
  <2>4. Advances(t, req[c].body, "accessLogConfigs", t, "additionalRoutes")
    <3> HIDE DEF t
    <3>1. Done("additionalRoutes") = Done("accessLogConfigs") \cup {"accessLogConfigs"} /\ "accessLogConfigs" \notin Done("accessLogConfigs")
      BY DoneFacts
    <3> QED BY <1>2, <2>2, <2>3, <3>1, AdvanceKeeping
  <2> QED BY <1>1, <1>2, <2>1, <2>4, GoesOn
<1>4. CASE uids # <<>>
  <2>1. FillList(c, "accessLogConfigs", uids, "additionalRoutes")
    BY <1>4 DEF processAccessLogConfigs
  <2>2. \A old : Requested(old, req[c].body)["accessLogConfigs"] = uids
    BY <1>4, RequestedFacts, SMT
  <2>3. Done("additionalRoutes") = Done("accessLogConfigs") \cup {"accessLogConfigs"} /\ "accessLogConfigs" \notin Done("accessLogConfigs")
    BY DoneFacts
  <2> QED BY <1>1, <1>2, <2>1, <2>2, <2>3, ListFilled
<1> QED BY <1>3, <1>4

(* A step that sets a field that the body may leave out.                   *)
LEMMA OptionalAdvances ==
    ASSUME NEW s, IsSpec(s), NEW body, NEW from, NEW to, NEW g \in {"listener", "virtualHost", "useRemoteAddress"},
           Done(to) = Done(from) \cup {g}, g \notin Done(from)
    PROVE  Advances(s, body, from, [s EXCEPT ![g] = IF body[g] = NONE THEN s[g] ELSE body[g]], to)
<1> DEFINE x == IF body[g] = NONE THEN s[g] ELSE body[g]
<1>1. \A old : x = Requested(old, body)[g] \/ (x = s[g] /\ Requested(old, body)[g] = old[g])
  <2>1. CASE g = "listener"
    BY <2>1, RequestedFacts, SMT
  <2>2. CASE g = "virtualHost"
    BY <2>2, RequestedFacts, SMT
  <2>3. CASE g = "useRemoteAddress"
    BY <2>3, RequestedFacts, SMT
  <2> QED BY <2>1, <2>2, <2>3
<1>2. g \in Fields
  BY DEF Fields
<1> HIDE DEF x
<1>3. Advances(s, body, from, [s EXCEPT ![g] = x], to)
  BY <1>1, <1>2, AdvanceField
<1> QED BY <1>3 DEF x

(* The step that sets the listener keeps the invariant.                    *)
LEMMA ListenerStep == ASSUME APIInv, NEW c \in Client, processListener(c) PROVE APIInv'
<1> DEFINE l == req[c].body.listener
           t == Target(c).spec
           s == [t EXCEPT !["listener"] = IF req[c].body["listener"] = NONE THEN t["listener"] ELSE req[c].body["listener"]]
<1>1. req[c].pc = "listener" /\ UNCHANGED Others
  BY DEF processListener, Works
<1>2. "listener" \in Steps /\ "virtualHost" \in Steps
  BY DEF Steps
<1>3. IsSpec(t)
  BY <1>1, <1>2, TargetFacts
<1>4. CASE l = NONE \/ MayUse(l)
  <2>1. Continue(c, s, "virtualHost") /\ mixed' = mixed
    BY <1>4 DEF processListener
  <2>2. Advances(t, req[c].body, "listener", s, "virtualHost")
    <3> HIDE DEF t
    <3> QED BY <1>3, DoneFacts, OptionalAdvances
  <2> HIDE DEF s
  <2> QED BY <1>1, <1>2, <2>1, <2>2, GoesOn
<1>5. CASE ~ (l = NONE \/ MayUse(l))
  <2>1. Refuse(c, t)
    BY <1>5 DEF processListener
  <2>2. api' = api /\ store' = store /\ unseen' = unseen
    BY <1>1 DEF Others
  <2> QED BY <1>1, <1>2, <1>3, <2>1, <2>2, Fails
<1> QED BY <1>4, <1>5

(* The step that sets the virtual host keeps the invariant.                *)
LEMMA VirtualHostStep == ASSUME APIInv, NEW c \in Client, processVirtualHost(c) PROVE APIInv'
<1> DEFINE t == Target(c).spec
           s == [t EXCEPT !["virtualHost"] = IF req[c].body["virtualHost"] = NONE THEN t["virtualHost"] ELSE req[c].body["virtualHost"]]
<1>1. req[c].pc = "virtualHost" /\ UNCHANGED Others /\ mixed' = mixed
  BY DEF processVirtualHost, Works
<1>2. "virtualHost" \in Steps /\ "accessLogConfigs" \in Steps
  BY DEF Steps
<1>3. IsSpec(t)
  BY <1>1, <1>2, TargetFacts
<1>4. Continue(c, s, "accessLogConfigs")
  BY DEF processVirtualHost
<1>5. Advances(t, req[c].body, "virtualHost", s, "accessLogConfigs")
  <2> HIDE DEF t
  <2> QED BY <1>3, DoneFacts, OptionalAdvances
<1> HIDE DEF s
<1> QED BY <1>1, <1>2, <1>4, <1>5, GoesOn

(* The template and its options are set in one step.                       *)
LEMMA TemplateAdvances ==
    ASSUME NEW t, IsSpec(t), NEW body, body["template"] # NONE, NEW s, NEW s1,
           s1 = [t EXCEPT !["template"] = body["template"]],
           s = [s1 EXCEPT !["options"] = IF body["options"] = <<>> THEN s1["options"] ELSE body["options"]]
    PROVE  Advances(t, body, "template", s, "listener")
<1>1. Changed(t, s1, "template", body["template"])
  BY SpecExcept
<1>2. IsSpec(s1) /\ \A f \in Fields : s1[f] = IF f = "template" THEN body["template"] ELSE t[f]
  BY <1>1 DEF Changed
<1> DEFINE x == IF body["options"] = <<>> THEN s1["options"] ELSE body["options"]
<1>3. Changed(s1, s, "options", x)
  <2> HIDE DEF x
  <2>1. s = [s1 EXCEPT !["options"] = x]
    BY DEF x
  <2>2. Changed(s1, [s1 EXCEPT !["options"] = x], "options", x)
    BY <1>2, SpecExcept
  <2> QED BY <2>1, <2>2
<1>4. IsSpec(s) /\ \A f \in Fields : s[f] = IF f = "options" THEN x ELSE s1[f]
  BY <1>3 DEF Changed
<1>5. "template" \in Fields /\ "options" \in Fields /\ "template" # "options"
  BY DEF Fields
<1>6. x = IF body["options"] = <<>> THEN t["options"] ELSE body["options"]
  BY <1>2, <1>5
<1> HIDE DEF x
<1>7. ASSUME NEW old, t = Half(old, body, "template")
      PROVE  s = Half(old, body, "listener")
  <2>1. \A f \in Fields : t[f] = IF f \in Done("template") THEN Requested(old, body)[f] ELSE old[f]
    BY <1>7 DEF Half
  <2>2. /\ Requested(old, body)["template"] = body["template"]
        /\ Requested(old, body)["options"] = IF body["options"] = <<>> THEN old["options"] ELSE body["options"]
    BY RequestedFacts, SMT
  <2>3. ASSUME NEW f \in Fields
        PROVE  s[f] = IF f \in Done("listener") THEN Requested(old, body)[f] ELSE old[f]
    <3>1. CASE f = "template"
      <4>1. s["template"] = body["template"]
        BY <1>2, <1>4, <1>5
      <4>2. "template" \in Done("listener")
        BY DoneFacts
      <4> QED BY <2>2, <3>1, <4>1, <4>2
    <3>2. CASE f = "options"
      <4>1. t["options"] = old["options"]
        BY <1>5, <2>1, DoneFacts
      <4>2. s["options"] = Requested(old, body)["options"]
        BY <1>4, <1>5, <1>6, <2>2, <4>1
      <4>3. "options" \in Done("listener")
        BY DoneFacts
      <4> QED BY <3>2, <4>2, <4>3
    <3>3. CASE f # "template" /\ f # "options"
      <4>1. s[f] = t[f]
        BY <1>2, <1>4, <3>3
      <4>2. f \in Done("listener") <=> f \in Done("template")
        BY <3>3, DoneFacts
      <4> QED BY <2>1, <4>1, <4>2
    <3> QED BY <3>1, <3>2, <3>3
  <2>4. Settled(s, old, body, "listener")
    BY <2>3 DEF Settled
  <2> QED BY <1>4, <2>4, HalfAt
<1> QED BY <1>4, <1>7 DEF Advances

(* The step that sets template and options keeps the invariant.            *)
LEMMA TemplateStep == ASSUME APIInv, NEW c \in Client, processTemplate(c) PROVE APIInv'
<1> DEFINE body == req[c].body
           t == Target(c).spec
           s1 == [t EXCEPT !["template"] = body["template"]]
           s == [s1 EXCEPT !["options"] = IF body["options"] = <<>> THEN s1["options"] ELSE body["options"]]
<1>1. req[c].pc = "template" /\ UNCHANGED Others
  BY DEF processTemplate, Works
<1>2. "template" \in Steps /\ "listener" \in Steps
  BY DEF Steps
<1>3. IsSpec(t) /\ body["template"] # NONE
  BY <1>1, <1>2, TargetFacts
<1>4. CASE MayUse(body["template"])
  <2>1. Continue(c, s, "listener") /\ mixed' = mixed
    BY <1>4 DEF processTemplate
  <2>2. Advances(t, body, "template", s, "listener")
    <3> HIDE DEF t, body
    <3> QED BY <1>3, TemplateAdvances
  <2> HIDE DEF s
  <2> QED BY <1>1, <1>2, <2>1, <2>2, GoesOn
<1>5. CASE ~ MayUse(body["template"])
  <2>1. Refuse(c, t)
    BY <1>5 DEF processTemplate
  <2>2. api' = api /\ store' = store /\ unseen' = unseen
    BY <1>1 DEF Others
  <2> QED BY <1>1, <1>2, <1>3, <2>1, <2>2, Fails
<1> QED BY <1>4, <1>5

(* The trial build reads the object and keeps the invariant, whatever it   *)
(* says.                                                                   *)
LEMMA BuildStep == ASSUME APIInv, NEW c \in Client, Build(c) PROVE APIInv'
<1> DEFINE u == req[c].body["useRemoteAddress"]
           keep == req[c].op = "update" /\ u = NONE
           t == Target(c).spec
           x == IF keep THEN t["useRemoteAddress"] ELSE u
           s == [t EXCEPT !["useRemoteAddress"] = x]
<1>1. req[c].pc = "build" /\ UNCHANGED Others
  BY DEF Build, Works
<1>2. "build" \in Steps /\ "commit" \in Steps /\ "useRemoteAddress" \in Fields
  BY DEF Steps, Fields
<1>3. IsSpec(t)
  BY <1>1, <1>2, TargetFacts
<1>4. u = NONE /\ ~ keep => t["useRemoteAddress"] = NONE
  <2>1. SUFFICES ASSUME req[c].op # "update"
                 PROVE  t["useRemoteAddress"] = NONE
    OBVIOUS
  <2>2. Creating(req[c])
    BY <1>1, <1>2, <2>1, AtWork DEF Updating, APIInv
  <2>3. t = Half(EmptySpec, req[c].body, "build")
    BY <1>1, <2>2 DEF Creating, Target
  <2>4. t["useRemoteAddress"] = EmptySpec["useRemoteAddress"]
    BY <1>2, <2>3, DoneFacts DEF Half
  <2> QED BY <2>4 DEF EmptySpec
<1>5. x = IF u = NONE THEN t["useRemoteAddress"] ELSE u
  BY <1>4
<1>6. CASE Buildable(s)
  <2>1. Continue(c, s, "commit") /\ mixed' = mixed
    BY <1>6 DEF Build
  <2>2. Advances(t, req[c].body, "build", s, "commit")
    <3> HIDE DEF t, x
    <3>1. Advances(t, req[c].body, "build", [t EXCEPT !["useRemoteAddress"] = IF u = NONE THEN t["useRemoteAddress"] ELSE u], "commit")
      BY <1>3, DoneFacts, OptionalAdvances
    <3> QED BY <1>5, <3>1
  <2> HIDE DEF s
  <2> QED BY <1>1, <1>2, <2>1, <2>2, GoesOn
<1>7. CASE ~ Buildable(s)
  <2>1. Refuse(c, s)
    BY <1>7 DEF Build
  <2>2. api' = api /\ store' = store /\ unseen' = unseen
    BY <1>1 DEF Others
  <2>3. Changed(t, s, "useRemoteAddress", x)
    <3> HIDE DEF t, x
    <3> QED BY <1>3, SpecExcept
  <2>4. IsSpec(s)
    BY <2>3 DEF Changed
  <2> HIDE DEF s
  <2> QED BY <1>1, <1>2, <2>1, <2>2, <2>4, Fails
<1> QED BY <1>6, <1>7

(* A step of a request that works on no object of the heap.                *)
LEMMA QuietRequest ==
    ASSUME APIInv, NEW c \in Client, req[c].ptr = 0,
           NEW q, req' = [req EXCEPT ![c] = q], q.ptr = 0, RequestOK(q),
           heap' = heap, mixed' = mixed, store' = store,
           DOMAIN api' = Service, \A n \in Service : api'[n] = api[n] \/ api'[n] = NONE \/ IsObject(api'[n]),
           VersionsTell',
           \A i \in 1..Len(heap), m \in Service : SameVersion(i, m)' => SameVersion(i, m) /\ api'[m] = api[m]
    PROVE  APIInv'
<1>1. DOMAIN req' = Client /\ req'[c] = q /\ \A d \in Client : d # c => req'[d] = req[d]
  BY DEF APIInv, APITyped
<1>2. HeapKept
  BY SameHeapKept DEF APIInv
<1>3. \A d \in Client : req'[d] = req[d] \/ RequestOK(req[d])'
  <2>1. RequestOK(q)'
    BY <1>2, RequestKept
  <2>2. RequestOK(req[c])'
    BY <1>1, <2>1
  <2> QED BY <1>1, <2>2
<1>4. SpecsFollow'
  <2>1. \A d \in Client : req'[d] = req[d] \/ (req'[d].ptr = 0 /\ req[d].ptr = 0)
    BY <1>1
  <2> QED BY <2>1, QuietStep DEF APIInv
<1>5. APITyped'
  BY <1>1, <1>2, <1>3, TypesKept DEF APIInv, APITyped
<1> QED BY <1>4, <1>5 DEF APIInv

(* The record of an idle client.                                           *)
LEMMA IdleFacts == IsReq(Idle) /\ Idle.op = "idle" /\ Idle.ptr = 0 /\ Idle.pc = "idle" /\ RequestOK(Idle)
<1>1. IsReq(Idle) /\ Idle.op = "idle" /\ Idle.ptr = 0 /\ Idle.pc = "idle"
  BY BeginFacts
<1> QED BY <1>1 DEF RequestOK

(* The creation in Kubernetes writes a fresh object of a fresh version, or *)
(* fails.                                                                  *)
LEMMA CommitCreateStep == ASSUME APIInv, NEW c \in Client, CommitCreate(c) PROVE APIInv'
<1>1. req[c].pc = "commit" /\ req[c].op = "create" /\ "commit" \in Steps
  BY DEF CommitCreate, Works, Steps
<1>2. Creating(req[c])
  BY <1>1, AtWork DEF Updating, APIInv
<1>3. req[c].ptr = 0 /\ req[c].name \in Service /\ IsObject(req[c].own)
  BY <1>2 DEF Creating
<1>4. req' = [req EXCEPT ![c] = Idle] /\ heap' = heap /\ mixed' = mixed /\ store' = store /\ unseen' = unseen
  BY DEF CommitCreate, Leave
<1>5. CASE InKubernetes(req[c].name)
  <2>1. api' = api
    BY <1>5 DEF CommitCreate
  <2>2. VersionsTell' /\ \A i \in 1..Len(heap), m \in Service : SameVersion(i, m)' => SameVersion(i, m) /\ api'[m] = api[m]
    BY <1>4, <2>1, NoWrite DEF APIInv
  <2>3. DOMAIN api' = Service /\ \A n \in Service : api'[n] = api[n]
    BY <2>1 DEF APIInv, APITyped
  <2> QED BY <1>3, <1>4, <2>2, <2>3, IdleFacts, QuietRequest
<1>6. CASE ~ InKubernetes(req[c].name)
  <2> DEFINE o == [req[c].own EXCEPT !.version = NextVersion]
             n == req[c].name
  <2>1. api' = [api EXCEPT ![n] = o]
    BY <1>6 DEF CommitCreate, Written
  <2>2. NextVersion \in Nat
    BY NextVersionFresh DEF APIInv
  <2>3. Renumbered(req[c].own, o, NextVersion)
    BY <1>3, <2>2, RenumberedFacts
  <2>4. IsObject(o) /\ o.version = NextVersion
    BY <2>3 DEF Renumbered
  <2> HIDE DEF o
  <2>5. VersionsTell' /\ \A i \in 1..Len(heap), m \in Service : SameVersion(i, m)' => SameVersion(i, m) /\ api'[m] = api[m]
    BY <1>3, <1>4, <2>1, <2>4, FreshWrite DEF APIInv
  <2>6. DOMAIN api' = Service /\ \A m \in Service : api'[m] = api[m] \/ IsObject(api'[m])
    BY <2>1, <2>4 DEF APIInv, APITyped
  <2> QED BY <1>3, <1>4, <2>5, <2>6, IdleFacts, QuietRequest
<1> QED BY <1>5, <1>6

(* Only a deletion deletes.                                                *)
LEMMA CommitDeleteFacts == ASSUME APIInv, NEW c \in Client, CommitDelete(c) PROVE Deleting(req[c])
<1>1. req[c].pc = "delete"
  BY DEF CommitDelete, Works
<1>2. RequestOK(req[c])
  BY DEF APIInv, APITyped
<1>3. req[c].pc \notin Steps /\ Idle.pc # "delete"
  BY <1>1, StepsAre, IdleFacts
<1>4. ~ Creating(req[c]) /\ ~ Updating(req[c]) /\ req[c] # Idle
  BY <1>1, <1>3 DEF Creating, Updating
<1> QED BY <1>2, <1>4 DEF RequestOK

(* The deletion in Kubernetes takes the object away and queues an event.   *)
LEMMA CommitDeleteStep == ASSUME APIInv, NEW c \in Client, CommitDelete(c) PROVE APIInv'
<1>1. req[c].pc = "delete" /\ api' = [api EXCEPT ![req[c].name] = NONE]
  BY DEF CommitDelete, Works
<1>2. req' = [req EXCEPT ![c] = Idle] /\ heap' = heap /\ mixed' = mixed /\ store' = store /\ unseen' = unseen
  BY DEF CommitDelete, Leave
<1>3. Deleting(req[c])
  BY CommitDeleteFacts
<1>4. req[c].ptr = 0 /\ req[c].name \in Service
  BY <1>3 DEF Deleting
<1>5. VersionsTell' /\ \A i \in 1..Len(heap), m \in Service : SameVersion(i, m)' => SameVersion(i, m) /\ api'[m] = api[m]
  BY <1>1, <1>2, <1>4, DeletingWrite DEF APIInv
<1>6. DOMAIN api' = Service /\ \A m \in Service : api'[m] = api[m] \/ api'[m] = NONE
  BY <1>1 DEF APIInv, APITyped
<1> QED BY <1>2, <1>4, <1>5, <1>6, IdleFacts, QuietRequest

(* Kubernetes accepts an update.                                           *)
Accepted(c) == InKubernetes(req[c].name) /\ api[req[c].name].version = Target(c).version

(* What holds when an update reaches its call of Kubernetes: it has the    *)
(* object of its heap cell at hand.                                        *)
LEMMA CommitUpdateFacts ==
    ASSUME APIInv, NEW c \in Client, CommitUpdate(c)
    PROVE  /\ Updating(req[c]) /\ req[c].pc = "commit" /\ Target(c) = heap[req[c].ptr]
           /\ req[c].ptr \in 1..Len(heap) /\ req[c].name \in Service /\ req[c].pc \in Steps
<1>1. req[c].pc = "commit" /\ req[c].op = "update" /\ "commit" \in Steps
  BY DEF CommitUpdate, Works, Steps
<1>2. Updating(req[c])
  BY <1>1, AtWork DEF Creating, APIInv
<1>3. req[c].ptr \in 1..Len(heap) /\ req[c].name \in Service
  BY <1>2 DEF Updating
<1>4. req[c].ptr # 0
  BY <1>3, IndexFacts DEF APIInv
<1> QED BY <1>1, <1>2, <1>3, <1>4 DEF Target

(* The update in Kubernetes succeeds only on the version that the heap     *)
(* object carries, and gives both the next one.                            *)
LEMMA CommitUpdateStep == ASSUME APIInv, NEW c \in Client, CommitUpdate(c) PROVE APIInv'
<1>0. PICK k, n : k = req[c].ptr /\ n = req[c].name
  OBVIOUS
<1>1. k \in 1..Len(heap) /\ n \in Service /\ Target(c) = heap[k] /\ IsObject(heap[k])
  BY <1>0, CommitUpdateFacts DEF APIInv, APITyped
<1>2. store' = store /\ unseen' = unseen
  BY DEF CommitUpdate
<1>3. CASE Accepted(c)
  <2>1. PICK o : o = [heap[k] EXCEPT !.version = NextVersion]
    OBVIOUS
  <2>2. /\ req' = [req EXCEPT ![c] = Idle] /\ mixed' = mixed
        /\ api' = [api EXCEPT ![n] = o] /\ heap' = [heap EXCEPT ![k] = o]
    <3>1. CommitUpdate(c) /\ InKubernetes(n) /\ api[n].version = heap[k].version
      BY <1>0, <1>1, <1>3 DEF Accepted
    <3> QED BY <1>0, <1>1, <2>1, <3>1 DEF CommitUpdate, Leave, Written
  <2>3. NextVersion \in Nat
    BY NextVersionFresh DEF APIInv
  <2>4. Renumbered(heap[k], o, NextVersion)
    BY <1>1, <2>1, <2>3, RenumberedFacts
  <2>5. IsObject(o) /\ o.editable = heap[k].editable
    BY <2>4 DEF Renumbered
  <2>6. Put(heap, heap', k, o)
    <3>1. Put(heap, [heap EXCEPT ![k] = o], k, o)
      BY <1>1, PutFacts DEF APIInv, APITyped
    <3> QED BY <2>2, <3>1
  <2>7. HeapKept /\ Len(heap') = Len(heap)
    BY <1>1, <2>5, <2>6, PutKept DEF APIInv
  <2>8. DOMAIN req' = Client /\ req'[c] = Idle /\ \A d \in Client : d # c => req'[d] = req[d]
    BY <2>2 DEF APIInv, APITyped
  <2>9. VersionsTell' /\ SpecsFollow'
    <3>1. SameVersion(k, n)
      BY <1>0, <1>1, <1>3 DEF Accepted, SameVersion
    <3>2. req'[c].ptr = 0
      BY <2>8, IdleFacts
    <3>3. APITyped /\ VersionsTell /\ SpecsFollow
      BY DEF APIInv
    <3>4. k \in 1..Len(heap) /\ n \in Service /\ req[c].ptr = k
      BY <1>0, <1>1
    <3>5. api' = [api EXCEPT ![n] = o] /\ mixed' = mixed /\ unseen' = unseen
      BY <1>2, <2>2
    <3>6. \A d \in Client : d # c => req'[d] = req[d]
      BY <2>8
    <3> QED BY <2>4, <2>6, <3>1, <3>2, <3>3, <3>4, <3>5, <3>6, AcceptStep
  <2>10. \A d \in Client : req'[d] = req[d] \/ RequestOK(req[d])'
    <3>1. (RequestOK(Idle))'
      BY IdleFacts DEF RequestOK
    <3>2. RequestOK(req[c])'
      BY <2>8, <3>1
    <3> QED BY <2>8, <3>2
  <2>11. DOMAIN api' = Service /\ \A m \in Service : api'[m] = api[m] \/ IsObject(api'[m])
    BY <2>2, <2>5 DEF APIInv, APITyped
  <2>12. APITyped'
    BY <1>2, <2>2, <2>7, <2>8, <2>10, <2>11, TypesKept DEF APIInv, APITyped
  <2> QED BY <2>9, <2>12 DEF APIInv
<1>4. CASE ~ Accepted(c)
  <2>1. Refuse(c, Target(c).spec) /\ api' = api
    BY <1>4 DEF CommitUpdate, Accepted
  <2>2. IsSpec(Target(c).spec) /\ req[c].pc \in Steps
    BY CommitUpdateFacts, TargetFacts
  <2> QED BY <1>2, <2>1, <2>2, Fails
<1> QED BY <1>3, <1>4

(* The spec that a request begins with.                                    *)
LEMMA NodesSet ==
    ASSUME NEW old, IsSpec(old), NEW body
    PROVE  /\ IsSpec([old EXCEPT !["nodes"] = body["nodes"]])
           /\ [old EXCEPT !["nodes"] = body["nodes"]] = Half(old, body, "template")
<1>0. PICK x : x = body["nodes"]
  OBVIOUS
<1> DEFINE s == [old EXCEPT !["nodes"] = x]
<1>1. Changed(old, s, "nodes", x)
  BY SpecExcept
<1> HIDE DEF s
<1>2. IsSpec(s) /\ \A f \in Fields : s[f] = IF f = "nodes" THEN x ELSE old[f]
  BY <1>1 DEF Changed
<1>3. Requested(old, body)["nodes"] = x
  BY <1>0, RequestedFacts, SMT
<1>4. ASSUME NEW f \in Fields
      PROVE  s[f] = IF f \in Done("template") THEN Requested(old, body)[f] ELSE old[f]
  <2>1. f \in Done("template") <=> f = "nodes"
    BY DoneFacts
  <2>2. CASE f = "nodes"
    BY <1>2, <1>3, <2>1, <2>2
  <2>3. CASE f # "nodes"
    BY <1>2, <2>1, <2>3
  <2> QED BY <2>2, <2>3
<1>5. Settled(s, old, body, "template")
  BY <1>4 DEF Settled
<1>6. s = Half(old, body, "template")
  BY <1>2, <1>5, HalfAt
<1> QED BY <1>0, <1>2, <1>6 DEF s

(* The object that a creation starts from has every field, and each of     *)
(* them unset.                                                             *)
LEMMA EmptySpecFacts == IsSpec(EmptySpec)
BY SMT DEF IsSpec, EmptySpec, Fields

(* A creation starts from an object of its own, which nobody else can      *)
(* reach.                                                                  *)
LEMMA StartCreateStep == ASSUME APIInv, NEW c \in Client, NEW r \in Creations, StartCreate(c, r) PROVE APIInv'
<1> DEFINE own == initializeVirtualService(r)
           q == [op |-> "create", name |-> r.name, body |-> r.body, pc |-> "template", ptr |-> 0, own |-> own]
           s == [EmptySpec EXCEPT !["nodes"] = r.body["nodes"]]
<1>1. req[c] = Idle /\ r.body.template # NONE /\ req' = [req EXCEPT ![c] = q]
  BY DEF StartCreate, validateCreateVirtualServiceRequest
<1>2. heap' = heap /\ mixed' = mixed /\ store' = store /\ unseen' = unseen /\ api' = api
  BY DEF StartCreate
<1>3. IsSpec(s) /\ s = Half(EmptySpec, r.body, "template")
  BY EmptySpecFacts, NodesSet
<1>4. IsObject(own) /\ own.spec = s
  <2>1. own = Stamped(s, TRUE, 0)
    BY DEF initializeVirtualService
  <2>2. 0 \in Nat
    BY SMT
  <2> HIDE DEF s
  <2>3. IsObject(Stamped(s, TRUE, 0)) /\ Stamped(s, TRUE, 0).spec = s
    BY <1>3, <2>2, StampedFacts
  <2> QED BY <2>1, <2>3
<1> HIDE DEF own, s
<1>5. /\ IsReq(q) /\ q.op = "create" /\ q.name = r.name /\ q.body = r.body /\ q.pc = "template"
      /\ q.ptr = 0 /\ q.own = own
  BY BeginFacts
<1> HIDE DEF q
<1>6. RequestOK(q)
  <2>1. q.name \in Service /\ "template" \in Steps
    BY <1>5, APIAssumption DEF Steps
  <2>2. IsObject(q.own) /\ q.own.spec = Half(EmptySpec, q.body, q.pc) /\ q.body.template # NONE
    BY <1>1, <1>3, <1>4, <1>5
  <2>3. Creating(q)
    BY <1>5, <2>1, <2>2 DEF Creating
  <2> QED BY <1>5, <2>3 DEF RequestOK
<1>7. VersionsTell' /\ \A i \in 1..Len(heap), m \in Service : SameVersion(i, m)' => SameVersion(i, m) /\ api'[m] = api[m]
  BY <1>2, NoWrite DEF APIInv
<1>8. DOMAIN api' = Service /\ \A n \in Service : api'[n] = api[n]
  BY <1>2 DEF APIInv, APITyped
<1> QED BY <1>1, <1>2, <1>5, <1>6, <1>7, <1>8, IdleFacts, QuietRequest

(* A deletion only remembers the name.                                     *)
LEMMA StartDeleteStep == ASSUME APIInv, NEW c \in Client, NEW n \in Service, StartDelete(c, n) PROVE APIInv'
<1> DEFINE q == [Idle EXCEPT !.op = "delete", !.name = n, !.pc = "delete"]
<1>1. req[c] = Idle /\ req' = [req EXCEPT ![c] = q]
  BY DEF StartDelete
<1>2. heap' = heap /\ mixed' = mixed /\ store' = store /\ unseen' = unseen /\ api' = api
  BY DEF StartDelete
<1>3. IsReq(q) /\ q.op = "delete" /\ q.name = n /\ q.pc = "delete" /\ q.ptr = 0
  BY BeginFacts
<1> HIDE DEF q
<1>4. RequestOK(q)
  BY <1>3 DEF RequestOK, Deleting
<1>7. VersionsTell' /\ \A i \in 1..Len(heap), m \in Service : SameVersion(i, m)' => SameVersion(i, m) /\ api'[m] = api[m]
  BY <1>2, NoWrite DEF APIInv
<1>8. DOMAIN api' = Service /\ \A m \in Service : api'[m] = api[m]
  BY <1>2 DEF APIInv, APITyped
<1> QED BY <1>1, <1>2, <1>3, <1>4, <1>7, <1>8, IdleFacts, QuietRequest

(* An update starts on the object that the store holds: whoever else works *)
(* on it, and whatever a failed update left there, makes it a mixed one.   *)
LEMMA StartUpdateStep ==
    ASSUME APIInv, NEW c \in Client, NEW n \in Service, NEW body \in Updates, StartUpdate(c, n, body)
    PROVE  APIInv'
<1>0. PICK k : k = store[n]
  OBVIOUS
<1>1. PICK q : q = [op |-> "update", name |-> n, body |-> body, pc |-> "template", ptr |-> k, own |-> NONE]
  OBVIOUS
<1>2. PICK s : s = [heap[k].spec EXCEPT !["nodes"] = body["nodes"]]
  OBVIOUS
<1>3. /\ req[c] = Idle /\ body.template # NONE /\ k # 0 /\ heap[k].editable
      /\ req' = [req EXCEPT ![c] = q]
  BY <1>0, <1>1 DEF StartUpdate, validateUpdateVirtualServiceRequest, NoObject
<1>4. k \in 1..Len(heap)
  BY <1>0, <1>3 DEF APIInv, APITyped, NoObject
<1>5. heap' = [heap EXCEPT ![k].spec = s]
  BY <1>0, <1>2 DEF StartUpdate
<1>6. /\ api' = api /\ store' = store /\ unseen' = unseen
      /\ mixed' = IF \E d \in Client : req[d].ptr = k THEN mixed \cup {k} ELSE mixed
  BY <1>0 DEF StartUpdate
<1>7. IsSpec(s) /\ s = Half(heap[k].spec, body, "template")
  <2>1. IsSpec(heap[k].spec)
    BY <1>4 DEF APIInv, APITyped, IsObject
  <2> QED BY <1>2, <2>1, NodesSet
<1>8. PICK x : Put(heap, heap', k, x) /\ Respecced(heap[k], x, s) /\ IsObject(x) /\ x.editable = heap[k].editable
  BY <1>4, <1>5, <1>7, SpecPut DEF APIInv
<1>9. HeapKept /\ Len(heap') = Len(heap)
  BY <1>4, <1>8, PutKept DEF APIInv
<1>10. IsReq(q) /\ q.op = "update" /\ q.name = n /\ q.body = body /\ q.pc = "template" /\ q.ptr = k
  BY <1>1, BeginFacts
<1>11. DOMAIN req' = Client /\ req'[c] = q /\ \A d \in Client : d # c => req'[d] = req[d]
  BY <1>3 DEF APIInv, APITyped
<1>12. RequestOK(q)
  <2>1. "template" \in Steps
    BY DEF Steps
  <2>2. Updating(q)
    BY <1>3, <1>4, <1>10, <2>1 DEF Updating
  <2> QED BY <1>10, <2>2 DEF RequestOK
<1>13. \A d \in Client : req'[d] = req[d] \/ RequestOK(req[d])'
  <2>1. RequestOK(q)'
    BY <1>9, <1>12, RequestKept
  <2>2. RequestOK(req[c])'
    BY <1>11, <2>1
  <2> QED BY <1>11, <2>2
<1>14. VersionsTell' /\ SpecsFollow'
  <2>1. req'[c].ptr = k /\ s = Half(heap[k].spec, req'[c].body, req'[c].pc)
    BY <1>7, <1>10, <1>11
  <2>2. req[c].ptr = 0
    BY <1>3, IdleFacts
  <2>3. APITyped /\ VersionsTell /\ SpecsFollow
    BY DEF APIInv
  <2>4. \A d \in Client : d # c => req'[d] = req[d]
    BY <1>11
  <2> QED BY <1>4, <1>6, <1>8, <2>1, <2>2, <2>3, <2>4, TakeStep
<1>15. APITyped'
  <2>1. mixed' \subseteq 1..Len(heap')
    BY <1>4, <1>6, <1>9 DEF APIInv, APITyped
  <2> QED BY <1>6, <1>9, <1>11, <1>13, <2>1, TypesKept DEF APIInv, APITyped
<1> QED BY <1>14, <1>15 DEF APIInv

(* A step of nobody's request that changes no object of the heap.          *)
LEMMA QuietOther ==
    ASSUME APIInv, req' = req, heap' = heap, mixed' = mixed,
           DOMAIN store' = Service, \A n \in Service : store'[n] = store[n] \/ store'[n] = NoObject,
           DOMAIN api' = Service, \A n \in Service : api'[n] = api[n] \/ api'[n] = NONE \/ IsObject(api'[n]),
           VersionsTell',
           \A i \in 1..Len(heap), m \in Service : SameVersion(i, m)' => SameVersion(i, m) /\ api'[m] = api[m]
    PROVE  APIInv'
<1>1. HeapKept
  BY SameHeapKept DEF APIInv
<1>2. SpecsFollow'
  <2>1. \A d \in Client : req'[d] = req[d]
    OBVIOUS
  <2> QED BY <2>1, QuietStep DEF APIInv
<1>3. APITyped'
  <2>1. DOMAIN req' = Client /\ \A d \in Client : req'[d] = req[d]
    BY DEF APIInv, APITyped
  <2>2. mixed' \subseteq 1..Len(heap')
    BY DEF APIInv, APITyped
  <2> QED BY <1>1, <2>1, <2>2, TypesKept DEF APIInv
<1> QED BY <1>2, <1>3 DEF APIInv

(* A write that gives n a new version.                                     *)
LEMMA OtherWrites ==
    ASSUME APIInv, NEW n \in Service, NEW o, IsObject(o), o.version = NextVersion,
           api' = [api EXCEPT ![n] = o], heap' = heap, unseen' \subseteq unseen \cup {n},
           req' = req, mixed' = mixed, store' = store
    PROVE  APIInv'
<1>1. VersionsTell' /\ \A i \in 1..Len(heap), m \in Service : SameVersion(i, m)' => SameVersion(i, m) /\ api'[m] = api[m]
  BY FreshWrite DEF APIInv
<1>2. DOMAIN api' = Service /\ \A m \in Service : api'[m] = api[m] \/ IsObject(api'[m])
  BY DEF APIInv, APITyped
<1>3. DOMAIN store' = Service
  BY DEF APIInv, APITyped
<1> QED BY <1>1, <1>2, <1>3, QuietOther

(* Another client of Kubernetes replaces the object, gives it a fresh      *)
(* version, and it is unseen until the reconciler has stored it.           *)
LEMMA ApplyStep == ASSUME APIInv, NEW n \in Service, Apply(n) PROVE APIInv'
<1>1. PICK spec \in Foreign, editable \in BOOLEAN : api' = [api EXCEPT ![n] = Stamped(spec, editable, NextVersion)]
  BY DEF Apply, Written
<1>2. heap' = heap /\ unseen' = unseen \cup {n} /\ req' = req /\ mixed' = mixed /\ store' = store
  BY DEF Apply
<1>3. IsSpec(spec)
  BY APIAssumption DEF IsSpec
<1>4. PICK o : o = Stamped(spec, editable, NextVersion)
  OBVIOUS
<1>5. IsObject(o) /\ o.version = NextVersion
  <2>1. NextVersion \in Nat
    BY NextVersionFresh DEF APIInv
  <2>2. PICK v \in Nat : v = NextVersion
    BY <2>1
  <2>3. IsObject(Stamped(spec, editable, v)) /\ Stamped(spec, editable, v).version = v
    BY <1>3, StampedFacts, SMT
  <2> QED BY <1>4, <2>2, <2>3
<1> QED BY <1>1, <1>2, <1>4, <1>5, OtherWrites

(* A write to Kubernetes that only moves the version leaves the specs as   *)
(* they were.                                                              *)
LEMMA TouchStep == ASSUME APIInv, NEW n \in Service, Touch(n) PROVE APIInv'
<1>1. PICK o : o = [api[n] EXCEPT !.version = NextVersion]
  OBVIOUS
<1>2. /\ api' = [api EXCEPT ![n] = o] /\ InKubernetes(n)
      /\ heap' = heap /\ unseen' = unseen \cup {n} /\ req' = req /\ mixed' = mixed /\ store' = store
  BY <1>1 DEF Touch, Written
<1>3. Renumbered(api[n], o, NextVersion)
  <2>1. IsObject(api[n])
    BY <1>2 DEF APIInv, APITyped
  <2> QED BY <1>1, <2>1, NextVersionFresh, RenumberedFacts DEF APIInv
<1>4. IsObject(o) /\ o.version = NextVersion
  BY <1>3 DEF Renumbered
<1> QED BY <1>2, <1>4, OtherWrites

(* The reconciler takes a deleted object from the store; requests that     *)
(* hold it keep their pointer.                                             *)
LEMMA DeleteFromStoreStep == ASSUME APIInv, NEW n \in Service, DeleteFromStore(n) PROVE APIInv'
<1>1. /\ heap' = heap /\ unseen' = unseen \ {n} /\ req' = req /\ mixed' = mixed /\ api' = api
      /\ store' = [store EXCEPT ![n] = NoObject]
  BY DEF DeleteFromStore
<1>2. VersionsTell' /\ \A i \in 1..Len(heap), m \in Service : SameVersion(i, m)' => SameVersion(i, m) /\ api'[m] = api[m]
  <2>1. unseen' \subseteq unseen
    BY <1>1
  <2> QED BY <1>1, <2>1, NoWrite DEF APIInv
<1>3. DOMAIN store' = Service /\ \A m \in Service : store'[m] = store[m] \/ store'[m] = NoObject
  BY <1>1 DEF APIInv, APITyped
<1>4. DOMAIN api' = Service /\ \A m \in Service : api'[m] = api[m]
  BY <1>1 DEF APIInv, APITyped
<1> QED BY <1>1, <1>2, <1>3, <1>4, QuietOther

(* Nothing of what the invariant is about changes.                         *)
LEMMA SameState ==
    ASSUME APIInv, heap' = heap, unseen' = unseen, req' = req, mixed' = mixed, api' = api, store' = store
    PROVE  APIInv'
<1>1. VersionsTell' /\ \A i \in 1..Len(heap), m \in Service : SameVersion(i, m)' => SameVersion(i, m) /\ api'[m] = api[m]
  BY NoWrite DEF APIInv
<1>2. DOMAIN store' = Service /\ DOMAIN api' = Service
  BY DEF APIInv, APITyped
<1> QED BY <1>1, <1>2, QuietOther

(* The reconciler writes the status of an object and takes the version     *)
(* that comes back.                                                        *)
LEMMA ReportStatusStep == ASSUME APIInv, NEW n \in Service, ReportStatus(n) PROVE APIInv'
<1>1. PICK k, o, x : k = store[n] /\ o = [api[n] EXCEPT !.version = NextVersion]
                       /\ x = [heap[k] EXCEPT !.version = NextVersion]
  OBVIOUS
<1>2. /\ InKubernetes(n) /\ k # NoObject /\ heap[k].version = api[n].version
      /\ api' = [api EXCEPT ![n] = o] /\ heap' = [heap EXCEPT ![k] = x]
      /\ req' = req /\ unseen' = unseen /\ mixed' = mixed /\ store' = store
  BY <1>1 DEF ReportStatus, Written
<1>3. k \in 1..Len(heap) /\ SameVersion(k, n)
  BY <1>1, <1>2 DEF APIInv, APITyped, SameVersion
<1>4. NextVersion \in Nat /\ IsObject(api[n]) /\ IsObject(heap[k])
  BY <1>2, <1>3, NextVersionFresh DEF APIInv, APITyped
<1>5. Renumbered(api[n], o, NextVersion) /\ Renumbered(heap[k], x, NextVersion)
  BY <1>1, <1>4, RenumberedFacts
<1>6. IsObject(o) /\ IsObject(x) /\ x.editable = heap[k].editable
  BY <1>5 DEF Renumbered
<1>7. Put(heap, heap', k, x)
  <2>1. Put(heap, [heap EXCEPT ![k] = x], k, x)
    BY <1>3, PutFacts DEF APIInv, APITyped
  <2> QED BY <1>2, <2>1
<1>8. HeapKept /\ Len(heap') = Len(heap)
  BY <1>3, <1>6, <1>7, PutKept DEF APIInv
<1>9. VersionsTell' /\ SpecsFollow'
  <2>1. APITyped /\ VersionsTell /\ SpecsFollow
    BY DEF APIInv
  <2> QED BY <1>2, <1>3, <1>5, <1>7, <2>1, StatusStep
<1>10. APITyped'
  <2>1. DOMAIN api' = Service /\ \A m \in Service : api'[m] = api[m] \/ IsObject(api'[m])
    BY <1>2, <1>6 DEF APIInv, APITyped
  <2>2. DOMAIN req' = Client /\ \A d \in Client : req'[d] = req[d]
    BY <1>2 DEF APIInv, APITyped
  <2>3. DOMAIN store' = Service /\ mixed' \subseteq 1..Len(heap')
    BY <1>2, <1>8 DEF APIInv, APITyped
  <2> QED BY <1>2, <1>8, <2>1, <2>2, <2>3, TypesKept DEF APIInv
<1> QED BY <1>9, <1>10 DEF APIInv

(* The reconciler stores what Kubernetes has as a new object, or keeps the *)
(* stored one because the two are equal.                                   *)
LEMMA ApplyVirtualServiceStep == ASSUME APIInv, NEW n \in Service, ApplyVirtualService(n) PROVE APIInv'
<1>1. InKubernetes(n) /\ api' = api /\ req' = req /\ mixed' = mixed
  BY DEF ApplyVirtualService
<1>2. CASE heap' = heap /\ store' = store /\ unseen' = unseen
  BY <1>1, <1>2, SameState
<1>3. CASE heap' = Append(heap, api[n]) /\ store' = [store EXCEPT ![n] = Len(heap')] /\ unseen' = unseen \ {n}
  <2>1. Pushed(heap, heap', api[n])
    <3>1. Pushed(heap, Append(heap, api[n]), api[n])
      BY PushFacts DEF APIInv, APITyped
    <3> QED BY <1>3, <3>1
  <2>2. VersionsTell' /\ SpecsFollow'
    BY <1>1, <1>3, <2>1, PushStep DEF APIInv
  <2>3. HeapKept /\ Len(heap') \in 1..Len(heap') /\ 1..Len(heap) \subseteq 1..Len(heap')
    BY <1>1, <2>1, PushKept DEF APIInv, APITyped
  <2>4. DOMAIN store' = Service /\ \A m \in Service : store'[m] = store[m] \/ store'[m] \in 1..Len(heap')
    BY <1>3, <2>3 DEF APIInv, APITyped
  <2>5. DOMAIN req' = Client /\ (\A d \in Client : req'[d] = req[d]) /\ mixed' \subseteq 1..Len(heap')
    BY <1>1, <2>3 DEF APIInv, APITyped
  <2>6. DOMAIN api' = Service /\ \A m \in Service : api'[m] = api[m]
    BY <1>1 DEF APIInv, APITyped
  <2>7. APITyped'
    BY <2>3, <2>4, <2>5, <2>6, TypesKept DEF APIInv
  <2> QED BY <2>2, <2>7 DEF APIInv
<1> QED BY <1>2, <1>3 DEF ApplyVirtualService

(* The first state and every step.                                         *)
LEMMA APIInitially == APIInit => APIInv
<1> SUFFICES ASSUME APIInit PROVE APIInv
  OBVIOUS
<1>1. IsSeq(heap) /\ 1..Len(heap) = {}
  <2>1. heap \in Seq({}) /\ Len(heap) = 0
    BY SMT DEF APIInit
  <2> QED BY <2>1, SMT DEF IsSeq
<1>2. (\A n \in Service : ~ InKubernetes(n)) /\ DOMAIN api = Service /\ mixed = {}
  BY DEF APIInit, InKubernetes
<1>3. DOMAIN store = Service /\ \A n \in Service : store[n] = NoObject
  BY DEF APIInit
<1>4. DOMAIN req = Client /\ \A c \in Client : RequestOK(req[c])
  BY IdleFacts DEF APIInit
<1>5. APITyped
  BY <1>1, <1>2, <1>3, <1>4 DEF APITyped
<1>6. VersionsTell
  BY <1>1, <1>2 DEF VersionsTell, VersionsUnique, UnseenNewer, SameEditable
<1>7. SpecsFollow
  BY <1>1 DEF SpecsFollow
<1> QED BY <1>5, <1>6, <1>7 DEF APIInv

(* A step of a request that is on its way.                                 *)
RequestStep(c) ==
    \/ processTemplate(c) \/ processListener(c) \/ processVirtualHost(c)
    \/ processAccessLogConfigs(c) \/ processAdditionalRoutes(c)
    \/ processAdditionalHTTPFilters(c) \/ Build(c)

(* Every step of clients, reconciler and others keeps the invariant.       *)
LEMMA APINextStep == APIInv /\ [APINext]_apiVars => APIInv'
<1> SUFFICES ASSUME APIInv, [APINext]_apiVars PROVE APIInv'
  OBVIOUS
<1>1. ASSUME NEW n \in Service,
             ApplyVirtualService(n) \/ DeleteFromStore(n) \/ Apply(n) \/ Touch(n) \/ ReportStatus(n)
      PROVE  APIInv'
  BY <1>1, ApplyVirtualServiceStep, DeleteFromStoreStep, ApplyStep, TouchStep, ReportStatusStep
<1>2. ASSUME NEW x \in Resource, ChangeResource(x)
      PROVE  APIInv'
  <2>1. heap' = heap /\ unseen' = unseen /\ req' = req /\ mixed' = mixed /\ api' = api /\ store' = store
    BY <1>2 DEF ChangeResource
  <2> QED BY <2>1, SameState
<1>3. ASSUME NEW c \in Client, NEW r \in Creations, StartCreate(c, r)
      PROVE  APIInv'
  BY <1>3, StartCreateStep
<1>4. ASSUME NEW c \in Client, NEW n \in Service, NEW body \in Updates, StartUpdate(c, n, body)
      PROVE  APIInv'
  BY <1>4, StartUpdateStep
<1>5. ASSUME NEW c \in Client, NEW n \in Service, StartDelete(c, n)
      PROVE  APIInv'
  BY <1>5, StartDeleteStep
<1>6. ASSUME NEW c \in Client, RequestStep(c)
      PROVE  APIInv'
  BY <1>6, TemplateStep, ListenerStep, VirtualHostStep, LogConfigsStep, RoutesStep, FiltersStep, BuildStep
     DEF RequestStep
<1>7. ASSUME NEW c \in Client, CommitCreate(c) \/ CommitUpdate(c) \/ CommitDelete(c)
      PROVE  APIInv'
  BY <1>7, CommitCreateStep, CommitUpdateStep, CommitDeleteStep
<1>8. CASE UNCHANGED apiVars
  BY <1>8, SameState DEF apiVars
<1>9. CASE APINext
  BY <1>9, <1>1, <1>2, <1>3, <1>4, <1>5, <1>6, <1>7 DEF APINext, RequestStep
<1> QED BY <1>8, <1>9

(* The invariant that ties versions, objects and requests together holds   *)
(* in every state.                                                         *)
LEMMA APIAlways == APISpec => []APIInv
BY APIInitially, APINextStep, PTL DEF APISpec

-----------------------------------------------------------------------------
(* What an accepted request writes.                                        *)

(* A request that is done has settled every field.                         *)
LEMMA HalfDone == ASSUME NEW old, NEW body PROVE Half(old, body, "commit") = Requested(old, body)
<1>1. Done("commit") = Fields
  BY DoneFacts
<1>2. Half(old, body, "commit") = [f \in Fields |-> Requested(old, body)[f]]
  BY <1>1 DEF Half
<1>3. Requested(old, body) = [f \in Fields |-> Requested(old, body)[f]]
  BY DEF Requested
<1> QED BY <1>2, <1>3

(* A request that ends while Kubernetes changes is one that commits.       *)
LEMMA WhoCommits ==
    ASSUME APIInv, APINext, NEW c \in Client, req[c] # Idle, req'[c] = Idle, api' # api
    PROVE  CommitCreate(c) \/ CommitUpdate(c) \/ CommitDelete(c)
<1>1. ASSUME NEW n \in Service,
             ApplyVirtualService(n) \/ DeleteFromStore(n) \/ Apply(n) \/ Touch(n) \/ ReportStatus(n)
      PROVE  FALSE
  <2>1. req' = req
    BY <1>1 DEF ApplyVirtualService, DeleteFromStore, Apply, Touch, ReportStatus
  <2> QED BY <2>1
<1>2. ASSUME NEW x \in Resource, ChangeResource(x)
      PROVE  FALSE
  BY <1>2 DEF ChangeResource
<1>3. ASSUME NEW d \in Client, \/ \E r \in Creations : StartCreate(d, r)
                               \/ \E n \in Service, body \in Updates : StartUpdate(d, n, body)
                               \/ \E n \in Service : StartDelete(d, n)
      PROVE  FALSE
  BY <1>3 DEF StartCreate, StartUpdate, StartDelete
<1>4. ASSUME NEW d \in Client, RequestStep(d)
      PROVE  FALSE
  <2>1. UNCHANGED Others
    BY <1>4 DEF RequestStep, processTemplate, processListener, processVirtualHost, processAccessLogConfigs,
                processAdditionalRoutes, processAdditionalHTTPFilters, Build
  <2> QED BY <2>1 DEF Others
<1>5. ASSUME NEW d \in Client, CommitCreate(d) \/ CommitUpdate(d) \/ CommitDelete(d)
      PROVE  d = c
  <2>1. req' = [req EXCEPT ![d] = Idle]
    BY <1>5 DEF CommitCreate, CommitUpdate, CommitDelete, Refuse, Leave
  <2> QED BY <2>1 DEF APIInv, APITyped
<1> QED BY <1>1, <1>2, <1>3, <1>4, <1>5 DEF APINext, RequestStep

(* An update that Kubernetes accepts.                                      *)
LEMMA UpdateFacts ==
    ASSUME APIInv, APINext, NEW c \in Client, UpdateAccepted(c)
    PROVE  /\ req[c].name \notin unseen
           /\ api[req[c].name].editable /\ api'[req[c].name].editable
           /\ req[c].ptr \notin mixed =>
                 api'[req[c].name].spec = Requested(api[req[c].name].spec, req[c].body)
<1>0. PICK k, n : k = req[c].ptr /\ n = req[c].name
  OBVIOUS
<1>1. req[c].op = "update" /\ req'[c] = Idle /\ api' # api
  BY DEF UpdateAccepted
<1>2. CommitUpdate(c)
  <2>1. req[c] # Idle
    BY <1>1, IdleFacts
  <2>2. ~ CommitCreate(c)
    BY <1>1 DEF CommitCreate
  <2>3. ~ CommitDelete(c)
    BY <1>1, CommitDeleteFacts DEF Deleting
  <2> QED BY <1>1, <2>1, <2>2, <2>3, WhoCommits
<1>3. Accepted(c)
  BY <1>1, <1>2 DEF CommitUpdate, Accepted
<1>4. k \in 1..Len(heap) /\ n \in Service /\ Target(c) = heap[k] /\ IsObject(heap[k]) /\ req[c].pc = "commit"
  BY <1>0, <1>2, CommitUpdateFacts DEF APIInv, APITyped
<1>5. heap[k].editable
  BY <1>0, <1>2, CommitUpdateFacts DEF Updating
<1>6. SameVersion(k, n)
  BY <1>0, <1>3, <1>4 DEF Accepted, SameVersion
<1>7. PICK o : o = [heap[k] EXCEPT !.version = NextVersion]
  OBVIOUS
<1>8. api'[n] = o
  <2>1. api' = [api EXCEPT ![n] = o]
    BY <1>0, <1>2, <1>3, <1>4, <1>7 DEF Accepted, CommitUpdate, Written
  <2> QED BY <1>4, <2>1 DEF APIInv, APITyped
<1>9. o.spec = heap[k].spec /\ o.editable = heap[k].editable
  BY <1>4, <1>7, NextVersionFresh, RenumberedFacts DEF Renumbered, APIInv
<1>10. n \notin unseen /\ heap[k].editable = api[n].editable
  BY <1>4, <1>6 DEF APIInv, VersionsTell, UnseenNewer, SameEditable
<1>11. ASSUME k \notin mixed
       PROVE  api'[n].spec = Requested(api[n].spec, req[c].body)
  <2>1. HalfWay(k)
    BY <1>4, <1>11 DEF APIInv, SpecsFollow, Follows
  <2>2. heap[k].spec = Half(api[n].spec, req[c].body, "commit")
    BY <1>0, <1>4, <1>6, <2>1 DEF HalfWay
  <2> QED BY <1>8, <1>9, <2>2, HalfDone
<1>12. api[n].editable /\ api'[n].editable
  BY <1>5, <1>8, <1>9, <1>10
<1> QED BY <1>0, <1>10, <1>11, <1>12

(* A creation that Kubernetes accepts.                                     *)
LEMMA CreateFacts ==
    ASSUME APIInv, APINext, NEW c \in Client, CreateAccepted(c)
    PROVE  /\ ~ InKubernetes(req[c].name)
           /\ api'[req[c].name].spec = Requested(EmptySpec, req[c].body)
<1>1. req[c].op = "create" /\ req'[c] = Idle /\ api' # api
  BY DEF CreateAccepted
<1>2. CommitCreate(c)
  <2>1. req[c] # Idle
    BY <1>1, IdleFacts
  <2>2. ~ CommitUpdate(c)
    BY <1>1 DEF CommitUpdate
  <2>3. ~ CommitDelete(c)
    BY <1>1, CommitDeleteFacts DEF Deleting
  <2> QED BY <1>1, <2>1, <2>2, <2>3, WhoCommits
<1>3. ~ InKubernetes(req[c].name)
  BY <1>1, <1>2 DEF CommitCreate
<1>4. Creating(req[c]) /\ req[c].pc = "commit"
  <2>1. req[c].pc = "commit" /\ "commit" \in Steps
    BY <1>2 DEF CommitCreate, Works, Steps
  <2> QED BY <1>1, <2>1, AtWork DEF Updating, APIInv
<1>5. IsObject(req[c].own) /\ req[c].own.spec = Half(EmptySpec, req[c].body, "commit") /\ req[c].name \in Service
  BY <1>4 DEF Creating
<1>6. PICK o : o = [req[c].own EXCEPT !.version = NextVersion]
  OBVIOUS
<1>7. api'[req[c].name] = o
  BY <1>2, <1>3, <1>5, <1>6 DEF CommitCreate, Written, APIInv, APITyped
<1>8. o.spec = req[c].own.spec
  BY <1>5, <1>6, NextVersionFresh, RenumberedFacts DEF Renumbered, APIInv
<1> QED BY <1>3, <1>5, <1>7, <1>8, HalfDone

(* UpdateVirtualService never undoes a change that others made and that    *)
(* the store does not have, and changes nothing that is not editable in    *)
(* Kubernetes.                                                             *)
THEOREM UpdatesKeepOthers == APISpec => UpdatesKeep
<1>1. APIInv /\ [APINext]_apiVars =>
        [\A c \in Client : UpdateAccepted(c) => req[c].name \notin unseen]_apiVars
  BY UpdateFacts
<1>2. APIInv /\ [APINext]_apiVars =>
        [\A c \in Client : UpdateAccepted(c) =>
           /\ api[req[c].name].editable
           /\ api'[req[c].name].editable]_apiVars
  BY UpdateFacts
<1> QED BY <1>1, <1>2, APIAlways, PTL DEF APISpec, UpdatesKeep, ForeignChangesKept, EditableRespected

(* What CreateVirtualService reports as done is what the request asked     *)
(* for, under a name that was free; so is what UpdateVirtualService does,  *)
(* on top of what Kubernetes had, to an object that no other request and   *)
(* no failed one has touched.                                              *)
THEOREM RequestsWriteWhatTheyAsk == APISpec => WritesAsRequested
<1>1. APIInv /\ [APINext]_apiVars =>
        [\A c \in Client : CreateAccepted(c) =>
           /\ ~ InKubernetes(req[c].name)
           /\ api'[req[c].name].spec = Requested(EmptySpec, req[c].body)]_apiVars
  BY CreateFacts
<1>2. APIInv /\ [APINext]_apiVars =>
        [\A c \in Client : UpdateAccepted(c) /\ req[c].ptr \notin mixed =>
           api'[req[c].name].spec = Requested(api[req[c].name].spec, req[c].body)]_apiVars
  BY UpdateFacts
<1> QED BY <1>1, <1>2, APIAlways, PTL DEF APISpec, WritesAsRequested, CreateAsRequested, LoneUpdateAsRequested
=============================================================================
