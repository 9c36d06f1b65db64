--------------------------- MODULE CacheAPIProofs ---------------------------
(***************************************************************************)
(* What the REST API answers, for any nodes, contents, clients and         *)
(* requests, while snapshots are replaced and cleared between its reads.   *)
(***************************************************************************)
EXTENDS CacheAPI, FiniteSetTheorems, TLAPS

(* Steps are first-order reasoning unless they name another prover.        *)
USE Zenon

-----------------------------------------------------------------------------
(* The overview.                                                           *)

InDanger == {"warning", "critical", "expired"}

(* A certificate is in danger when fewer than 31 days are left.            *)
LEMMA StatusOfHours ==
    ASSUME NEW h \in Int
    PROVE  calculateCertStatus(daysUntilExpiry(h)) \in InDanger <=> h < 31 * 24
<1>1. CASE h >= 0
  <2> DEFINE d == h \div 24
  <2>1. daysUntilExpiry(h) = d
    BY <1>1 DEF daysUntilExpiry
  <2>2. d \in Int /\ d >= 0 /\ (d <= 30 <=> h < 31 * 24)
    BY <1>1, SMT
  <2> HIDE DEF d
  <2>3. calculateCertStatus(d) \in InDanger <=> d <= 30
    BY <2>2, SMT DEF calculateCertStatus, InDanger
  <2> QED BY <2>1, <2>2, <2>3
<1>2. CASE ~(h >= 0)
  <2> DEFINE d == -((-h) \div 24)
  <2>1. daysUntilExpiry(h) = d
    BY <1>2 DEF daysUntilExpiry
  <2>2. d \in Int /\ d <= 0 /\ h < 31 * 24
    BY <1>2, SMT
  <2> HIDE DEF d
  <2>3. calculateCertStatus(d) \in InDanger
    BY <2>2, SMT DEF calculateCertStatus, InDanger
  <2> QED BY <2>1, <2>2, <2>3
<1> QED BY <1>1, <1>2

(* A set every element of which is the value of a function at an element   *)
(* of a finite set is finite.                                              *)
LEMMA ImageIsFinite ==
    ASSUME NEW S, IsFiniteSet(S), NEW T, NEW f \in [S -> T], \A t \in T : \E s \in S : f[s] = t
    PROVE  IsFiniteSet(T)
<1>1. f \in Surjection(S, T)
  BY DEF Surjection
<1> QED BY <1>1, FS_Surjection

\* The domains of the endpoints that show a certificate.
UsedIn(endpoints, c) == {e.domain : e \in {x \in endpoints : c.name \in x.certificate}}

CertificatesFit(certs, endpoints, list) ==
  /\ \A c \in certs : \E k \in list : k.name = c.name /\ k.usedBy = UsedIn(endpoints, c)
  /\ \A k \in list : \E c \in certs : k.name = c.name /\ k.usedBy = UsedIn(endpoints, c)

(* The certificates of an overview: finitely many, each with the status of *)
(* its remaining hours.                                                    *)
LEMMA CertificateFacts ==
    ASSUME NEW secrets, IsFiniteSet(secrets), \A s \in secrets : IsSecret(s), NEW endpoints
    PROVE  LET certs == buildCertificateInfoMap(secrets)
               list  == buildCertificatesList(certs, endpoints)
           IN  /\ IsFiniteSet(list)
               /\ \A k \in list : k.hours \in Int /\ k.status = calculateCertStatus(daysUntilExpiry(k.hours))
               /\ CertificatesFit(certs, endpoints, list)
<1> DEFINE Tls == {t \in secrets : t.kind = "tls" /\ t.parses}
           Cert(s) == [name |-> s.name, hours |-> s.hours, status |-> calculateCertStatus(daysUntilExpiry(s.hours))]
           certs == buildCertificateInfoMap(secrets)
           Used(c) == UsedIn(endpoints, c)
           Entry(c) == [name |-> c.name, hours |-> c.hours, status |-> c.status, usedBy |-> Used(c)]
           list == buildCertificatesList(certs, endpoints)
<1>1. certs = {Cert(s) : s \in Tls} /\ list = {Entry(c) : c \in certs}
  BY DEF buildCertificateInfoMap, buildCertificatesList, UsedIn
<1>2. IsFiniteSet(Tls)
  BY FS_Subset
<1>3. IsFiniteSet(certs)
  <2> DEFINE f == [s \in Tls |-> Cert(s)]
  <2> HIDE DEF Tls, Cert, certs
  <2>1. f \in [Tls -> certs] /\ \A c \in certs : \E s \in Tls : f[s] = c
    BY <1>1
  <2> HIDE DEF f
  <2> QED BY <1>2, <2>1, ImageIsFinite
<1>4. IsFiniteSet(list)
  <2> DEFINE f == [c \in certs |-> Entry(c)]
  <2> HIDE DEF certs, Entry, list
  <2>1. f \in [certs -> list] /\ \A k \in list : \E c \in certs : f[c] = k
    BY <1>1
  <2> HIDE DEF f
  <2> QED BY <1>3, <2>1, ImageIsFinite
<1>5. \A c \in certs : c.hours \in Int /\ c.status = calculateCertStatus(daysUntilExpiry(c.hours))
  <2> TAKE c \in certs
  <2>1. PICK s \in Tls : c = Cert(s)
    BY <1>1
  <2>2. s.hours \in Int
    BY DEF IsSecret
  <2>3. c.hours = s.hours /\ c.status = calculateCertStatus(daysUntilExpiry(s.hours))
    BY <2>1, SMT
  <2> QED BY <2>2, <2>3
<1>6. \A c \in certs : Entry(c).name = c.name /\ Entry(c).hours = c.hours /\ Entry(c).status = c.status /\ Entry(c).usedBy = Used(c)
  <2> HIDE DEF Used
  <2> QED BY SMT
<1>7. \A k \in list : \E c \in certs : k = Entry(c)
  BY <1>1
<1>8. \A c \in certs : Entry(c) \in list
  BY <1>1
<1> HIDE DEF certs, list, Entry, Used
<1>9. /\ IsFiniteSet(list)
      /\ \A k \in list : k.hours \in Int /\ k.status = calculateCertStatus(daysUntilExpiry(k.hours))
      /\ \A c \in certs : \E k \in list : k.name = c.name /\ k.usedBy = Used(c)
      /\ \A k \in list : \E c \in certs : k.name = c.name /\ k.usedBy = Used(c)
  <2>1. \A k \in list : k.hours \in Int /\ k.status = calculateCertStatus(daysUntilExpiry(k.hours))
    <3> TAKE k \in list
    <3>1. PICK c \in certs : k = Entry(c)
      BY <1>7
    <3>2. k.hours = c.hours /\ k.status = c.status
      BY <1>6, <3>1
    <3> QED BY <1>5, <3>2
  <2>2. \A c \in certs : \E k \in list : k.name = c.name /\ k.usedBy = Used(c)
    BY <1>6, <1>8
  <2>3. \A k \in list : \E c \in certs : k.name = c.name /\ k.usedBy = Used(c)
    BY <1>6, <1>7
  <2> QED BY <1>4, <2>1, <2>2, <2>3
<1>10. CertificatesFit(certs, endpoints, list)
  BY <1>9 DEF CertificatesFit, Used
<1> QED BY <1>9, <1>10 DEF certs, list

(* What an endpoint shows is the name of a certificate.                    *)
LEMMA EndpointFacts ==
    ASSUME NEW listeners, NEW certs, NEW e \in extractEndpoints(listeners, certs), NEW x \in e.certificate
    PROVE  \E c \in certs : c.name = x
<1>1. PICK l \in listeners : e \in UNION {{[listener |-> l.name, chain |-> l.chains[i].name, at |-> j,
                  domain |-> getDomainsFromFilterChain(l.chains[i])[j],
                  protocol |-> determineProtocol(l.chains[i]),
                  certificate |-> {c.name : c \in Named(certs, extractSecretName(l.chains[i]))}] :
                   j \in DOMAIN getDomainsFromFilterChain(l.chains[i])} :
                i \in DOMAIN l.chains}
  BY DEF extractEndpoints
<1>2. PICK i \in DOMAIN l.chains : \E j \in DOMAIN getDomainsFromFilterChain(l.chains[i]) :
        e = [listener |-> l.name, chain |-> l.chains[i].name, at |-> j,
                  domain |-> getDomainsFromFilterChain(l.chains[i])[j],
                  protocol |-> determineProtocol(l.chains[i]),
                  certificate |-> {c.name : c \in Named(certs, extractSecretName(l.chains[i]))}]
  BY <1>1
<1>3. e.certificate = {c.name : c \in Named(certs, extractSecretName(l.chains[i]))}
  BY <1>2, SMT
<1> QED BY <1>3 DEF Named

(* The certificates of the three statuses in danger are counted once each. *)
LEMMA InDangerCount ==
    ASSUME NEW list, IsFiniteSet(list),
           \A k \in list : k.hours \in Int /\ k.status = calculateCertStatus(daysUntilExpiry(k.hours))
    PROVE  Cardinality({k \in list : k.status = "warning"}) + Cardinality({k \in list : k.status = "critical"})
             + Cardinality({k \in list : k.status = "expired"})
             = Cardinality({k \in list : k.hours < 31 * 24})
<1> DEFINE W == {k \in list : k.status = "warning"}
           C == {k \in list : k.status = "critical"}
           E == {k \in list : k.status = "expired"}
           D == {k \in list : k.hours < 31 * 24}
<1>1. IsFiniteSet(W) /\ IsFiniteSet(C) /\ IsFiniteSet(E)
  BY FS_Subset
<1>2. W \cap C = {} /\ (W \cup C) \cap E = {}
  OBVIOUS
<1>3. D = (W \cup C) \cup E
  BY StatusOfHours DEF InDanger
<1> HIDE DEF W, C, E, D
<1>4. IsFiniteSet(W \cup C) /\ Cardinality(W \cup C) = Cardinality(W) + Cardinality(C) - Cardinality(W \cap C)
  BY <1>1, FS_Union
<1>5. Cardinality(D) = Cardinality(W \cup C) + Cardinality(E) - Cardinality((W \cup C) \cap E)
  BY <1>1, <1>3, <1>4, FS_Union
<1>6. Cardinality(W) \in Nat /\ Cardinality(C) \in Nat /\ Cardinality(E) \in Nat
  BY <1>1, FS_CardinalityType
<1>7. Cardinality(W \cap C) = 0 /\ Cardinality((W \cup C) \cap E) = 0
  BY <1>2, FS_EmptySet
<1>8. Cardinality(W) + Cardinality(C) + Cardinality(E) = Cardinality(D)
  BY <1>4, <1>5, <1>6, <1>7, SMT
<1> QED BY <1>8 DEF W, C, E, D

(* The parts of an overview agree, whichever reads it is assembled from.   *)
LEMMA OverviewFacts ==
    ASSUME NEW r, NEW secrets, IsFiniteSet(secrets), \A s \in secrets : IsSecret(s)
    PROVE  /\ PartsAgree(Overview(r, secrets))
           /\ Overview(r, secrets).versions = r.versions
           /\ Overview(r, secrets).listenersOf = r.listenersOf
<1> DEFINE certs == buildCertificateInfoMap(secrets)
           endpoints == extractEndpoints(r.listeners, certs)
           list == buildCertificatesList(certs, endpoints)
           o == Overview(r, secrets)
<1>1. /\ o.versions = r.versions /\ o.listenersOf = r.listenersOf
      /\ o.endpoints = endpoints /\ o.certificates = list
      /\ o.summary = calculateSummary(endpoints, list)
  <2> HIDE DEF certs, endpoints, list
  <2> QED BY SMT DEF Overview, certs, endpoints, list
<1>2. /\ IsFiniteSet(list)
      /\ \A k \in list : k.hours \in Int /\ k.status = calculateCertStatus(daysUntilExpiry(k.hours))
  BY CertificateFacts
<1>3. CertificatesFit(certs, endpoints, list)
  BY CertificateFacts
<1>5. \A e \in endpoints : \A x \in e.certificate : \E c \in certs : c.name = x
  BY EndpointFacts
<1> HIDE DEF certs, endpoints, list
<1>6. \A e \in endpoints : \A x \in e.certificate : \E k \in list : k.name = x /\ e.domain \in k.usedBy
  <2> TAKE e \in endpoints
  <2> TAKE x \in e.certificate
  <2>1. PICK c \in certs : c.name = x
    BY <1>5
  <2>2. PICK k \in list : k.name = c.name /\ k.usedBy = UsedIn(endpoints, c)
    BY <1>3 DEF CertificatesFit
  <2> QED BY <2>1, <2>2 DEF UsedIn
<1>7. \A k \in list : \A d \in k.usedBy : \E e \in endpoints : e.domain = d /\ k.name \in e.certificate
  <2> TAKE k \in list
  <2> TAKE d \in k.usedBy
  <2>1. PICK c \in certs : k.name = c.name /\ k.usedBy = UsedIn(endpoints, c)
    BY <1>3 DEF CertificatesFit
  <2>2. PICK e \in endpoints : d = e.domain /\ c.name \in e.certificate
    BY <2>1 DEF UsedIn
  <2> QED BY <2>1, <2>2
<1>8. Cardinality({k \in list : k.status = "warning"}) + Cardinality({k \in list : k.status = "critical"})
        + Cardinality({k \in list : k.status = "expired"}) = Cardinality({k \in list : k.hours < 31 * 24})
  BY <1>2, InDangerCount
<1>9. /\ calculateSummary(endpoints, list).warning = Cardinality({k \in list : k.status = "warning"})
      /\ calculateSummary(endpoints, list).critical = Cardinality({k \in list : k.status = "critical"})
      /\ calculateSummary(endpoints, list).expired = Cardinality({k \in list : k.status = "expired"})
  BY DEF calculateSummary
<1> HIDE DEF o
<1>10. /\ o.summary.warning + o.summary.critical + o.summary.expired
            = Cardinality({k \in o.certificates : k.hours < 31 * 24})
  BY <1>1, <1>8, <1>9
<1>11. \A e \in o.endpoints : \A x \in e.certificate :
         \E k \in o.certificates : k.name = x /\ e.domain \in k.usedBy
  BY <1>1, <1>6
<1>12. \A k \in o.certificates : \A d \in k.usedBy :
         \E e \in o.endpoints : e.domain = d /\ k.name \in e.certificate
  BY <1>1, <1>7
<1>13. PartsAgree(o)
  BY <1>10, <1>11, <1>12 DEF PartsAgree
<1> QED BY <1>1, <1>13 DEF o

-----------------------------------------------------------------------------
(* The invariant.                                                          *)

Fine(o) == o.versions <= o.listenersOf /\ PartsAgree(o)

OverviewSteps == {"cached", "upgrade", "versions", "listeners", "secrets", "store"}

\* What holds of a request in flight, by the step it is at.
RequestFine(r, snaps, pub) ==
  /\ r.pc = "read" => r.rq.op = "resourceVersions" \/ r.rq.node \in Node
  /\ r.pc \in OverviewSteps => r.rq.op = "overview" /\ r.rq.node \in Node
  /\ r.pc \in {"cached", "upgrade"} => r = [pc |-> r.pc, rq |-> r.rq]
  /\ r.pc \in {"loop", "locate"} => r = [pc |-> r.pc, rq |-> r.rq, todo |-> r.todo, found |-> r.found]
  /\ r.pc = "locate" => r.rq.op = "locations"
  /\ r.pc = "listeners" => /\ r.versions \in Nat
                           /\ r.versions <= pub
                           /\ snaps[r.rq.node] # NONE => r.versions <= snaps[r.rq.node].gen
  /\ r.pc = "secrets" => r.versions <= r.listenersOf
  /\ r.pc = "store" => Fine(r.response)

AnswerOf(op, code, body) ==
  code = 200 => /\ op = "secrets" => \A s \in body : s.data = "blank"
                /\ op = "overview" => Fine(body)

\* What holds of an answer; there is none before the request is answered.
AnswerFine(r, a) ==
  IF r.pc = "answered" THEN AnswerOf(r.rq.op, a.code, a.body) ELSE a = NONE

SnapshotsFine(snaps, pub) ==
  /\ pub \in Nat
  /\ DOMAIN snaps = Node
  /\ \A n \in Node : snaps[n] # NONE =>
       snaps[n].gen \in Nat /\ snaps[n].gen <= pub /\ snaps[n].config \in Configs

EntriesFine(es) ==
  DOMAIN es = Node /\ \A n \in Node : es[n] # NONE => Fine(es[n].response)

ClientsFine(reqs, answers, snaps, pub) ==
  /\ DOMAIN reqs = Client
  /\ DOMAIN answers = Client
  /\ \A c \in Client : RequestFine(reqs[c], snaps, pub) /\ AnswerFine(reqs[c], answers[c])

CacheInv ==
  /\ SnapshotsFine(snapshots, published)
  /\ blanked = {}
  /\ EntriesFine(entries)
  /\ ClientsFine(inFlight, answer, snapshots, published)

(* A step that answers one request and leaves the snapshots alone.         *)
LEMMA ReplyFine ==
    ASSUME CacheInv, NEW c \in Client, NEW code, NEW body, Reply(c, code, body),
           AnswerOf(inFlight[c].rq.op, code, body), UNCHANGED <<snapshots, published>>
    PROVE  ClientsFine(inFlight', answer', snapshots', published')
<1>1. /\ DOMAIN inFlight = Client /\ DOMAIN answer = Client
      /\ \A d \in Client : RequestFine(inFlight[d], snapshots, published) /\ AnswerFine(inFlight[d], answer[d])
  BY DEF CacheInv, ClientsFine
<1>2. PICK q : q = [pc |-> "answered", rq |-> inFlight[c].rq]
  OBVIOUS
<1>3. PICK a : a = [code |-> code, body |-> body]
  OBVIOUS
<1>4. inFlight' = [inFlight EXCEPT ![c] = q] /\ answer' = [answer EXCEPT ![c] = a]
  BY <1>2, <1>3 DEF Reply
<1>5. q.pc = "answered" /\ q.rq = inFlight[c].rq /\ a.code = code /\ a.body = body
  BY <1>2, <1>3
<1>6. RequestFine(q, snapshots, published)
  BY <1>5, SMT DEF RequestFine, OverviewSteps
<1>7. AnswerFine(q, a)
  BY <1>5 DEF AnswerFine
<1>8. /\ DOMAIN inFlight' = Client /\ DOMAIN answer' = Client
      /\ inFlight'[c] = q /\ answer'[c] = a
      /\ \A d \in Client : d # c => inFlight'[d] = inFlight[d] /\ answer'[d] = answer[d]
  BY <1>1, <1>4
<1> QED BY <1>1, <1>6, <1>7, <1>8 DEF ClientsFine

(* A step that takes one request further and leaves the snapshots alone.   *)
LEMMA ProceedFine ==
    ASSUME CacheInv, NEW c \in Client, NEW r, Proceed(c, r), inFlight[c].pc # "answered",
           r.pc # "answered", RequestFine(r, snapshots, published), UNCHANGED <<snapshots, published>>
    PROVE  ClientsFine(inFlight', answer', snapshots', published')
<1>1. /\ DOMAIN inFlight = Client /\ DOMAIN answer = Client
      /\ \A d \in Client : RequestFine(inFlight[d], snapshots, published) /\ AnswerFine(inFlight[d], answer[d])
  BY DEF CacheInv, ClientsFine
<1>2. inFlight' = [inFlight EXCEPT ![c] = r] /\ answer' = answer
  BY DEF Proceed
<1>3. /\ DOMAIN inFlight' = Client
      /\ inFlight'[c] = r
      /\ \A d \in Client : d # c => inFlight'[d] = inFlight[d]
  BY <1>1, <1>2
<1>4. AnswerFine(r, answer[c])
  BY <1>1 DEF AnswerFine
<1> QED BY <1>1, <1>2, <1>3, <1>4 DEF ClientsFine

-----------------------------------------------------------------------------
(* The steps.                                                              *)

(* At the start there is no snapshot, no entry and no request.             *)
LEMMA CacheStarts == CacheInit => CacheInv
<1> SUFFICES ASSUME CacheInit PROVE CacheInv
  OBVIOUS
<1>1. SnapshotsFine(snapshots, published)
  BY SMT DEF CacheInit, SnapshotsFine
<1>2. EntriesFine(entries)
  BY DEF CacheInit, EntriesFine
<1>3. Idle.pc = "idle"
  BY DEF Idle
<1>4. RequestFine(Idle, snapshots, published) /\ AnswerFine(Idle, NONE)
  <2>1. RequestFine(Idle, snapshots, published)
    BY <1>3, SMT DEF RequestFine, OverviewSteps
  <2>2. AnswerFine(Idle, NONE)
    BY <1>3, SMT DEF AnswerFine
  <2> QED BY <2>1, <2>2
<1>5. ClientsFine(inFlight, answer, snapshots, published)
  BY <1>4 DEF CacheInit, ClientsFine
<1> QED BY <1>1, <1>2, <1>5 DEF CacheInv, CacheInit

(* What a request in flight has read stays no newer than the snapshots     *)
(* when one of them is replaced or cleared.                                *)
LEMMA ReadsStayOld ==
    ASSUME NEW r, NEW snaps, NEW pub \in Nat, NEW snaps2, NEW pub2 \in Nat, pub <= pub2,
           RequestFine(r, snaps, pub),
           \A n \in Node : snaps2[n] = snaps[n] \/ snaps2[n] = NONE
                            \/ (snaps2[n].gen \in Nat /\ pub <= snaps2[n].gen)
    PROVE  RequestFine(r, snaps2, pub2)
<1>1. ASSUME r.pc = "listeners"
      PROVE  /\ r.versions \in Nat
             /\ r.versions <= pub2
             /\ snaps2[r.rq.node] # NONE => r.versions <= snaps2[r.rq.node].gen
  <2>1. /\ r.versions \in Nat
        /\ r.versions <= pub
        /\ snaps[r.rq.node] # NONE => r.versions <= snaps[r.rq.node].gen
    BY <1>1 DEF RequestFine
  <2>2. r.rq.node \in Node
    BY <1>1 DEF RequestFine, OverviewSteps
  <2>3. \/ snaps2[r.rq.node] = snaps[r.rq.node]
        \/ snaps2[r.rq.node] = NONE
        \/ snaps2[r.rq.node].gen \in Nat /\ pub <= snaps2[r.rq.node].gen
    BY <2>2
  <2> QED BY <2>1, <2>3, SMT
<1> QED BY <1>1 DEF RequestFine

(* A new snapshot, or none when its listeners clash.                       *)
LEMMA SetSnapshotStep ==
    ASSUME CacheInv, NEW n \in Node, NEW config \in Configs, SetSnapshot(n, config)
    PROVE  CacheInv'
<1>1. /\ published \in Nat /\ DOMAIN snapshots = Node
      /\ \A m \in Node : snapshots[m] # NONE =>
           snapshots[m].gen \in Nat /\ snapshots[m].gen <= published /\ snapshots[m].config \in Configs
  BY DEF CacheInv, SnapshotsFine
<1>2. published' \in Nat /\ published < published'
  BY <1>1, SMT DEF SetSnapshot
<1>3. PICK v : v = [gen |-> published + 1, config |-> config]
  OBVIOUS
<1>4. v.gen = published' /\ v.config = config
  BY <1>3 DEF SetSnapshot
<1>5. snapshots' = snapshots \/ snapshots' = [snapshots EXCEPT ![n] = v]
  BY <1>3 DEF SetSnapshot
<1>6. DOMAIN snapshots' = Node /\ \A m \in Node : snapshots'[m] = snapshots[m] \/ snapshots'[m] = v
  BY <1>1, <1>5
<1>7. SnapshotsFine(snapshots', published')
  <2> SUFFICES ASSUME NEW m \in Node, snapshots'[m] # NONE
               PROVE  /\ snapshots'[m].gen \in Nat /\ snapshots'[m].gen <= published'
                      /\ snapshots'[m].config \in Configs
    BY <1>2, <1>6 DEF SnapshotsFine
  <2>1. CASE snapshots'[m] = v
    BY <1>2, <1>4, <2>1, SMT
  <2>2. CASE snapshots'[m] = snapshots[m]
    BY <1>1, <1>2, <2>2, SMT
  <2> QED BY <1>6, <2>1, <2>2
<1>8. blanked' = {}
  BY DEF SetSnapshot, CacheInv
<1>9. /\ published <= published'
      /\ \A m \in Node : snapshots'[m] = snapshots[m] \/ snapshots'[m] = NONE
           \/ (snapshots'[m].gen \in Nat /\ published <= snapshots'[m].gen)
  BY <1>1, <1>2, <1>4, <1>6, SMT
<1>10. ClientsFine(inFlight', answer', snapshots', published')
  <2>1. inFlight' = inFlight /\ answer' = answer
    BY DEF SetSnapshot
  <2>2. ASSUME NEW c \in Client, RequestFine(inFlight[c], snapshots, published)
        PROVE  RequestFine(inFlight[c], snapshots', published')
    <3>1. PICK r : r = inFlight[c]
      OBVIOUS
    <3> QED BY <1>1, <1>2, <1>9, <2>2, <3>1, ReadsStayOld
  <2> QED BY <2>1, <2>2 DEF CacheInv, ClientsFine
<1>11. EntriesFine(entries')
  BY DEF CacheInv, SetSnapshot
<1> QED BY <1>7, <1>8, <1>10, <1>11 DEF CacheInv

(* A node of which nothing is served any more.                             *)
LEMMA ClearSnapshotStep ==
    ASSUME CacheInv, NEW n \in Node, ClearSnapshot(n)
    PROVE  CacheInv'
<1>1. /\ published \in Nat /\ DOMAIN snapshots = Node
      /\ \A m \in Node : snapshots[m] # NONE =>
           snapshots[m].gen \in Nat /\ snapshots[m].gen <= published /\ snapshots[m].config \in Configs
  BY DEF CacheInv, SnapshotsFine
<1>2. published' = published /\ snapshots' = [snapshots EXCEPT ![n] = NONE]
  BY DEF ClearSnapshot
<1>3. DOMAIN snapshots' = Node /\ \A m \in Node : snapshots'[m] = snapshots[m] \/ snapshots'[m] = NONE
  BY <1>1, <1>2
<1>4. SnapshotsFine(snapshots', published')
  BY <1>1, <1>2, <1>3 DEF SnapshotsFine
<1>5. blanked' = {}
  BY DEF ClearSnapshot, CacheInv
<1>6. published <= published'
  BY <1>1, <1>2, SMT
<1>7. ClientsFine(inFlight', answer', snapshots', published')
  <2>1. inFlight' = inFlight /\ answer' = answer
    BY DEF ClearSnapshot
  <2>2. ASSUME NEW c \in Client, RequestFine(inFlight[c], snapshots, published)
        PROVE  RequestFine(inFlight[c], snapshots', published')
    <3>1. PICK r : r = inFlight[c]
      OBVIOUS
    <3> QED BY <1>1, <1>2, <1>3, <1>6, <2>2, <3>1, ReadsStayOld
  <2> QED BY <2>1, <2>2 DEF CacheInv, ClientsFine
<1>8. EntriesFine(entries')
  BY DEF CacheInv, ClearSnapshot
<1> QED BY <1>4, <1>5, <1>7, <1>8 DEF CacheInv

(* An answer given without any other change.                               *)
LEMMA QuietReply ==
    ASSUME CacheInv, NEW c \in Client, NEW code, NEW body, Reply(c, code, body),
           AnswerOf(inFlight[c].rq.op, code, body), Quiet
    PROVE  CacheInv'
<1>1. UNCHANGED <<snapshots, published>> /\ blanked' = blanked /\ entries' = entries
  BY DEF Quiet
<1>2. ClientsFine(inFlight', answer', snapshots', published')
  BY <1>1, ReplyFine
<1> QED BY <1>1, <1>2 DEF CacheInv

(* A request taken further without any other change.                       *)
LEMMA QuietProceed ==
    ASSUME CacheInv, NEW c \in Client, NEW r, Proceed(c, r), inFlight[c].pc # "answered",
           r.pc # "answered", RequestFine(r, snapshots, published), Quiet
    PROVE  CacheInv'
<1>1. UNCHANGED <<snapshots, published>> /\ blanked' = blanked /\ entries' = entries
  BY DEF Quiet
<1>2. ClientsFine(inFlight', answer', snapshots', published')
  BY <1>1, ProceedFine
<1> QED BY <1>1, <1>2 DEF CacheInv

\* Answers that neither property is about.
PlainReply(c) ==
  \E code, body : Reply(c, code, body) /\ (inFlight[c].rq.op \notin {"secrets", "overview"} \/ code # 200)

(* An error is such an answer.                                             *)
LEMMA ErrorIsPlain ==
    ASSUME NEW c, NEW code, code # 200, NEW body, Reply(c, code, body)
    PROVE  PlainReply(c)
  BY DEF PlainReply

(* An answer to another request is such an answer.                         *)
LEMMA OtherIsPlain ==
    ASSUME NEW c, inFlight[c].rq.op \notin {"secrets", "overview"}, NEW code, NEW body, Reply(c, code, body)
    PROVE  PlainReply(c)
  BY DEF PlainReply

(* Such an answer keeps the invariant.                                     *)
LEMMA PlainReplyStep ==
    ASSUME CacheInv, NEW c \in Client, PlainReply(c), Quiet
    PROVE  CacheInv'
<1>1. PICK code, body : Reply(c, code, body) /\ (inFlight[c].rq.op \notin {"secrets", "overview"} \/ code # 200)
  BY DEF PlainReply
<1>2. AnswerOf(inFlight[c].rq.op, code, body)
  BY <1>1 DEF AnswerOf
<1> QED BY <1>1, <1>2, QuietReply

(* The handlers that read once and answer no content of a secret.          *)
LEMMA ReadersArePlain ==
    ASSUME NEW c,
           \/ getListeners(c) \/ getClusters(c) \/ getRouteConfigurations(c) \/ getResourceVersions(c)
           \/ getDomains(c)
    PROVE  PlainReply(c) /\ Quiet
<1>0. \A set : ByName(c, set) => \E code : Reply(c, code, NONE)
  BY DEF ByName
<1>1. CASE getListeners(c)
  BY <1>1, <1>0, SMT DEF getListeners, ReadOnce, PlainReply
<1>2. CASE getClusters(c)
  BY <1>2, <1>0, SMT DEF getClusters, ReadOnce, PlainReply
<1>3. CASE getRouteConfigurations(c)
  BY <1>3, <1>0, SMT DEF getRouteConfigurations, ReadOnce, PlainReply
<1>4. CASE getResourceVersions(c)
  BY <1>4, SMT DEF getResourceVersions, ReadOnce, PlainReply
<1>5. CASE getDomains(c)
  BY <1>5, SMT DEF getDomains, ReadOnce, PlainReply
<1> QED BY <1>1, <1>2, <1>3, <1>4, <1>5

(* The handlers about filters.                                             *)
LEMMA FilterHandlersArePlain ==
    ASSUME NEW c,
           \/ getFilterType(c) \/ getFilter(c) \/ getTCPProxyFilters(c)
           \/ getHTTPFilters(c) \/ getHTTPFilterRouter(c) \/ getHTTPFilterRBAC(c)
    PROVE  PlainReply(c) /\ Quiet
<1>1. CASE getFilterType(c)
  BY <1>1, SMT DEF getFilterType, FilterRequest, ReadOnce, PlainReply
<1>2. CASE getFilter(c)
  BY <1>2, SMT DEF getFilter, FilterRequest, ReadOnce, PlainReply
<1>3. CASE getTCPProxyFilters(c)
  BY <1>3, SMT DEF getTCPProxyFilters, FilterRequest, ReadOnce, PlainReply
<1>4. CASE getHTTPFilters(c)
  BY <1>4, SMT DEF getHTTPFilters, FilterRequest, ReadOnce, PlainReply
<1>5. CASE getHTTPFilterRouter(c)
  BY <1>5, SMT DEF getHTTPFilterRouter, FilterRequest, ReadOnce, PlainReply
<1>6. CASE getHTTPFilterRBAC(c)
  BY <1>6, SMT DEF getHTTPFilterRBAC, FilterRequest, ReadOnce, PlainReply
<1> QED BY <1>1, <1>2, <1>3, <1>4, <1>5, <1>6

(* A record of a request that no property follows.                         *)
LEMMA PlainRequest ==
    ASSUME NEW r, r.pc = "nodes"
    PROVE  r.pc # "answered" /\ RequestFine(r, snapshots, published)
  BY SMT DEF RequestFine, OverviewSteps

(* A request that goes over a set of nodes or listeners.                   *)
LEMMA LoopRequest ==
    ASSUME NEW pc \in {"loop", "locate"}, NEW rq, NEW todo, NEW found,
           pc = "locate" => rq.op = "locations",
           NEW r, r = [pc |-> pc, rq |-> rq, todo |-> todo, found |-> found]
    PROVE  r.pc # "answered" /\ RequestFine(r, snapshots, published)
<1>1. r.pc = pc /\ r.rq = rq /\ r.todo = todo /\ r.found = found
  OBVIOUS
<1>2. pc = "loop" \/ pc = "locate"
  OBVIOUS
<1>3. r = [pc |-> r.pc, rq |-> r.rq, todo |-> r.todo, found |-> r.found]
  BY <1>1
<1> QED BY <1>1, <1>2, <1>3, SMT DEF RequestFine, OverviewSteps

(* What is known of the request of a client.                               *)
LEMMA InFlightFine ==
    ASSUME CacheInv, NEW c \in Client
    PROVE  /\ RequestFine(inFlight[c], snapshots, published)
           /\ AnswerFine(inFlight[c], answer[c])
           /\ DOMAIN inFlight = Client /\ DOMAIN answer = Client
  BY DEF CacheInv, ClientsFine

(* A request arrives.                                                      *)
LEMMA CallStep ==
    ASSUME CacheInv, NEW c \in Client, NEW rq, NEW groups, Call(c, rq, groups)
    PROVE  CacheInv'
<1>0. inFlight[c].pc # "answered"
  BY SMT DEF Call
<1>1. CASE groups = NONE
  <2>1. PICK q : q = [pc |-> "answered", rq |-> rq]
    OBVIOUS
  <2>2. PICK a : a = [code |-> 401, body |-> NONE]
    OBVIOUS
  <2>3. inFlight' = [inFlight EXCEPT ![c] = q] /\ answer' = [answer EXCEPT ![c] = a] /\ Quiet
    BY <1>1, <2>1, <2>2 DEF Call
  <2>4. q.pc = "answered" /\ a.code = 401
    BY <2>1, <2>2
  <2>5. RequestFine(q, snapshots, published)
    BY <2>4, SMT DEF RequestFine, OverviewSteps
  <2>6. AnswerFine(q, a)
    BY <2>4, SMT DEF AnswerFine, AnswerOf
  <2>7. /\ DOMAIN inFlight' = Client /\ DOMAIN answer' = Client
        /\ inFlight'[c] = q /\ answer'[c] = a
        /\ \A d \in Client : d # c => inFlight'[d] = inFlight[d] /\ answer'[d] = answer[d]
    BY <2>3, InFlightFine
  <2>8. ClientsFine(inFlight', answer', snapshots, published)
    BY <2>5, <2>6, <2>7 DEF ClientsFine, CacheInv
  <2> QED BY <2>3, <2>8 DEF CacheInv, Quiet
<1>2. CASE groups # NONE
  <2>1. PICK r : r = [pc |-> IF rq.op = "resourceVersions" THEN "read" ELSE "nodes",
                      rq |-> rq, view |-> HandlerFunc(groups)]
    OBVIOUS
  <2>2. Proceed(c, r) /\ Quiet
    BY <1>2, <2>1 DEF Call
  <2>3. r.rq = rq /\ r.pc = IF rq.op = "resourceVersions" THEN "read" ELSE "nodes"
    BY <2>1
  <2>4. r.pc # "answered" /\ RequestFine(r, snapshots, published)
    BY <2>3, SMT DEF RequestFine, OverviewSteps
  <2> QED BY <1>0, <2>2, <2>4, QuietProceed
<1> QED BY <1>1, <1>2

(* The client has its answer.                                              *)
LEMMA ReturnStep ==
    ASSUME CacheInv, NEW c \in Client, Return(c)
    PROVE  CacheInv'
<1>1. inFlight' = [inFlight EXCEPT ![c] = Idle] /\ answer' = [answer EXCEPT ![c] = NONE] /\ Quiet
  BY DEF Return
<1>2. Idle.pc = "idle"
  BY DEF Idle
<1>3. RequestFine(Idle, snapshots, published)
  BY <1>2, SMT DEF RequestFine, OverviewSteps
<1>4. AnswerFine(Idle, NONE)
  BY <1>2, SMT DEF AnswerFine
<1>5. /\ DOMAIN inFlight' = Client /\ DOMAIN answer' = Client
      /\ inFlight'[c] = Idle /\ answer'[c] = NONE
      /\ \A d \in Client : d # c => inFlight'[d] = inFlight[d] /\ answer'[d] = answer[d]
  BY <1>1, InFlightFine
<1>6. ClientsFine(inFlight', answer', snapshots, published)
  BY <1>3, <1>4, <1>5 DEF ClientsFine, CacheInv
<1> QED BY <1>1, <1>6 DEF CacheInv, Quiet

(* The first read: only requests about a node that is there go on.         *)
LEMMA CheckNodeStep ==
    ASSUME CacheInv, NEW c \in Client, CheckNode(c)
    PROVE  CacheInv'
<1> DEFINE rq == inFlight[c].rq
           seen == getAvailableNodeIDs(inFlight[c])
<1>0. inFlight[c].pc # "answered" /\ Quiet
  BY SMT DEF CheckNode
<1>1. CASE rq.op \in OverEveryNode
  <2>1. PICK r : r = [pc |-> "loop", rq |-> rq, todo |-> seen, found |-> {}]
    OBVIOUS
  <2>2. Proceed(c, r)
    BY <1>1, <2>1 DEF CheckNode
  <2>3. r.pc # "answered" /\ RequestFine(r, snapshots, published)
    <3> HIDE DEF rq, seen
    <3>1. "loop" \in {"loop", "locate"} /\ ("loop" = "locate" => rq.op = "locations")
      BY SMT
    <3> QED BY <2>1, <3>1, LoopRequest
  <2> QED BY <1>0, <2>2, <2>3, QuietProceed
<1>2. CASE rq.op \notin OverEveryNode /\ (~ValidParams(rq) \/ rq.node \notin seen)
  <2>1. PICK code : code = IF rq.op \in FilterRequests THEN 500 ELSE 400
    OBVIOUS
  <2>2. Reply(c, code, NONE)
    BY <1>2, <2>1, ZenonT(60) DEF CheckNode
  <2>3. code # 200
    BY <2>1, SMT
  <2>4. PlainReply(c)
    BY <2>2, <2>3 DEF PlainReply
  <2> QED BY <1>0, <2>4, PlainReplyStep
<1>3. CASE rq.op \notin OverEveryNode /\ ~(~ValidParams(rq) \/ rq.node \notin seen)
  <2>1. PICK r : r = [pc |-> IF rq.op = "overview" THEN "cached" ELSE "read", rq |-> rq]
    OBVIOUS
  <2>2. Proceed(c, r)
    BY <1>3, <2>1 DEF CheckNode
  <2>3. rq.node \in Node
    BY <1>3 DEF ValidParams
  <2>4. r.rq = rq /\ ((rq.op = "overview" /\ r.pc = "cached") \/ r.pc = "read") /\ r = [pc |-> r.pc, rq |-> r.rq]
    BY <2>1, SMT
  <2> HIDE DEF rq, seen
  <2>5. r.pc # "answered" /\ RequestFine(r, snapshots, published)
    BY <2>3, <2>4, SMT DEF RequestFine, OverviewSteps
  <2> QED BY <1>0, <2>2, <2>5, QuietProceed
<1> QED BY <1>1, <1>2, <1>3

(* The secrets of a node are answered with their data overwritten, and no  *)
(* published object is.                                                    *)
LEMMA SecretsStep ==
    ASSUME CacheInv, NEW c \in Client, getSecrets(c)
    PROVE  CacheInv'
<1> DEFINE rq == inFlight[c].rq
           secrets == GetSecrets(rq.node)
           wanted == IF rq.name = "" THEN secrets ELSE Named(secrets, rq.name)
<1>0. inFlight[c].pc = "read" /\ rq.op = "secrets"
  BY DEF getSecrets, ReadOnce
<1>1. CASE ~HasSnapshot(rq.node) \/ (rq.name # "" /\ wanted = {})
  <2>1. PICK code : code = 500
    OBVIOUS
  <2>2. Reply(c, code, NONE) /\ Quiet
    BY <1>1, <2>1 DEF getSecrets
  <2>3. code # 200
    BY <2>1, SMT
  <2>4. PlainReply(c)
    BY <2>2, <2>3, ErrorIsPlain
  <2> QED BY <2>2, <2>4, PlainReplyStep
<1>2. CASE ~(~HasSnapshot(rq.node) \/ (rq.name # "" /\ wanted = {}))
  <2>1. Reply(c, 200, Cleared(wanted)) /\ clearSecretData(wanted)
    BY <1>2 DEF getSecrets
  <2>2. rq.node \in Node
    <3>1. rq.op # "resourceVersions"
      BY <1>0, SMT
    <3> QED BY <1>0, <3>1, InFlightFine DEF RequestFine
  <2>3. snapshots[rq.node].config \in Configs
    BY <1>2, <2>2 DEF HasSnapshot, CacheInv, SnapshotsFine
  <2>4. \A s \in wanted : IsSecret(s)
    BY <2>3, ConfigsAssumption DEF GetSecrets, Named
  <2> HIDE DEF wanted
  <2>5. \A s \in wanted : s.ref = NONE /\ [s EXCEPT !.data = "blank"].data = "blank"
    BY <2>4, SMT DEF IsSecret
  <2>6. blanked' = {}
    BY <2>1, <2>5 DEF clearSecretData, CacheInv
  <2>7. \A s \in Cleared(wanted) : s.data = "blank"
    BY <2>5 DEF Cleared
  <2>8. AnswerOf(rq.op, 200, Cleared(wanted))
    BY <1>0, <2>7, SMT DEF AnswerOf
  <2>9. UNCHANGED <<snapshots, published>> /\ entries' = entries
    BY <2>1 DEF clearSecretData
  <2>10. ClientsFine(inFlight', answer', snapshots', published')
    BY <2>1, <2>8, <2>9, ReplyFine
  <2> QED BY <2>6, <2>9, <2>10 DEF CacheInv
<1> QED BY <1>1, <1>2

(* A location request reads its listeners.                                 *)
LEMMA LocationsStep ==
    ASSUME CacheInv, NEW c \in Client, getDomainLocations(c)
    PROVE  CacheInv'
<1> DEFINE rq == inFlight[c].rq
           listeners == DomainListeners(rq)
<1>0. inFlight[c].pc # "answered" /\ rq.op = "locations" /\ Quiet
  BY SMT DEF getDomainLocations, ReadOnce
<1>1. CASE Reply(c, 500, NONE)
  <2>1. PICK code : code = 500
    OBVIOUS
  <2>2. PlainReply(c)
    <3>1. code # 200 /\ Reply(c, code, NONE)
      BY <1>1, <2>1, SMT
    <3> QED BY <3>1, ErrorIsPlain
  <2> QED BY <1>0, <2>2, PlainReplyStep
<1>2. CASE Proceed(c, [pc |-> "locate", rq |-> rq, todo |-> listeners, found |-> {}])
  <2>1. PICK r : r = [pc |-> "locate", rq |-> rq, todo |-> listeners, found |-> {}]
    OBVIOUS
  <2>2. Proceed(c, r)
    BY <1>2, <2>1
  <2>3. r.pc # "answered" /\ RequestFine(r, snapshots, published)
    <3> HIDE DEF rq, listeners
    <3>1. "locate" \in {"loop", "locate"} /\ ("locate" = "locate" => rq.op = "locations")
      BY <1>0
    <3> QED BY <2>1, <3>1, LoopRequest
  <2> QED BY <1>0, <2>2, <2>3, QuietProceed
<1> QED BY <1>1, <1>2 DEF getDomainLocations

(* A request that goes over a set takes one element off it.                *)
LEMMA LoopProceed ==
    ASSUME CacheInv, NEW c \in Client, inFlight[c].pc \in {"loop", "locate"}, NEW todo, NEW found,
           Proceed(c, [pc |-> inFlight[c].pc, rq |-> inFlight[c].rq, todo |-> todo, found |-> found]), Quiet
    PROVE  CacheInv'
<1>1. PICK r : r = [pc |-> inFlight[c].pc, rq |-> inFlight[c].rq, todo |-> todo, found |-> found]
  OBVIOUS
<1>2. inFlight[c].pc # "answered"
  BY SMT
<1>3. inFlight[c].pc = "locate" => inFlight[c].rq.op = "locations"
  BY InFlightFine DEF RequestFine
<1>4. r.pc # "answered" /\ RequestFine(r, snapshots, published)
  BY <1>1, <1>3, LoopRequest
<1>5. Proceed(c, r)
  BY <1>1
<1> QED BY <1>2, <1>4, <1>5, QuietProceed

(* Each listener of a location request, and the end of the request.        *)
LEMMA LocateStep ==
    ASSUME CacheInv, NEW c \in Client, inFlight[c].pc = "locate",
           Located(c) \/ \E l \in inFlight[c].todo : Locate(c, l)
    PROVE  CacheInv'
<1>1. inFlight[c].rq.op = "locations"
  BY InFlightFine DEF RequestFine
<1>2. inFlight[c].rq.op \notin {"secrets", "overview"}
  BY <1>1, SMT
<1>3. inFlight[c] = [pc |-> inFlight[c].pc, rq |-> inFlight[c].rq, todo |-> inFlight[c].todo,
                     found |-> inFlight[c].found]
  BY InFlightFine DEF RequestFine
<1>4. CASE Located(c)
  BY <1>2, <1>4, PlainReplyStep, ZenonT(60) DEF Located, PlainReply
<1>5. ASSUME NEW l \in inFlight[c].todo, Locate(c, l)
      PROVE  CacheInv'
  <2>0. Quiet
    BY <1>5 DEF Locate
  <2> DEFINE rest == [inFlight[c] EXCEPT !.todo = @ \ {l}]
  <2>1. rest = [pc |-> inFlight[c].pc, rq |-> inFlight[c].rq, todo |-> inFlight[c].todo \ {l},
                found |-> inFlight[c].found]
    BY <1>3, SMT
  <2>2. ASSUME NEW x
        PROVE  [rest EXCEPT !.found = @ \cup x]
               = [pc |-> inFlight[c].pc, rq |-> inFlight[c].rq, todo |-> inFlight[c].todo \ {l},
                  found |-> inFlight[c].found \cup x]
    <3> HIDE DEF rest
    <3>1. rest.found = inFlight[c].found
      BY <2>1
    <3>2. PICK v : v = inFlight[c].found \cup x
      OBVIOUS
    <3>3. [rest EXCEPT !.found = @ \cup x] = [rest EXCEPT !.found = v]
      BY <3>1, <3>2
    <3>4. [rest EXCEPT !.found = v] = [pc |-> inFlight[c].pc, rq |-> inFlight[c].rq,
                                       todo |-> inFlight[c].todo \ {l}, found |-> v]
      <4>1. PICK r : r = rest
        OBVIOUS
      <4>2. [r EXCEPT !.found = v] = [pc |-> inFlight[c].pc, rq |-> inFlight[c].rq,
                                      todo |-> inFlight[c].todo \ {l}, found |-> v]
        BY <2>1, <4>1, SMT
      <4> QED BY <4>1, <4>2
    <3> QED BY <3>2, <3>3, <3>4
  <2>3. \/ Reply(c, 500, NONE)
        \/ Proceed(c, rest)
        \/ \E x : Proceed(c, [rest EXCEPT !.found = @ \cup x])
    BY <1>5 DEF Locate
  <2> HIDE DEF rest
  <2>4. CASE Reply(c, 500, NONE)
    BY <1>2, <2>0, <2>4, PlainReplyStep, ZenonT(60) DEF PlainReply
  <2>5. CASE \E todo, found : Proceed(c, [pc |-> inFlight[c].pc, rq |-> inFlight[c].rq, todo |-> todo,
                                          found |-> found])
    BY <2>0, <2>5, LoopProceed
  <2>6. CASE Proceed(c, rest)
    BY <2>1, <2>5, <2>6
  <2>7. ASSUME NEW x, Proceed(c, [rest EXCEPT !.found = @ \cup x])
        PROVE  CacheInv'
    <3>1. Proceed(c, [pc |-> inFlight[c].pc, rq |-> inFlight[c].rq, todo |-> inFlight[c].todo \ {l},
                      found |-> inFlight[c].found \cup x])
      <4> HIDE DEF rest
      <4>1. PICK u : u = [rest EXCEPT !.found = @ \cup x]
        OBVIOUS
      <4>2. u = [pc |-> inFlight[c].pc, rq |-> inFlight[c].rq, todo |-> inFlight[c].todo \ {l},
                 found |-> inFlight[c].found \cup x]
        BY <2>2, <4>1
      <4> QED BY <2>7, <4>1, <4>2
    <3> QED BY <2>5, <3>1
  <2> QED BY <2>3, <2>4, <2>6, <2>7
<1> QED BY <1>4, <1>5

(* Each node of a request about every node, and the end of the request.    *)
LEMMA LoopStep ==
    ASSUME CacheInv, NEW c \in Client, inFlight[c].pc = "loop",
           getNodeIDs(c) \/ getNodeIDsWithResourceVersions(c) \/ getSecretByNamespacedName(c)
    PROVE  CacheInv'
<1>1. inFlight[c].rq.op \notin {"secrets", "overview"} /\ Quiet
  <2>1. inFlight[c].rq.op \in {"nodeIDs", "versions", "secret"} /\ Quiet
    BY DEF getNodeIDs, getNodeIDsWithResourceVersions, getSecretByNamespacedName
  <2> QED BY <2>1, SMT
<1>2. inFlight[c] = [pc |-> inFlight[c].pc, rq |-> inFlight[c].rq, todo |-> inFlight[c].todo,
                     found |-> inFlight[c].found]
  BY InFlightFine DEF RequestFine
<1>3. ASSUME NEW n, NEW x
      PROVE  [inFlight[c] EXCEPT !.todo = @ \ {n}, !.found = @ \cup x]
                = [pc |-> inFlight[c].pc, rq |-> inFlight[c].rq, todo |-> inFlight[c].todo \ {n},
                   found |-> inFlight[c].found \cup x]
  <2>1. PICK u : u = inFlight[c].todo \ {n}
    OBVIOUS
  <2>2. PICK v : v = inFlight[c].found \cup x
    OBVIOUS
  <2>3. [inFlight[c] EXCEPT !.todo = @ \ {n}, !.found = @ \cup x] = [inFlight[c] EXCEPT !.todo = u, !.found = v]
    BY <2>1, <2>2
  <2>4. [inFlight[c] EXCEPT !.todo = u, !.found = v]
          = [pc |-> inFlight[c].pc, rq |-> inFlight[c].rq, todo |-> u, found |-> v]
    <3>1. PICK r : r = inFlight[c]
      OBVIOUS
    <3>2. r = [pc |-> r.pc, rq |-> r.rq, todo |-> r.todo, found |-> r.found]
      BY <1>2, <3>1
    <3>3. [r EXCEPT !.todo = u, !.found = v] = [pc |-> r.pc, rq |-> r.rq, todo |-> u, found |-> v]
      <4>1. PICK a, b, d, e : a = r.pc /\ b = r.rq /\ d = r.todo /\ e = r.found
        OBVIOUS
      <4>2. r = [pc |-> a, rq |-> b, todo |-> d, found |-> e]
        BY <3>2, <4>1
      <4>3. [r EXCEPT !.todo = u, !.found = v] = [pc |-> a, rq |-> b, todo |-> u, found |-> v]
        <5> DEFINE w == [r EXCEPT !.todo = u]
        <5>1. [r EXCEPT !.todo = u, !.found = v] = [w EXCEPT !.found = v]
          OBVIOUS
        <5>2. w = [pc |-> a, rq |-> b, todo |-> u, found |-> e]
          BY <4>2, SMT
        <5> HIDE DEF w
        <5>3. [w EXCEPT !.found = v] = [pc |-> a, rq |-> b, todo |-> u, found |-> v]
          BY <5>2, SMT
        <5> QED BY <5>1, <5>3
      <4> QED BY <4>1, <4>3
    <3> QED BY <3>1, <3>3
  <2> QED BY <2>1, <2>2, <2>3, <2>4
<1>4. \/ \E code, body : Reply(c, code, body)
      \/ \E n, x : Proceed(c, [inFlight[c] EXCEPT !.todo = @ \ {n}, !.found = @ \cup x])
  BY ZenonT(60) DEF getNodeIDs, getNodeIDsWithResourceVersions, getSecretByNamespacedName
<1>5. CASE \E code, body : Reply(c, code, body)
  BY <1>1, <1>5, PlainReplyStep DEF PlainReply
<1>6. CASE \E todo, found : Proceed(c, [pc |-> inFlight[c].pc, rq |-> inFlight[c].rq, todo |-> todo,
                                        found |-> found])
  BY <1>1, <1>6, LoopProceed
<1>7. ASSUME NEW n, NEW x, Proceed(c, [inFlight[c] EXCEPT !.todo = @ \ {n}, !.found = @ \cup x])
      PROVE  CacheInv'
  <2>1. PICK u : u = [inFlight[c] EXCEPT !.todo = @ \ {n}, !.found = @ \cup x]
    OBVIOUS
  <2>2. u = [pc |-> inFlight[c].pc, rq |-> inFlight[c].rq, todo |-> inFlight[c].todo \ {n},
             found |-> inFlight[c].found \cup x]
    BY <1>3, <2>1
  <2>3. Proceed(c, [pc |-> inFlight[c].pc, rq |-> inFlight[c].rq, todo |-> inFlight[c].todo \ {n},
                    found |-> inFlight[c].found \cup x])
    BY <1>7, <2>1, <2>2
  <2> QED BY <1>6, <2>3
<1> QED BY <1>4, <1>5, <1>7

(* An overview that is cached is answered as it is.                        *)
LEMMA OverviewGetStep ==
    ASSUME CacheInv, NEW c \in Client, OverviewGet(c)
    PROVE  CacheInv'
<1> DEFINE n == inFlight[c].rq.node
<1>0. inFlight[c].pc = "cached" /\ Quiet
  BY DEF OverviewGet
<1>1. inFlight[c].pc # "answered"
  BY <1>0, SMT
<1>2. inFlight[c].rq.op = "overview" /\ n \in Node
  BY <1>0, InFlightFine DEF RequestFine, OverviewSteps
<1>3. inFlight[c] = [pc |-> "cached", rq |-> inFlight[c].rq]
  BY <1>0, InFlightFine DEF RequestFine
<1>4. ASSUME NEW pc \in {"versions", "upgrade"}, Proceed(c, [inFlight[c] EXCEPT !.pc = pc])
      PROVE  CacheInv'
  <2>1. PICK q : q = inFlight[c].rq
    OBVIOUS
  <2>2. PICK r : r = [inFlight[c] EXCEPT !.pc = pc]
    OBVIOUS
  <2>3. r = [pc |-> pc, rq |-> q]
    BY <1>3, <2>1, <2>2, SMT
  <2>4. r.pc = pc /\ r.rq = q /\ r = [pc |-> r.pc, rq |-> r.rq]
    BY <2>3
  <2>5. q.op = "overview" /\ q.node \in Node
    BY <1>2, <2>1
  <2>6. r.pc # "answered" /\ RequestFine(r, snapshots, published)
    BY <2>4, <2>5, SMT DEF RequestFine, OverviewSteps
  <2>7. Proceed(c, r)
    BY <1>4, <2>2
  <2> QED BY <1>0, <1>1, <2>6, <2>7, QuietProceed
<1>5. CASE entries[n] # NONE /\ Reply(c, 200, entries[n].response)
  <2>1. Fine(entries[n].response)
    BY <1>2, <1>5 DEF CacheInv, EntriesFine
  <2> HIDE DEF n
  <2>2. AnswerOf(inFlight[c].rq.op, 200, entries[n].response)
    BY <1>2, <2>1, SMT DEF AnswerOf
  <2> QED BY <1>0, <1>5, <2>2, QuietReply
<1>6. \/ Proceed(c, [inFlight[c] EXCEPT !.pc = "versions"])
      \/ Proceed(c, [inFlight[c] EXCEPT !.pc = "upgrade"])
      \/ entries[n] # NONE /\ Reply(c, 200, entries[n].response)
  BY DEF OverviewGet
<1> QED BY <1>4, <1>5, <1>6

(* An expired entry is dropped before the reads.                           *)
LEMMA OverviewEvictStep ==
    ASSUME CacheInv, NEW c \in Client, OverviewEvict(c)
    PROVE  CacheInv'
<1> DEFINE n == inFlight[c].rq.node
<1>0. inFlight[c].pc = "upgrade" /\ CacheQuiet /\ Proceed(c, [inFlight[c] EXCEPT !.pc = "versions"])
  BY DEF OverviewEvict
<1>1. inFlight[c].pc # "answered"
  BY <1>0, SMT
<1>2. inFlight[c].rq.op = "overview" /\ n \in Node
  BY <1>0, InFlightFine DEF RequestFine, OverviewSteps
<1>3. inFlight[c] = [pc |-> "upgrade", rq |-> inFlight[c].rq]
  BY <1>0, InFlightFine DEF RequestFine
<1>4. PICK q : q = inFlight[c].rq
  OBVIOUS
<1>5. PICK r : r = [inFlight[c] EXCEPT !.pc = "versions"]
  OBVIOUS
<1>6. r = [pc |-> "versions", rq |-> q]
  BY <1>3, <1>4, <1>5, SMT
<1>7. r.pc = "versions" /\ r.rq = q
  BY <1>6
<1>8. q.op = "overview" /\ q.node \in Node
  BY <1>2, <1>4
<1>9. r.pc # "answered" /\ RequestFine(r, snapshots, published)
  BY <1>7, <1>8, SMT DEF RequestFine, OverviewSteps
<1>10. UNCHANGED <<snapshots, published>> /\ blanked' = blanked
  BY <1>0 DEF CacheQuiet
<1>11. Proceed(c, r)
  BY <1>0, <1>5
<1>12. ClientsFine(inFlight', answer', snapshots', published')
  BY <1>1, <1>9, <1>10, <1>11, ProceedFine
<1>13. DOMAIN entries = Node /\ \A m \in Node : entries[m] # NONE => Fine(entries[m].response)
  BY DEF CacheInv, EntriesFine
<1>14. entries' = entries \/ entries' = [entries EXCEPT ![n] = NONE]
  BY DEF OverviewEvict
<1>15. DOMAIN entries' = Node /\ \A m \in Node : entries'[m] = entries[m] \/ entries'[m] = NONE
  BY <1>13, <1>14
<1>16. EntriesFine(entries')
  BY <1>13, <1>15 DEF EntriesFine
<1> QED BY <1>10, <1>12, <1>16 DEF CacheInv

(* The first of the three reads: the versions are those of a snapshot.     *)
LEMMA OverviewVersionsStep ==
    ASSUME CacheInv, NEW c \in Client, OverviewVersions(c)
    PROVE  CacheInv'
<1> DEFINE n == inFlight[c].rq.node
<1>0. inFlight[c].pc = "versions" /\ Quiet
  BY DEF OverviewVersions
<1>1. inFlight[c].pc # "answered"
  BY <1>0, SMT
<1>2. inFlight[c].rq.op = "overview" /\ n \in Node
  BY <1>0, InFlightFine DEF RequestFine, OverviewSteps
<1>3. CASE HasSnapshot(n)
  <2>1. PICK q, v : q = inFlight[c].rq /\ v = snapshots[n].gen
    OBVIOUS
  <2>2. PICK r : r = [pc |-> "listeners", rq |-> q, versions |-> v]
    OBVIOUS
  <2>3. Proceed(c, r)
    BY <1>3, <2>1, <2>2 DEF OverviewVersions, GetVersions
  <2>4. r.pc = "listeners" /\ r.rq = q /\ r.versions = v
    BY <2>2
  <2>5. v \in Nat /\ v <= published
    BY <1>2, <1>3, <2>1 DEF CacheInv, SnapshotsFine, HasSnapshot
  <2>6. q.op = "overview" /\ q.node \in Node /\ snapshots[q.node].gen = v
    BY <1>2, <2>1
  <2>7. v <= snapshots[q.node].gen
    BY <2>5, <2>6, SMT
  <2>8. r.pc # "answered" /\ RequestFine(r, snapshots, published)
    BY <2>4, <2>5, <2>6, <2>7, SMT DEF RequestFine, OverviewSteps
  <2> QED BY <1>0, <1>1, <2>3, <2>8, QuietProceed
<1>4. CASE ~HasSnapshot(n)
  <2>1. PICK code : code = 500
    OBVIOUS
  <2>2. Reply(c, code, NONE)
    BY <1>4, <2>1 DEF OverviewVersions
  <2>3. code # 200
    BY <2>1, SMT
  <2>4. PlainReply(c)
    BY <2>2, <2>3, ErrorIsPlain
  <2> QED BY <1>0, <2>4, PlainReplyStep
<1> QED BY <1>3, <1>4

(* The second read: the listeners are of a snapshot no older than the one  *)
(* whose versions were read.                                               *)
LEMMA OverviewListenersStep ==
    ASSUME CacheInv, NEW c \in Client, OverviewListeners(c)
    PROVE  CacheInv'
<1> DEFINE n == inFlight[c].rq.node
<1>0. inFlight[c].pc = "listeners" /\ Quiet
  BY DEF OverviewListeners
<1>1. inFlight[c].pc # "answered"
  BY <1>0, SMT
<1>2. inFlight[c].rq.op = "overview" /\ n \in Node
  BY <1>0, InFlightFine DEF RequestFine, OverviewSteps
<1>3. CASE HasSnapshot(n)
  <2>1. PICK q, v, l, g : /\ q = inFlight[c].rq /\ v = inFlight[c].versions
                          /\ l = GetListeners(n) /\ g = snapshots[n].gen
    OBVIOUS
  <2>2. PICK r : r = [pc |-> "secrets", rq |-> q, versions |-> v, listeners |-> l, listenersOf |-> g]
    OBVIOUS
  <2>3. Proceed(c, r)
    BY <1>3, <2>1, <2>2 DEF OverviewListeners, GetVersions
  <2>4. r.pc = "secrets" /\ r.rq = q /\ r.versions = v /\ r.listenersOf = g
    BY <2>2
  <2>5. v <= g
    BY <1>0, <1>3, <2>1, InFlightFine DEF RequestFine, HasSnapshot
  <2>6. q.op = "overview" /\ q.node \in Node
    BY <1>2, <2>1
  <2>7. r.pc # "answered" /\ RequestFine(r, snapshots, published)
    BY <2>4, <2>5, <2>6, SMT DEF RequestFine, OverviewSteps
  <2> QED BY <1>0, <1>1, <2>3, <2>7, QuietProceed
<1>4. CASE ~HasSnapshot(n)
  <2>1. PICK code : code = 500
    OBVIOUS
  <2>2. Reply(c, code, NONE)
    BY <1>4, <2>1 DEF OverviewListeners
  <2>3. code # 200
    BY <2>1, SMT
  <2>4. PlainReply(c)
    BY <2>2, <2>3, ErrorIsPlain
  <2> QED BY <1>0, <2>4, PlainReplyStep
<1> QED BY <1>3, <1>4

(* The third read: the overview is put together.                           *)
LEMMA OverviewSecretsStep ==
    ASSUME CacheInv, NEW c \in Client, OverviewSecrets(c)
    PROVE  CacheInv'
<1> DEFINE n == inFlight[c].rq.node
<1>0. inFlight[c].pc = "secrets" /\ Quiet
  BY DEF OverviewSecrets
<1>1. inFlight[c].pc # "answered"
  BY <1>0, SMT
<1>2. inFlight[c].rq.op = "overview" /\ n \in Node
  BY <1>0, InFlightFine DEF RequestFine, OverviewSteps
<1>3. CASE HasSnapshot(n)
  <2>1. PICK q, o : q = inFlight[c].rq /\ o = Overview(inFlight[c], GetSecrets(n))
    OBVIOUS
  <2>2. PICK r : r = [pc |-> "store", rq |-> q, response |-> o]
    OBVIOUS
  <2>3. Proceed(c, r)
    BY <1>3, <2>1, <2>2 DEF OverviewSecrets
  <2>4. r.pc = "store" /\ r.rq = q /\ r.response = o
    BY <2>2
  <2>5. snapshots[n].config \in Configs
    BY <1>2, <1>3 DEF HasSnapshot, CacheInv, SnapshotsFine
  <2>6. IsFiniteSet(GetSecrets(n)) /\ \A s \in GetSecrets(n) : IsSecret(s)
    BY <2>5, ConfigsAssumption DEF GetSecrets
  <2>7. inFlight[c].versions <= inFlight[c].listenersOf
    BY <1>0, InFlightFine DEF RequestFine
  <2>8. Fine(o)
    <3>1. PICK x, secrets : x = inFlight[c] /\ secrets = GetSecrets(n)
      OBVIOUS
    <3>2. PartsAgree(o) /\ o.versions = x.versions /\ o.listenersOf = x.listenersOf
      BY <2>1, <2>6, <3>1, OverviewFacts
    <3> QED BY <2>7, <3>1, <3>2 DEF Fine
  <2>9. q.op = "overview" /\ q.node \in Node
    BY <1>2, <2>1
  <2>10. r.pc # "answered" /\ RequestFine(r, snapshots, published)
    BY <2>4, <2>8, <2>9, SMT DEF RequestFine, OverviewSteps
  <2> QED BY <1>0, <1>1, <2>3, <2>10, QuietProceed
<1>4. CASE ~HasSnapshot(n)
  <2>1. PICK code : code = 500
    OBVIOUS
  <2>2. Reply(c, code, NONE)
    BY <1>4, <2>1 DEF OverviewSecrets
  <2>3. code # 200
    BY <2>1, SMT
  <2>4. PlainReply(c)
    BY <2>2, <2>3, ErrorIsPlain
  <2> QED BY <1>0, <2>4, PlainReplyStep
<1> QED BY <1>3, <1>4

(* The overview is cached and answered.                                    *)
LEMMA OverviewSetStep ==
    ASSUME CacheInv, NEW c \in Client, OverviewSet(c)
    PROVE  CacheInv'
<1> DEFINE n == inFlight[c].rq.node
<1>0. inFlight[c].pc = "store" /\ CacheQuiet /\ Reply(c, 200, inFlight[c].response)
  BY DEF OverviewSet
<1>1. inFlight[c].rq.op = "overview" /\ Fine(inFlight[c].response)
  BY <1>0, InFlightFine DEF RequestFine, OverviewSteps
<1>2. AnswerOf(inFlight[c].rq.op, 200, inFlight[c].response)
  <2>1. PICK op, o : op = inFlight[c].rq.op /\ o = inFlight[c].response
    OBVIOUS
  <2>2. AnswerOf(op, 200, o)
    BY <1>1, <2>1, SMT DEF AnswerOf
  <2> QED BY <2>1, <2>2
<1>3. UNCHANGED <<snapshots, published>> /\ blanked' = blanked
  BY <1>0 DEF CacheQuiet
<1>4. ClientsFine(inFlight', answer', snapshots', published')
  BY <1>0, <1>2, <1>3, ReplyFine
<1>5. PICK e : e = [response |-> inFlight[c].response, expiresAt |-> clock + OverviewTTL]
  OBVIOUS
<1>6. entries' = [entries EXCEPT ![n] = e] /\ e.response = inFlight[c].response
  BY <1>5 DEF OverviewSet
<1>7. DOMAIN entries = Node /\ \A m \in Node : entries[m] # NONE => Fine(entries[m].response)
  BY DEF CacheInv, EntriesFine
<1>8. DOMAIN entries' = Node /\ \A m \in Node : entries'[m] = entries[m] \/ entries'[m] = e
  BY <1>6, <1>7
<1>9. Fine(e.response)
  BY <1>1, <1>6
<1>10. EntriesFine(entries')
  BY <1>7, <1>8, <1>9 DEF EntriesFine
<1> QED BY <1>3, <1>4, <1>10 DEF CacheInv

(* The cleanup goroutine only drops entries.                               *)
LEMMA CleanupStep ==
    ASSUME CacheInv, Cleanup
    PROVE  CacheInv'
<1>1. DOMAIN entries' = Node /\ \A m \in Node : entries'[m] = entries[m] \/ entries'[m] = NONE
  BY DEF Cleanup
<1>2. EntriesFine(entries')
  BY <1>1 DEF CacheInv, EntriesFine
<1>3. UNCHANGED <<snapshots, blanked, published, inFlight, answer>>
  BY DEF Cleanup
<1> QED BY <1>2, <1>3 DEF CacheInv

(* Every handler keeps the invariant.                                      *)
LEMMA HandleStep ==
    ASSUME CacheInv, NEW c \in Client, Handle(c)
    PROVE  CacheInv'
<1>1. CASE CheckNode(c)
  BY <1>1, CheckNodeStep
<1>2. CASE \/ getListeners(c) \/ getClusters(c) \/ getRouteConfigurations(c) \/ getResourceVersions(c)
           \/ getDomains(c)
  BY <1>2, ReadersArePlain, PlainReplyStep
<1>3. CASE \/ getFilterType(c) \/ getFilter(c) \/ getTCPProxyFilters(c)
           \/ getHTTPFilters(c) \/ getHTTPFilterRouter(c) \/ getHTTPFilterRBAC(c)
  BY <1>3, FilterHandlersArePlain, PlainReplyStep
<1>4. CASE getSecrets(c)
  BY <1>4, SecretsStep
<1>5. CASE getDomainLocations(c)
  BY <1>5, LocationsStep
<1>6. CASE inFlight[c].pc = "locate" /\ (Located(c) \/ \E l \in inFlight[c].todo : Locate(c, l))
  BY <1>6, LocateStep
<1>7. CASE inFlight[c].pc = "loop" /\ (getNodeIDs(c) \/ getNodeIDsWithResourceVersions(c)
                                      \/ getSecretByNamespacedName(c))
  BY <1>7, LoopStep
<1>8. CASE OverviewGet(c) \/ OverviewEvict(c) \/ OverviewVersions(c)
  BY <1>8, OverviewGetStep, OverviewEvictStep, OverviewVersionsStep
<1>9. CASE OverviewListeners(c) \/ OverviewSecrets(c) \/ OverviewSet(c)
  BY <1>9, OverviewListenersStep, OverviewSecretsStep, OverviewSetStep
<1> QED BY <1>1, <1>2, <1>3, <1>4, <1>5, <1>6, <1>7, <1>8, <1>9 DEF Handle

(* The invariant is kept by every step.                                    *)
LEMMA CacheSteps ==
    ASSUME CacheInv, [CacheNext]_cacheVars
    PROVE  CacheInv'
<1>1. CASE \E n \in Node, config \in Configs : SetSnapshot(n, config)
  BY <1>1, SetSnapshotStep
<1>2. CASE \E n \in Node : ClearSnapshot(n)
  BY <1>2, ClearSnapshotStep
<1>3. CASE \E c \in Client, groups \in Groups \cup {NONE} : \E rq \in CacheRequests[c] : Call(c, rq, groups)
  BY <1>3, CallStep
<1>4. CASE \E c \in Client : Handle(c) \/ Return(c)
  BY <1>4, HandleStep, ReturnStep
<1>5. CASE Cleanup
  BY <1>5, CleanupStep
<1>6. CASE OverviewTick
  BY <1>6 DEF OverviewTick, CacheInv
<1>7. CASE UNCHANGED cacheVars
  BY <1>7 DEF cacheVars, CacheInv
<1> QED BY <1>1, <1>2, <1>3, <1>4, <1>5, <1>6, <1>7 DEF CacheNext

-----------------------------------------------------------------------------
(* The theorems.                                                           *)

(* An answer that a client is being sent.                                  *)
LEMMA AnswersAre ==
    ASSUME CacheInv, NEW c \in Client, NEW op, Answered(c, op)
    PROVE  AnswerOf(op, 200, answer[c].body)
<1>1. answer[c] # NONE /\ answer[c].code = 200 /\ inFlight[c].rq.op = op
  BY DEF Answered
<1>2. AnswerOf(inFlight[c].rq.op, answer[c].code, answer[c].body)
  BY <1>1, InFlightFine DEF AnswerFine
<1> QED BY <1>1, <1>2

(* Reading secrets through the REST API never overwrites a published one,  *)
(* and every answer about secrets has its data overwritten.                *)
THEOREM SecretsReadSafely == CacheSpec => []PublishedSecretsIntact
<1>1. CacheInv => PublishedSecretsIntact
  <2> SUFFICES ASSUME CacheInv PROVE PublishedSecretsIntact
    OBVIOUS
  <2>1. ASSUME NEW c \in Client, Answered(c, "secrets")
        PROVE  \A s \in answer[c].body : s.data = "blank"
    BY <2>1, AnswersAre DEF AnswerOf
  <2> QED BY <2>1 DEF PublishedSecretsIntact, CacheInv
<1> QED BY <1>1, CacheStarts, CacheSteps, PTL DEF CacheSpec

(* An overview is of one piece, although snapshots may be replaced between *)
(* the three reads it is assembled from, and whether or not it comes from  *)
(* the cache of overviews.                                                 *)
THEOREM OverviewsOfOnePiece == CacheSpec => []OverviewConsistent
<1>1. CacheInv => OverviewConsistent
  <2> SUFFICES ASSUME CacheInv PROVE OverviewConsistent
    OBVIOUS
  <2>1. ASSUME NEW c \in Client, Answered(c, "overview")
        PROVE  Fine(answer[c].body)
    BY <2>1, AnswersAre DEF AnswerOf
  <2> QED BY <2>1 DEF OverviewConsistent, OverviewNotAhead, OverviewAgrees, Fine
<1> QED BY <1>1, CacheStarts, CacheSteps, PTL DEF CacheSpec

(* Whatever stands for no entry is no stored overview.                     *)
EntriesTold == \A response, t : [response |-> response, expiresAt |-> t] # NONE

(* A step by which no overview that has not expired is dropped.            *)
KeepsFresh ==
  \A n \in Node : (entries[n] # NONE /\ (entries[n] # NONE => ~OverviewExpired(n)))
                    => entries'[n] # NONE

(* Most handlers leave the cache of overviews alone.                       *)
LEMMA HandlersKeepEntries ==
    ASSUME NEW c, Handle(c)
    PROVE  entries' = entries \/ OverviewEvict(c) \/ OverviewSet(c)
<1>1. ASSUME Quiet PROVE entries' = entries
  BY <1>1 DEF Quiet
<1>2. CASE CheckNode(c)
  BY <1>1, <1>2 DEF CheckNode
<1>3. CASE \/ getListeners(c) \/ getClusters(c) \/ getRouteConfigurations(c) \/ getResourceVersions(c)
           \/ getDomains(c)
  BY <1>1, <1>3, ReadersArePlain
<1>4. CASE getSecrets(c)
  <2>1. \A wanted : clearSecretData(wanted) => entries' = entries
    BY DEF clearSecretData
  <2> QED BY <1>1, <1>4, <2>1 DEF getSecrets
<1>5. CASE \/ getFilterType(c) \/ getFilter(c) \/ getTCPProxyFilters(c)
           \/ getHTTPFilters(c) \/ getHTTPFilterRouter(c) \/ getHTTPFilterRBAC(c)
  BY <1>1, <1>5, FilterHandlersArePlain
<1>6. CASE getDomainLocations(c)
  BY <1>1, <1>6 DEF getDomainLocations
<1>7. CASE inFlight[c].pc = "locate" /\ (Located(c) \/ \E l \in inFlight[c].todo : Locate(c, l))
  BY <1>1, <1>7 DEF Located, Locate
<1>8. CASE inFlight[c].pc = "loop" /\ (getNodeIDs(c) \/ getNodeIDsWithResourceVersions(c)
                              \/ getSecretByNamespacedName(c))
  BY <1>1, <1>8 DEF getNodeIDs, getNodeIDsWithResourceVersions, getSecretByNamespacedName
<1>9. CASE OverviewGet(c) \/ OverviewVersions(c) \/ OverviewListeners(c) \/ OverviewSecrets(c)
  BY <1>1, <1>9 DEF OverviewGet, OverviewVersions, OverviewListeners, OverviewSecrets
<1> QED BY <1>2, <1>3, <1>4, <1>5, <1>6, <1>7, <1>8, <1>9 DEF Handle

(* A request that found its overview expired looks again under the write   *)
(* lock, so it does not drop one that was stored in between.               *)
LEMMA EvictKeepsFresh == ASSUME DOMAIN entries = Node, NEW c, OverviewEvict(c) PROVE KeepsFresh
<1> DEFINE n == inFlight[c].rq.node
<1>1. CASE entries[n] # NONE /\ (entries[n] # NONE => OverviewExpired(n))
  <2>1. entries' = [entries EXCEPT ![n] = NONE]
    BY <1>1 DEF OverviewEvict
  <2>2. \A m \in Node : m # n => entries'[m] = entries[m]
    BY <2>1
  <2> QED BY <1>1, <2>2 DEF KeepsFresh
<1>2. CASE ~(entries[n] # NONE /\ (entries[n] # NONE => OverviewExpired(n)))
  BY <1>2 DEF OverviewEvict, KeepsFresh
<1> QED BY <1>1, <1>2

(* Only an expired overview is dropped from the cache of overviews, by a   *)
(* request as well as by the cleanup.                                      *)
THEOREM FreshOverviewsStay == ASSUME EntriesTold PROVE CacheSpec => FreshOverviewKept
<1>1. ASSUME CacheInv, [CacheNext]_cacheVars PROVE [KeepsFresh]_cacheVars
  <2>0. DOMAIN entries = Node
    BY <1>1 DEF CacheInv, EntriesFine
  <2>1. ASSUME entries' = entries PROVE KeepsFresh
    BY <2>1 DEF KeepsFresh
  <2>2. CASE \E n \in Node, config \in Configs : SetSnapshot(n, config)
    BY <2>1, <2>2 DEF SetSnapshot
  <2>3. CASE \E n \in Node : ClearSnapshot(n)
    BY <2>1, <2>3 DEF ClearSnapshot
  <2>4. CASE \E c \in Client, groups \in Groups \cup {NONE} : \E rq \in CacheRequests[c] : Call(c, rq, groups)
    BY <2>1, <2>4 DEF Call, Quiet
  <2>5. ASSUME NEW c \in Client, Handle(c) PROVE KeepsFresh
    <3>1. CASE OverviewSet(c)
      <4>1. PICK e : e = [response |-> inFlight[c].response, expiresAt |-> clock + OverviewTTL]
        OBVIOUS
      <4>2. e # NONE
        BY <4>1 DEF EntriesTold
      <4>3. entries' = [entries EXCEPT ![inFlight[c].rq.node] = e]
        BY <3>1, <4>1 DEF OverviewSet
      <4>4. \A m \in Node : entries'[m] = e \/ entries'[m] = entries[m]
        BY <2>0, <4>3
      <4> QED BY <4>2, <4>4 DEF KeepsFresh
    <3> QED BY <2>0, <2>1, <2>5, <3>1, HandlersKeepEntries, EvictKeepsFresh
  <2>6. CASE \E c \in Client : Return(c)
    BY <2>1, <2>6 DEF Return, Quiet
  <2>7. CASE Cleanup
    BY <2>7 DEF Cleanup, KeepsFresh
  <2>8. CASE OverviewTick
    BY <2>1, <2>8 DEF OverviewTick
  <2>9. CASE UNCHANGED cacheVars
    BY <2>9
  <2> QED BY <1>1, <2>2, <2>3, <2>4, <2>5, <2>6, <2>7, <2>8, <2>9 DEF CacheNext
<1>2. [KeepsFresh]_cacheVars <=>
        [\A n \in Node : (entries[n] # NONE /\ (entries[n] # NONE => ~OverviewExpired(n)))
                           => entries'[n] # NONE]_cacheVars
  BY DEF KeepsFresh
<1> QED BY <1>1, <1>2, CacheStarts, CacheSteps, PTL DEF CacheSpec, FreshOverviewKept
=============================================================================
