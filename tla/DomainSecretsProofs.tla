------------------------ MODULE DomainSecretsProofs ------------------------
(***************************************************************************)
(* The index from domains to secrets is exact for any secrets, annotations *)
(* and chains.  Taking the old secret's domains out of an exact index      *)
(* gives the exact index of the remaining secrets, and putting the new     *)
(* secret's domains in gives that of the changed map; exactness is         *)
(* therefore inductive by itself.  What is chosen for a domain then        *)
(* follows in every state: the candidates of an exact index are the        *)
(* secrets that list the domain, one of them comes before all the others,  *)
(* and its certificate holds when any candidate's does.                    *)
(***************************************************************************)
EXTENDS DomainSecrets, FiniteSetTheorems, TLAPS

(* Steps are first-order reasoning unless they name another prover.        *)
USE Zenon

(* Two maps with the same keys and values are equal.                       *)
LEMMA MapsEqual ==
    ASSUME NEW f, NEW g,
           f = [x \in DOMAIN f |-> f[x]], g = [x \in DOMAIN g |-> g[x]],
           DOMAIN f = DOMAIN g, \A x \in DOMAIN f : f[x] = g[x]
    PROVE  f = g
OBVIOUS

(* The secrets of a map that list a domain, with the end of each.          *)
LEMMA IndexOfFacts ==
    ASSUME NEW map
    PROVE  /\ \A d : d \in DOMAIN IndexOf(map) <=>
                    \E nn \in SecretName : d \in DomainsOf(map[nn])
           /\ \A d \in DOMAIN IndexOf(map) :
                IndexOf(map)[d] = [nn \in {m \in SecretName : d \in DomainsOf(map[m])} |->
                                    ParseCertificateNotAfter(map[nn])]
           /\ IndexOf(map) = [d \in DOMAIN IndexOf(map) |-> IndexOf(map)[d]]
BY DEF IndexOf

(* A missing secret lists nothing.                                         *)
LEMMA NoneListsNothing == DomainsOf(NONE) = {}
BY DEF DomainsOf

(* Adding the domains of a secret that is not in the map yet.              *)
LEMMA AddExact ==
    ASSUME NEW map \in [SecretName -> Secret \cup {NONE}], NEW nn \in SecretName,
           NEW s \in Secret, map[nn] = NONE
    PROVE  AddDomains(IndexOf(map), nn, s) = IndexOf([map EXCEPT ![nn] = s])
<1> DEFINE new == [map EXCEPT ![nn] = s]
           f   == AddDomains(IndexOf(map), nn, s)
           g   == IndexOf(new)
           L(m, d) == {k \in SecretName : d \in DomainsOf(m[k])}
<1>1. new[nn] = s /\ \A k \in SecretName : k # nn => new[k] = map[k]
  OBVIOUS
<1>2. /\ DOMAIN f = DOMAIN IndexOf(map) \cup DomainsOf(s)
      /\ f = [d \in DOMAIN f |-> f[d]]
      /\ \A d \in DOMAIN f : f[d] =
            IF d \in DomainsOf(s)
            THEN Put(Entries(IndexOf(map), d), nn, ParseCertificateNotAfter(s))
            ELSE IndexOf(map)[d]
  BY DEF AddDomains
<1>7. \A d : d \in DOMAIN g <=> \E k \in SecretName : d \in DomainsOf(new[k])
  <2> HIDE DEF new
  <2> QED BY IndexOfFacts
<1>8. \A d : d \in DOMAIN IndexOf(map) <=> \E k \in SecretName : d \in DomainsOf(map[k])
  BY IndexOfFacts
<1>3. DOMAIN f = DOMAIN g
  <2> HIDE DEF f, g, new
  <2>1. ASSUME NEW d PROVE d \in DOMAIN f <=> d \in DOMAIN g
    BY <1>1, <1>2, <1>7, <1>8, NoneListsNothing
  <2> QED BY <2>1
<1>4. ASSUME NEW d \in DOMAIN f
      PROVE  f[d] = g[d]
  <2>1. g[d] = [k \in L(new, d) |-> ParseCertificateNotAfter(new[k])]
    <3>1. d \in DOMAIN g
      <4> HIDE DEF f, g
      <4> QED BY <1>3
    <3>2. \A x \in DOMAIN g : g[x] = [k \in L(new, x) |-> ParseCertificateNotAfter(new[k])]
      BY DEF IndexOf
    <3> HIDE DEF f, g, new, L
    <3> QED BY <3>1, <3>2
  <2>2. Entries(IndexOf(map), d) = [k \in L(map, d) |-> ParseCertificateNotAfter(map[k])]
    <3>1. CASE d \in DOMAIN IndexOf(map)
      BY <3>1, IndexOfFacts DEF Entries
    <3>2. CASE d \notin DOMAIN IndexOf(map)
      <4>1. L(map, d) = {}
        <5> HIDE DEF f, g, new
        <5> QED BY <3>2, <1>8
      <4> QED BY <4>1, <3>2 DEF Entries, EmptyMap
    <3> QED BY <3>1, <3>2
  <2>3. CASE d \in DomainsOf(s)
    <3>1. L(new, d) = L(map, d) \cup {nn}
      BY <1>1, <2>3
    <3>2. f[d] = [k \in L(map, d) \cup {nn} |->
                    IF k = nn THEN ParseCertificateNotAfter(s)
                    ELSE ParseCertificateNotAfter(map[k])]
      <4> DEFINE e == Entries(IndexOf(map), d)
      <4>1. f[d] = Put(e, nn, ParseCertificateNotAfter(s))
        <5> HIDE DEF f
        <5> QED BY <1>2, <2>3
      <4>2. DOMAIN e = L(map, d) /\ \A k \in L(map, d) : e[k] = ParseCertificateNotAfter(map[k])
        <5> HIDE DEF e, L
        <5> QED BY <2>2 DEF e
      <4> HIDE DEF f, e, L
      <4> QED BY <4>1, <4>2 DEF Put
    <3>3. \A k \in L(map, d) \cup {nn} :
            ParseCertificateNotAfter(new[k]) =
                IF k = nn THEN ParseCertificateNotAfter(s)
                ELSE ParseCertificateNotAfter(map[k])
      BY <1>1
    <3> HIDE DEF f, g, new, L
    <3> QED BY <2>1, <3>1, <3>2, <3>3
  <2>4. CASE d \notin DomainsOf(s)
    <3>1. L(new, d) = L(map, d) /\ nn \notin L(map, d)
      BY <1>1, <2>4, NoneListsNothing
    <3>2. f[d] = [k \in L(map, d) |-> ParseCertificateNotAfter(map[k])]
      BY <1>2, <2>2, <2>4 DEF Entries
    <3>3. \A k \in L(map, d) : new[k] = map[k]
      BY <1>1, <3>1
    <3> HIDE DEF f, g, new, L
    <3> QED BY <2>1, <3>1, <3>2, <3>3
  <2> QED BY <2>3, <2>4
<1>5. g = [d \in DOMAIN g |-> g[d]]
  BY IndexOfFacts
<1> HIDE DEF f, g
<1>6. f = g
  BY <1>2, <1>3, <1>4, <1>5, MapsEqual
<1> QED BY <1>6 DEF f, g

(* The index of a map without one of its secrets.                          *)
LEMMA RemoveExact ==
    ASSUME NEW map \in [SecretName -> Secret \cup {NONE}], NEW nn \in SecretName
    PROVE  RemoveDomains(IndexOf(map), nn, map[nn]) = IndexOf([map EXCEPT ![nn] = NONE])
<1> DEFINE new == [map EXCEPT ![nn] = NONE]
           old == IndexOf(map)
           f   == RemoveDomains(old, nn, map[nn])
           g   == IndexOf(new)
           L(m, d) == {k \in SecretName : d \in DomainsOf(m[k])}
           End(m, d) == [k \in L(m, d) |-> ParseCertificateNotAfter(m[k])]
           left(d) == IF d \in DomainsOf(map[nn]) THEN Drop(old[d], nn) ELSE old[d]
<1>1. new[nn] = NONE /\ \A k \in SecretName : k # nn => new[k] = map[k]
  OBVIOUS
<1>2. /\ \A d : d \in DOMAIN f <=> d \in DOMAIN old /\ left(d) # EmptyMap
      /\ f = [d \in DOMAIN f |-> f[d]]
      /\ \A d \in DOMAIN f : f[d] = left(d)
  <2> HIDE DEF old
  <2> QED BY DEF RemoveDomains
<1>3. /\ \A d : d \in DOMAIN g <=> L(new, d) # {}
      /\ \A d \in DOMAIN g : g[d] = End(new, d)
      /\ g = [d \in DOMAIN g |-> g[d]]
  <2> HIDE DEF new
  <2> QED BY IndexOfFacts
<1>4. /\ \A d : d \in DOMAIN old <=> L(map, d) # {}
      /\ \A d \in DOMAIN old : old[d] = End(map, d)
  BY IndexOfFacts
<1>5. ASSUME NEW d \in DOMAIN old
      PROVE  left(d) = End(new, d)
  <2>1. L(new, d) = L(map, d) \ {nn}
    BY <1>1, NoneListsNothing
  <2>2. \A k \in L(new, d) : new[k] = map[k]
    <3> HIDE DEF new, L
    <3> QED BY <2>1, <1>1 DEF L
  <2>3. DOMAIN End(map, d) = L(map, d)
        /\ \A k \in L(map, d) : End(map, d)[k] = ParseCertificateNotAfter(map[k])
    <3> HIDE DEF L
    <3> QED OBVIOUS
  <2>4. CASE d \in DomainsOf(map[nn])
    <3>1. left(d) = Drop(End(map, d), nn)
      <4> HIDE DEF old, End
      <4> QED BY <1>4, <2>4
    <3>2. Drop(End(map, d), nn) = [k \in L(map, d) \ {nn} |-> ParseCertificateNotAfter(map[k])]
      <4> HIDE DEF End, L
      <4> QED BY <2>3 DEF Drop
    <3> HIDE DEF left, new, L, old
    <3> QED BY <3>1, <3>2, <2>1, <2>2
  <2>5. CASE d \notin DomainsOf(map[nn])
    <3>1. left(d) = End(map, d)
      <4> HIDE DEF old, End
      <4> QED BY <1>4, <2>5
    <3>2. L(new, d) = L(map, d)
      BY <2>1, <2>5
    <3> HIDE DEF left, new, L, old
    <3> QED BY <3>1, <3>2, <2>2
  <2> QED BY <2>4, <2>5
<1>6. ASSUME NEW d
      PROVE  End(new, d) # EmptyMap <=> L(new, d) # {}
  <2> HIDE DEF new, L
  <2> QED BY DEF EmptyMap
<1>7. \A d : L(new, d) # {} => L(map, d) # {}
  BY <1>1, NoneListsNothing
<1> HIDE DEF f, g, old, left, End, L, new
<1>8. DOMAIN f = DOMAIN g
  <2>1. ASSUME NEW d PROVE d \in DOMAIN f <=> d \in DOMAIN g
    BY <1>2, <1>3, <1>4, <1>5, <1>6, <1>7
  <2> QED BY <1>2, <1>3, <2>1
<1>9. \A d \in DOMAIN f : f[d] = g[d]
  BY <1>2, <1>3, <1>5, <1>8
<1>10. f = g
  BY <1>2, <1>3, <1>8, <1>9, MapsEqual
<1> QED BY <1>10 DEF f, g, old, new

-----------------------------------------------------------------------------
(* What every step keeps: typed secrets, an exact index, and what is       *)
(* stored is what was applied.                                             *)
Inv ==
    /\ secrets \in [SecretName -> Secret \cup {NONE}]
    /\ applied \in [SecretName -> Secret \cup {NONE}]
    /\ now \in Nat
    /\ IndexExact
    /\ StoreFollowsApplied

(* FillFromKubernetes builds the index from the listed secrets.            *)
LEMMA InitInv == Init => Inv
BY SMT DEF Init, Inv, IndexExact, StoreFollowsApplied

(* SetSecret replaces what a secret lists, whether it was stored or not.   *)
LEMMA SetSecretIndex ==
    ASSUME Inv, NEW nn \in SecretName, NEW s \in Secret, SetSecret(nn, s)
    PROVE  IndexExact'
<1> DEFINE mid == [secrets EXCEPT ![nn] = NONE]
<1>1. mid \in [SecretName -> Secret \cup {NONE}] /\ mid[nn] = NONE
  BY DEF Inv
<1>2. RemoveDomains(index, nn, secrets[nn]) = IndexOf(mid)
  BY RemoveExact DEF Inv, IndexExact
<1>3. [mid EXCEPT ![nn] = s] = [secrets EXCEPT ![nn] = s]
  BY DEF Inv
<1> HIDE DEF mid
<1>4. AddDomains(IndexOf(mid), nn, s) = IndexOf([mid EXCEPT ![nn] = s])
  BY <1>1, AddExact
<1>5. secrets' = [secrets EXCEPT ![nn] = s] /\ index' = AddDomains(IndexOf(mid), nn, s)
  BY <1>2 DEF SetSecret
<1> QED BY <1>3, <1>4, <1>5 DEF IndexExact

(* ApplySecret keeps the index and what is stored, also when it returns    *)
(* early because the secret is the stored one.                             *)
LEMMA ApplySecretInv ==
    ASSUME Inv, NEW nn \in SecretName, NEW s \in Secret, ApplySecret(nn, s)
    PROVE  Inv'
<1>1. /\ applied' = [applied EXCEPT ![nn] = s]
      /\ now' = now
      /\ s # NONE
  BY InputAssumption DEF ApplySecret, Secret
<1>2. CASE /\ secrets[nn] # NONE /\ SecretsEqual(secrets[nn], s)
           /\ UNCHANGED <<secrets, index>>
  <2>1. StoreFollowsApplied'
    BY <1>1, <1>2 DEF Inv, StoreFollowsApplied, SecretsEqual
  <2> QED BY <1>1, <1>2, <2>1 DEF Inv, IndexExact
<1>3. CASE SetSecret(nn, s)
  <2>1. secrets' = [secrets EXCEPT ![nn] = s]
    BY <1>3 DEF SetSecret
  <2>2. StoreFollowsApplied'
    BY <1>1, <2>1 DEF Inv, StoreFollowsApplied
  <2> QED BY <1>1, <1>3, <2>1, <2>2, SetSecretIndex DEF Inv
<1> QED BY <1>2, <1>3 DEF ApplySecret

(* DeleteSecret takes out exactly what the stored secret had put in.       *)
LEMMA DeleteSecretInv ==
    ASSUME Inv, NEW nn \in SecretName, DeleteSecret(nn)
    PROVE  Inv'
<1>1. /\ secrets' = [secrets EXCEPT ![nn] = NONE]
      /\ index' = RemoveDomains(index, nn, secrets[nn])
      /\ applied' = [applied EXCEPT ![nn] = NONE]
      /\ now' = now
  BY DEF DeleteSecret
<1>2. RemoveDomains(index, nn, secrets[nn]) = IndexOf([secrets EXCEPT ![nn] = NONE])
  BY RemoveExact DEF Inv, IndexExact
<1>3. IndexExact'
  BY <1>1, <1>2 DEF IndexExact
<1>4. StoreFollowsApplied'
  BY <1>1 DEF Inv, StoreFollowsApplied
<1> QED BY <1>1, <1>3, <1>4 DEF Inv

(* The invariant is inductive.                                             *)
LEMMA InvHolds == Spec => []Inv
<1>1. Inv /\ [Next]_vars => Inv'
  <2> SUFFICES ASSUME Inv, [Next]_vars PROVE Inv'
    OBVIOUS
  <2>1. ASSUME NEW nn \in SecretName, NEW s \in Secret, ApplySecret(nn, s)
        PROVE  Inv'
    BY <2>1, ApplySecretInv
  <2>2. ASSUME NEW nn \in SecretName, DeleteSecret(nn)
        PROVE  Inv'
    BY <2>2, DeleteSecretInv
  <2>3. CASE Tick
    BY <2>3, SMT DEF Tick, Inv, IndexExact, StoreFollowsApplied
  <2>4. CASE UNCHANGED vars
    BY <2>4 DEF vars, Inv, IndexExact, StoreFollowsApplied
  <2> QED BY <2>1, <2>2, <2>3, <2>4 DEF Next
<1> QED BY InitInv, <1>1, PTL DEF Spec

(* The index from domains to secrets, maintained by SetSecret and          *)
(* DeleteSecret one secret at a time, is always the one that               *)
(* updateDomainSecretsMap would build from the stored secrets.             *)
THEOREM DomainIndexExact == Spec => []IndexExact
<1>1. Inv => IndexExact
  BY DEF Inv
<1> QED BY InvHolds, <1>1, PTL

(* The early return of ApplySecret loses no change of a secret with data,  *)
(* for any sequence of applied and deleted secrets.                        *)
THEOREM AppliedSecretsStored == Spec => []StoreFollowsApplied
<1>1. Inv => StoreFollowsApplied
  BY DEF Inv
<1> QED BY InvHolds, <1>1, PTL

-----------------------------------------------------------------------------
(* A set of natural numbers that is not empty has a least element: the     *)
(* intervals below its elements are finite, and strict inclusion of finite *)
(* sets is well-founded.                                                   *)
LEMMA LeastExists ==
    ASSUME NEW T \in SUBSET Nat, T # {}
    PROVE  \E m \in T : \A n \in T : m <= n
<1> DEFINE R == StrictSubsetOrdering(Nat)
           Below(n) == 0..n
           U == {Below(n) : n \in T}
<1>1. IsWellFoundedOn(R, FiniteSubsetsOf(Nat))
  BY FS_StrictSubsetOrderingWellFounded
<1>2. U \subseteq FiniteSubsetsOf(Nat)
  <2>1. ASSUME NEW n \in T
        PROVE  Below(n) \in SUBSET Nat /\ IsFiniteSet(Below(n))
    <3>1. 0 \in Int /\ n \in Int
      BY SMT
    <3>2. IsFiniteSet(0..n)
      BY <3>1, FS_Interval
    <3> QED BY <3>2, SMT
  <2> HIDE DEF Below
  <2> QED BY <2>1 DEF FiniteSubsetsOf
<1>3. U # {}
  OBVIOUS
<1>4. ASSUME NEW m \in T, NEW n \in T, m < n
      PROVE  <<Below(m), Below(n)>> \in R
  <2>1. /\ Below(m) \subseteq Below(n)
        /\ n \in Below(n) /\ n \notin Below(m)
    BY <1>4, SMT
  <2>2. Below(m) \in SUBSET Nat /\ Below(n) \in SUBSET Nat
    BY SMT
  <2> HIDE DEF Below
  <2> QED BY <2>1, <2>2 DEF StrictSubsetOrdering
<1> HIDE DEF R, Below
<1>5. \E x \in U : \A y \in U : ~ (<<y, x>> \in R)
  <2> HIDE DEF U
  <2> QED BY <1>1, <1>2, <1>3, WFMin
<1>6. PICK m \in T : \A y \in U : ~ (<<y, Below(m)>> \in R)
  BY <1>5
<1>7. \A n \in T : ~ (n < m)
  BY <1>4, <1>6
<1> QED BY <1>7, SMT

(* The end of a chain is the earliest end of its certificates.             *)
LEMMA EarliestEnd ==
    ASSUME NEW s \in Secret
    PROVE  /\ Ends(s) \subseteq Nat \ {0}
           /\ Ends(s) = {} => ParseCertificateNotAfter(s) = 0
           /\ Ends(s) # {} =>
                /\ ParseCertificateNotAfter(s) \in Ends(s)
                /\ \A end \in Ends(s) : ParseCertificateNotAfter(s) <= end
<1>1. Ends(s) \subseteq Nat \ {0}
  <2>1. CASE s.chain = NONE
    BY <2>1 DEF Ends
  <2>2. CASE s.chain # NONE
    <3>1. s.chain \in Seq(Nat)
      BY <2>2, InputAssumption DEF Secret
    <3>2. Range(s.chain) \subseteq Nat
      BY <3>1, SMT DEF Range
    <3> QED BY <2>2, <3>2 DEF Ends
  <2> QED BY <2>1, <2>2
<1>2. ASSUME Ends(s) # {}
      PROVE  /\ Min(Ends(s)) \in Ends(s)
             /\ \A end \in Ends(s) : Min(Ends(s)) <= end
  <2>1. \E m \in Ends(s) : \A end \in Ends(s) : m <= end
    BY <1>1, <1>2, LeastExists
  <2> QED BY <2>1 DEF Min
<1> QED BY <1>1, <1>2 DEF ParseCertificateNotAfter

(* The validity of a secret tells whether its certificates hold.           *)
LEMMA ValidityTells ==
    ASSUME NEW nn, secrets[nn] \in Secret, NEW t \in Nat
    PROVE  LET v == Validity(ParseCertificateNotAfter(secrets[nn]), t)
           IN  v \in 1..3 /\ (v = Valid <=> HoldsAt(nn, t))
<1> DEFINE end == ParseCertificateNotAfter(secrets[nn])
<1>1. CASE Ends(secrets[nn]) = {}
  BY <1>1, EarliestEnd, SMT DEF Validity, Valid, HoldsAt
<1>2. CASE Ends(secrets[nn]) # {}
  <2>1. /\ end \in Ends(secrets[nn]) /\ end \in Nat /\ end # 0
        /\ Ends(secrets[nn]) \subseteq Nat
        /\ \A e \in Ends(secrets[nn]) : end <= e
    BY <1>2, EarliestEnd
  <2>2. (end > t) <=> HoldsAt(nn, t)
    <3> HIDE DEF end
    <3> QED BY <1>2, <2>1, SMT DEF HoldsAt
  <2> HIDE DEF end
  <2> QED BY <2>1, <2>2, SMT DEF Validity, Valid, end
<1> QED BY <1>1, <1>2

(* What is compared of a secret that lists a domain.                       *)
Candidate(nn, t) ==
    [nn |-> nn, validity |-> Validity(ParseCertificateNotAfter(secrets[nn]), t)]

(* The candidates for a domain are the stored secrets that list it.        *)
LEMMA CandidatesExact ==
    ASSUME Inv, NEW d, NEW t \in Nat
    PROVE  /\ Candidates(d, t) = {Candidate(nn, t) : nn \in Listing(d)}
           /\ \A nn \in Listing(d) : nn \in Nat \X Nat /\ secrets[nn] \in Secret
<1> DEFINE stored == {m \in DOMAIN Entries(index, d) : secrets[m] # NONE}
<1>1. \A nn \in Listing(d) : secrets[nn] # NONE /\ secrets[nn] \in Secret
  BY NoneListsNothing DEF Inv, Listing
<1>2. /\ DOMAIN Entries(index, d) = Listing(d)
      /\ \A nn \in Listing(d) :
            index[d][nn] = ParseCertificateNotAfter(secrets[nn])
  <2>1. /\ d \in DOMAIN index <=> \E nn \in SecretName : d \in DomainsOf(secrets[nn])
        /\ d \in DOMAIN index =>
            index[d] = [nn \in Listing(d) |-> ParseCertificateNotAfter(secrets[nn])]
    BY IndexOfFacts DEF Inv, IndexExact, Listing
  <2>2. CASE d \in DOMAIN index
    BY <2>1, <2>2 DEF Entries
  <2>3. CASE d \notin DOMAIN index
    BY <2>1, <2>3 DEF Entries, EmptyMap, Listing
  <2> QED BY <2>2, <2>3
<1>3. stored = Listing(d)
  BY <1>1, <1>2
<1>4. Candidates(d, t) = {[nn |-> nn, validity |-> Validity(index[d][nn], t)] : nn \in stored}
  BY DEF Candidates
<1> HIDE DEF stored
<1>5. Candidates(d, t) = {Candidate(nn, t) : nn \in Listing(d)}
  BY <1>2, <1>3, <1>4 DEF Candidate
<1> QED BY <1>1, <1>5, SecretNameAssumption DEF Listing

(* Of any candidates one comes before all the others: the highest validity *)
(* first, then the own namespace if it has one, then the lowest namespace, *)
(* then the lowest name.                                                   *)
LEMMA FirstExists ==
    ASSUME NEW cs \in SUBSET [nn : Nat \X Nat, validity : 1..3], cs # {}, NEW ns
    PROVE  \E c \in cs : \A e \in cs \ {c} : Before(c, e, ns)
<1>1. PICK b \in cs : \A e \in cs : e.validity <= b.validity
  <2> DEFINE T == {3 - c.validity : c \in cs}
  <2>1. T \in SUBSET Nat /\ T # {}
    BY SMT
  <2>2. \E m \in T : \A n \in T : m <= n
    <3> HIDE DEF T
    <3> QED BY <2>1, LeastExists
  <2>3. PICK b \in cs : \A n \in T : 3 - b.validity <= n
    BY <2>2
  <2>4. \A e \in cs : 3 - b.validity <= 3 - e.validity
    BY <2>3
  <2> QED BY <2>4, SMT
<1> DEFINE best == {c \in cs : c.validity = b.validity}
           own  == {c \in best : c.nn[1] = ns}
           near == IF own = {} THEN best ELSE own
<1>2. near # {} /\ near \subseteq cs
  OBVIOUS
<1>3. \A c \in near, e \in cs \ near : Before(c, e, ns)
  BY <1>1, SMT DEF Before
<1>4. \A c, e \in near : /\ c.validity = e.validity
                        /\ (c.nn[1] = ns) = (e.nn[1] = ns)
  OBVIOUS
<1> HIDE DEF near, best, own
<1>5. PICK s \in near : \A e \in near : s.nn[1] <= e.nn[1]
  <2> DEFINE T == {c.nn[1] : c \in near}
  <2>1. T \in SUBSET Nat /\ T # {}
    BY <1>2, SMT
  <2>2. \E m \in T : \A n \in T : m <= n
    <3> HIDE DEF T
    <3> QED BY <2>1, LeastExists
  <2> QED BY <2>2
<1> DEFINE first == {c \in near : c.nn[1] = s.nn[1]}
<1>6. PICK r \in first : \A e \in first : r.nn[2] <= e.nn[2]
  <2> DEFINE T == {c.nn[2] : c \in first}
  <2>1. T \in SUBSET Nat /\ T # {}
    BY <1>2
  <2>2. \E m \in T : \A n \in T : m <= n
    <3> HIDE DEF T
    <3> QED BY <2>1, LeastExists
  <2> QED BY <2>2
<1>7. ASSUME NEW e \in near \ {r}
      PROVE  Before(r, e, ns)
  <2>1. /\ r \in near /\ e \in near
        /\ r.validity = e.validity /\ (r.nn[1] = ns) = (e.nn[1] = ns)
        /\ r \in [nn : Nat \X Nat, validity : 1..3]
        /\ e \in [nn : Nat \X Nat, validity : 1..3]
    BY <1>2, <1>4
  <2>2. CASE e.nn[1] = r.nn[1]
    <3>1. r.nn[2] <= e.nn[2]
      BY <1>6, <2>2
    <3>2. r.nn[2] # e.nn[2]
      BY <1>7, <2>1, <2>2, SMT
    <3> QED BY <2>1, <2>2, <3>1, <3>2, SMT DEF Before
  <2>3. CASE e.nn[1] # r.nn[1]
    <3>1. r.nn[1] <= e.nn[1]
      BY <1>5, <1>6
    <3> QED BY <2>1, <2>3, <3>1, SMT DEF Before
  <2> QED BY <2>2, <2>3
<1>8. r \in cs /\ \A e \in cs \ {r} : Before(r, e, ns)
  BY <1>2, <1>3, <1>7
<1> QED BY <1>8

(* What GetBestSecretWithValidity returns.                                 *)
LEMMA BestOf ==
    ASSUME Inv, NEW d, NEW ns, NEW t \in Nat
    PROVE  LET best == GetBestSecretWithValidity(d, ns, t)
           IN  \/ Listing(d) = {} /\ best = Missing
               \/ \E nn \in Listing(d) :
                    /\ best = Candidate(nn, t)
                    /\ \A m \in Listing(d) \ {nn} :
                        Before(Candidate(nn, t), Candidate(m, t), ns)
<1> DEFINE cs == Candidates(d, t)
           best == GetBestSecretWithValidity(d, ns, t)
<1>1. cs = {Candidate(nn, t) : nn \in Listing(d)}
  BY CandidatesExact
<1>2. CASE Listing(d) = {}
  BY <1>1, <1>2, SMT DEF GetBestSecretWithValidity
<1>3. CASE Listing(d) # {}
  <2>1. cs \in SUBSET [nn : Nat \X Nat, validity : 1..3]
    <3>1. ASSUME NEW nn \in Listing(d)
          PROVE  Candidate(nn, t) \in [nn : Nat \X Nat, validity : 1..3]
      BY CandidatesExact, ValidityTells DEF Candidate
    <3> HIDE DEF cs
    <3> QED BY <1>1, <3>1
  <2>2. cs # {}
    BY <1>1, <1>3
  <2>3. \E c \in cs : \A e \in cs \ {c} : Before(c, e, ns)
    <3> HIDE DEF cs
    <3> QED BY <2>1, <2>2, FirstExists
  <2>4. best \in cs /\ \A e \in cs \ {best} : Before(best, e, ns)
    <3>1. best = CHOOSE c \in cs : \A e \in cs \ {c} : Before(c, e, ns)
      BY <2>2 DEF GetBestSecretWithValidity
    <3> HIDE DEF cs, best
    <3> QED BY <2>3, <3>1
  <2> HIDE DEF cs, best
  <2>5. PICK nn \in Listing(d) : best = Candidate(nn, t)
    BY <1>1, <2>4
  <2>6. \A m \in Listing(d) \ {nn} : Candidate(m, t) \in cs /\ Candidate(m, t) # best
    BY <1>1, <2>5 DEF Candidate
  <2>7. \A m \in Listing(d) \ {nn} : Before(Candidate(nn, t), Candidate(m, t), ns)
    BY <2>4, <2>5, <2>6
  <2> QED BY <2>5, <2>7 DEF best
<1> QED BY <1>2, <1>3

(* The best secret holds if a secret for the domain does, and only a       *)
(* secret that holds is called valid.                                      *)
LEMMA BestHolds ==
    ASSUME Inv, NEW d, NEW ns, NEW t \in Nat
    PROVE  LET best == GetBestSecretWithValidity(d, ns, t)
               hold == {nn \in Listing(d) : HoldsAt(nn, t)}
           IN  /\ hold # {} => best.validity = Valid
               /\ best.validity = Valid => best.nn \in hold
               /\ best = Missing => best.validity # Valid
<1> DEFINE best == GetBestSecretWithValidity(d, ns, t)
           hold == {nn \in Listing(d) : HoldsAt(nn, t)}
<1>1. ASSUME Listing(d) = {} /\ best = Missing
      PROVE  /\ hold # {} => best.validity = Valid
             /\ best.validity = Valid => best.nn \in hold
             /\ best = Missing => best.validity # Valid
  BY <1>1, SMT DEF Missing, Valid, NotFound
<1>2. ASSUME NEW nn \in Listing(d), best = Candidate(nn, t),
             \A m \in Listing(d) \ {nn} : Before(Candidate(nn, t), Candidate(m, t), ns)
      PROVE  /\ hold # {} => best.validity = Valid
             /\ best.validity = Valid => best.nn \in hold
             /\ best = Missing => best.validity # Valid
  <2>1. ASSUME NEW m \in Listing(d)
        PROVE  /\ Candidate(m, t).validity \in 1..3
               /\ Candidate(m, t).validity = Valid <=> HoldsAt(m, t)
    BY CandidatesExact, ValidityTells DEF Candidate
  <2>2. ASSUME NEW m \in Listing(d)
        PROVE  Candidate(m, t).validity <= Candidate(nn, t).validity
    <3>1. CASE m = nn
      BY <2>1, <3>1, SMT
    <3>2. CASE m # nn
      BY <1>2, <2>1, <3>2, SMT DEF Before
    <3> QED BY <3>1, <3>2
  <2>3. best.nn = nn /\ best.validity = Candidate(nn, t).validity
    BY <1>2, SMT DEF Candidate
  <2> HIDE DEF best
  <2>4. hold # {} => best.validity = Valid
    <3> SUFFICES ASSUME NEW m \in Listing(d), HoldsAt(m, t)
                 PROVE  best.validity = Valid
      OBVIOUS
    <3>1. Candidate(m, t).validity = 3
      BY <2>1 DEF Valid
    <3>2. Candidate(nn, t).validity \in 1..3 /\ 3 <= Candidate(nn, t).validity
      BY <2>1, <2>2, <3>1
    <3>3. Candidate(nn, t).validity = 3
      BY <3>2, SMT
    <3> QED BY <2>3, <3>3 DEF Valid
  <2>5. best.validity = Valid => best.nn \in hold
    BY <2>1, <2>3
  <2>6. best = Missing => best.validity # Valid
    BY SMT DEF Missing, Valid, NotFound
  <2> QED BY <2>4, <2>5, <2>6
<1> QED
  <2> HIDE DEF best, hold
  <2>1. \/ Listing(d) = {} /\ best = Missing
        \/ \E nn \in Listing(d) :
            /\ best = Candidate(nn, t)
            /\ \A m \in Listing(d) \ {nn} :
                Before(Candidate(nn, t), Candidate(m, t), ns)
    BY BestOf DEF best
  <2>2. /\ hold # {} => best.validity = Valid
        /\ best.validity = Valid => best.nn \in hold
        /\ best = Missing => best.validity # Valid
    <3>1. CASE Listing(d) = {} /\ best = Missing
      BY <1>1, <3>1
    <3>2. ASSUME NEW nn \in Listing(d), best = Candidate(nn, t),
                 \A m \in Listing(d) \ {nn} :
                    Before(Candidate(nn, t), Candidate(m, t), ns)
          PROVE  /\ hold # {} => best.validity = Valid
                 /\ best.validity = Valid => best.nn \in hold
                 /\ best = Missing => best.validity # Valid
      BY <3>2, <1>2
    <3> QED BY <2>1, <3>1, <3>2
  <2> QED BY <2>2 DEF best, hold

(* GetDomainSecretWithWildcardFallback serves a certificate that holds     *)
(* whenever a stored secret for the domain or its wildcard has one, for    *)
(* any secrets, namespaces and clock, and although the two lookups read    *)
(* the clock one after the other.                                          *)
THEOREM ValidWins == Spec => []ValidSecretWins
<1>1. ASSUME Inv
      PROVE  ValidSecretWins
  <2> SUFFICES ASSUME NEW d \in Domain, NEW ns \in Namespace, NEW u \in {now, now + 1}
               PROVE  LET best  == GetDomainSecretWithWildcardFallback(d, ns, now, u)
                          exact == {nn \in Listing(d) : HoldsAt(nn, now)}
                          wild  == IF WildcardOf[d] = NONE THEN {}
                                   ELSE {nn \in Listing(WildcardOf[d]) : HoldsAt(nn, u)}
                      IN  exact \cup wild # {} => best.nn \in exact \cup wild
    BY DEF ValidSecretWins
  <2> DEFINE w     == WildcardOf[d]
             one   == GetBestSecretWithValidity(d, ns, now)
             other == GetBestSecretWithValidity(w, ns, u)
             exact == {nn \in Listing(d) : HoldsAt(nn, now)}
             star  == {nn \in Listing(w) : HoldsAt(nn, u)}
  <2>1. now \in Nat /\ u \in Nat
    BY <1>1, SMT DEF Inv
  <2>2. /\ exact # {} => one.validity = Valid
        /\ one.validity = Valid => one.nn \in exact
    BY <1>1, <2>1, BestHolds
  <2>3. /\ star # {} => other.validity = Valid
        /\ other.validity = Valid => other.nn \in star
    BY <1>1, <2>1, BestHolds
  <2>4. GetDomainSecretWithWildcardFallback(d, ns, now, u) =
            IF one.validity = Valid \/ w = NONE THEN one
            ELSE IF one = Missing \/ other.validity = Valid THEN other
            ELSE one
    BY DEF GetDomainSecretWithWildcardFallback
  <2> HIDE DEF one, other, exact, star
  <2>5. exact \cup (IF w = NONE THEN {} ELSE star) # {} =>
            GetDomainSecretWithWildcardFallback(d, ns, now, u).nn \in
                exact \cup (IF w = NONE THEN {} ELSE star)
    BY <2>2, <2>3, <2>4
  <2> QED BY <2>5 DEF exact, star
<1> QED BY InvHolds, <1>1, PTL

(* The comparison of candidates finds the one secret that narrowing by     *)
(* validity, namespace and alphabet leaves, for any secrets and clock.     *)
THEOREM OneChoice == Spec => []ChoiceDeterministic
<1>1. ASSUME Inv
      PROVE  ChoiceDeterministic
  <2> SUFFICES ASSUME NEW d \in Domain, NEW ns \in Namespace
               PROVE  NarrowedChoice(d, ns, now) =
                        LET best == GetBestSecretWithValidity(d, ns, now)
                        IN  IF best = Missing THEN {} ELSE {best.nn}
    BY DEF ChoiceDeterministic
  <2> DEFINE choice  == GetBestSecretWithValidity(d, ns, now)
             all     == Listing(d)
             rank(n) == Validity(ParseCertificateNotAfter(secrets[n]), now)
             best    == {n \in all : \A m \in all : rank(m) <= rank(n)}
             own     == {n \in best : n[1] = ns}
             near    == IF own = {} THEN best ELSE own
  <2>1. now \in Nat
    BY <1>1 DEF Inv
  <2>2. NarrowedChoice(d, ns, now) =
            {n \in near : \A m \in near : n[1] < m[1] \/ (n[1] = m[1] /\ n[2] <= m[2])}
    BY DEF NarrowedChoice
  <2>3. \A n \in all : n \in Nat \X Nat /\ rank(n) \in 1..3
    BY <1>1, <2>1, CandidatesExact, ValidityTells
  <2>4. ASSUME all = {} /\ choice = Missing
        PROVE  NarrowedChoice(d, ns, now) = {} /\ choice = Missing
    BY <2>2, <2>4
  <2>5. ASSUME NEW c \in all, choice = Candidate(c, now),
               \A m \in all \ {c} : Before(Candidate(c, now), Candidate(m, now), ns)
        PROVE  NarrowedChoice(d, ns, now) = {c} /\ choice # Missing /\ choice.nn = c
    <3>1. choice.nn = c /\ choice.validity = rank(c) /\ Missing.validity = 0
      BY <2>5, SMT DEF Candidate, Missing, NotFound
    <3>2. choice # Missing
      <4> HIDE DEF choice, all
      <4> QED BY <2>3, <3>1, SMT
    <3>3. ASSUME NEW m \in all, m # c
          PROVE  IF rank(c) # rank(m) THEN rank(c) > rank(m)
                 ELSE IF (c[1] = ns) # (m[1] = ns) THEN c[1] = ns
                 ELSE IF c[1] # m[1] THEN c[1] < m[1]
                 ELSE c[2] < m[2]
      BY <2>5, <3>3 DEF Before, Candidate
    <3> HIDE DEF choice, all, rank
    <3>4. c \in best
      BY <2>3, <3>3, SMT
    <3>5. \A n \in best : rank(n) = rank(c)
      BY <2>3, <3>4, SMT
    <3>6. c \in near
      BY <3>3, <3>4, <3>5
    <3>7. \A m \in near : m \in best /\ (c[1] = ns) = (m[1] = ns)
      BY <3>6
    <3>8. \A m \in near \ {c} : c[1] < m[1] \/ (c[1] = m[1] /\ c[2] < m[2])
      BY <3>3, <3>5, <3>7
    <3>9. \A m \in near : m \in Nat \X Nat
      BY <2>3
    <3> HIDE DEF near
    <3>10. NarrowedChoice(d, ns, now) = {c}
      BY <2>2, <3>6, <3>8, <3>9, SMT
    <3> QED BY <3>1, <3>2, <3>10
  <2>6. \/ all = {} /\ choice = Missing
        \/ \E c \in all :
            /\ choice = Candidate(c, now)
            /\ \A m \in all \ {c} : Before(Candidate(c, now), Candidate(m, now), ns)
    BY <1>1, <2>1, BestOf
  <2> HIDE DEF choice, all
  <2>7. NarrowedChoice(d, ns, now) = IF choice = Missing THEN {} ELSE {choice.nn}
    <3>1. CASE all = {} /\ choice = Missing
      BY <2>4, <3>1
    <3>2. ASSUME NEW c \in all, choice = Candidate(c, now),
                 \A m \in all \ {c} : Before(Candidate(c, now), Candidate(m, now), ns)
          PROVE  NarrowedChoice(d, ns, now) = IF choice = Missing THEN {} ELSE {choice.nn}
      <4>1. NarrowedChoice(d, ns, now) = {c} /\ choice # Missing /\ choice.nn = c
        BY <2>5, <3>2
      <4> QED BY <4>1
    <3> QED BY <2>6, <3>1, <3>2
  <2> QED BY <2>7 DEF choice
<1> QED BY InvHolds, <1>1, PTL

=============================================================================
