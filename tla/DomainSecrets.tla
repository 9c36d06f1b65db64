--------------------------- MODULE DomainSecrets ---------------------------
(***************************************************************************)
(* TLS secrets and the index from domains to secrets that a VirtualService *)
(* with autoDiscovery takes its certificates from.  A secret lists its     *)
(* domains in an annotation; the index keeps, for every domain, the        *)
(* secrets that list it with the time their certificates end.  Choosing a  *)
(* secret depends on the clock: certificates expire while nothing else     *)
(* happens.                                                                *)
(***************************************************************************)
EXTENDS Naturals, FiniteSets, SequencesExt

CONSTANTS
    SecretName,  \* <<namespace, name>>, numbered in alphabetical order
    Namespace,   \* namespaces of VirtualServices
    Domain,      \* domains, wildcard ones included
    WildcardOf,  \* Domain -> Domain: "*." and what follows the first label
    Annotations, \* lists of domains an annotation may hold; "" is blank
    Chains,      \* PEM blocks that tls.crt may hold
    MaxTime,     \* bound: the clock stops here
    NONE         \* no annotation, no data, no wildcard, no entry

ASSUME SecretNameAssumption == SecretName \subseteq Nat \X Nat

ASSUME InputAssumption ==
    /\ Annotations \subseteq Seq(Domain \cup {""}) \cup {NONE}
    /\ Chains \subseteq Seq(Nat) \cup {NONE}
    /\ WildcardOf \in [Domain -> Domain \cup {NONE}]
    /\ "" \notin Domain /\ NONE \notin Domain
    /\ NONE \notin [domains : Annotations, chain : Chains]
    /\ MaxTime \in Nat

VARIABLES
    secrets,  \* the stored secrets
    index,    \* domainSecretsIndex: domain -> secret -> NotAfter
    applied,  \* history: the secrets the reconciler has seen last
    now       \* the clock; 0 is Go's zero time and never the present

vars == <<secrets, index, applied, now>>

(* A secret: its annotation, and its certificate chain.  A block is the    *)
(* time its certificate ends, or 0 when it is no certificate.              *)
Secret == [domains : Annotations, chain : Chains]

(* The annotation split at its commas, without blanks.                     *)
DomainsOf(s) == IF s = NONE \/ s.domains = NONE THEN {} ELSE Range(s.domains) \ {""}

-----------------------------------------------------------------------------
(* Faulty variant: the last certificate of the chain decides.              *)
LastNotAfter(s) ==
    IF s.chain = NONE THEN 0
    ELSE FoldLeft(LAMBDA last, block : IF block = 0 THEN last ELSE block, 0, s.chain)

(* When the certificates of the chain end.                                 *)
Ends(s) == IF s.chain = NONE THEN {} ELSE Range(s.chain) \ {0}

(* The earliest end of a certificate in the chain, 0 when there is none.   *)
ParseCertificateNotAfter(s) == IF Ends(s) = {} THEN 0 ELSE Min(Ends(s))

EmptyMap == [x \in {} |-> NONE]

Entries(idx, d) == IF d \in DOMAIN idx THEN idx[d] ELSE EmptyMap

Put(map, x, y) == [z \in DOMAIN map \cup {x} |-> IF z = x THEN y ELSE map[z]]

Drop(map, x) == [z \in DOMAIN map \ {x} |-> map[z]]

(* Add and Remove of the index, for every domain of a secret.              *)
AddDomains(idx, nn, s) ==
    [d \in DOMAIN idx \cup DomainsOf(s) |->
        IF d \in DomainsOf(s)
        THEN Put(Entries(idx, d), nn, ParseCertificateNotAfter(s))
        ELSE idx[d]]

(* Faulty variant: a domain loses all its secrets.                         *)
RemoveWholeDomains(idx, nn, s) ==
    [d \in DOMAIN idx \ DomainsOf(s) |-> idx[d]]

RemoveDomains(idx, nn, s) ==
    LET left(d) == IF d \in DomainsOf(s) THEN Drop(idx[d], nn) ELSE idx[d]
    IN  [d \in {e \in DOMAIN idx : left(e) # EmptyMap} |-> left(d)]

-----------------------------------------------------------------------------
(* updateDomainSecretsMap, when the store is filled.                       *)
IndexOf(map) ==
    [d \in UNION {DomainsOf(map[nn]) : nn \in SecretName} |->
        [nn \in {m \in SecretName : d \in DomainsOf(map[m])} |->
            ParseCertificateNotAfter(map[nn])]]

Init ==
    /\ secrets \in [SecretName -> Secret \cup {NONE}]
    /\ index = IndexOf(secrets)
    /\ applied = secrets
    /\ now = 1

(* Faulty variant: the annotation is not compared.                         *)
SameData(a, b) == a.chain = b.chain

(* secretsEqual: two secrets without data are equal whatever they list.    *)
SecretsEqual(a, b) ==
    a.chain = b.chain /\ (a.chain = NONE \/ a.domains = b.domains)

SetSecret(nn, s) ==
    /\ secrets' = [secrets EXCEPT ![nn] = s]
    /\ index' = AddDomains(RemoveDomains(index, nn, secrets[nn]), nn, s)

ApplySecret(nn, s) ==
    /\ applied' = [applied EXCEPT ![nn] = s]
    /\ IF secrets[nn] # NONE /\ SecretsEqual(secrets[nn], s)
       THEN UNCHANGED <<secrets, index>>
       ELSE SetSecret(nn, s)
    /\ UNCHANGED now

DeleteSecret(nn) ==
    /\ secrets[nn] # NONE
    /\ applied' = [applied EXCEPT ![nn] = NONE]
    /\ secrets' = [secrets EXCEPT ![nn] = NONE]
    /\ index' = RemoveDomains(index, nn, secrets[nn])
    /\ UNCHANGED now

Tick ==
    /\ now < MaxTime
    /\ now' = now + 1
    /\ UNCHANGED <<secrets, index, applied>>

Next ==
    \/ \E nn \in SecretName : \E s \in Secret : ApplySecret(nn, s)
    \/ \E nn \in SecretName : DeleteSecret(nn)
    \/ Tick

Spec == Init /\ [][Next]_vars

-----------------------------------------------------------------------------
(* Choosing a secret.                                                      *)

(* validityPriority, in its order.                                         *)
Validity(notAfter, t) ==
    IF notAfter = 0 THEN 2 ELSE IF notAfter > t THEN 3 ELSE 1

NotFound == 0
Valid    == 3

(* The comparison that candidates are sorted by: validity, the             *)
(* VirtualService's own namespace, namespace, name.                        *)
Before(a, b, ns) ==
    IF a.validity # b.validity THEN a.validity > b.validity
    ELSE IF (a.nn[1] = ns) # (b.nn[1] = ns) THEN a.nn[1] = ns
    ELSE IF a.nn[1] # b.nn[1] THEN a.nn[1] < b.nn[1]
    ELSE a.nn[2] < b.nn[2]

Candidates(d, t) ==
    {[nn |-> nn, validity |-> Validity(index[d][nn], t)] :
        nn \in {m \in DOMAIN Entries(index, d) : secrets[m] # NONE}}

Missing == [nn |-> NONE, validity |-> NotFound]

(* Faulty variant: the namespace is compared before the validity.          *)
NearestSecret(d, ns, t) ==
    LET cs == Candidates(d, t)
        near == {c \in cs : c.nn[1] = ns}
        from == IF near = {} THEN cs ELSE near
    IN  IF cs = {} THEN Missing
        ELSE CHOOSE c \in from : \A e \in from \ {c} : Before(c, e, ns)

GetBestSecretWithValidity(d, ns, t) ==
    LET cs == Candidates(d, t)
    IN  IF cs = {} THEN Missing
        ELSE CHOOSE c \in cs : \A e \in cs \ {c} : Before(c, e, ns)

(* The exact domain is looked up at time t, the wildcard later, at u.      *)
GetDomainSecretWithWildcardFallback(d, ns, t, u) ==
    LET exact    == GetBestSecretWithValidity(d, ns, t)
        wildcard == GetBestSecretWithValidity(WildcardOf[d], ns, u)
    IN  IF exact.validity = Valid \/ WildcardOf[d] = NONE THEN exact
        ELSE IF exact = Missing \/ wildcard.validity = Valid THEN wildcard
        ELSE exact

-----------------------------------------------------------------------------
(* The index that SetSecret and DeleteSecret maintain is the one a rebuild *)
(* from the stored secrets gives: no domain of an earlier annotation, no   *)
(* entry lost because another secret listed the domain too, no outdated    *)
(* end of a certificate, no empty entry.                                   *)
IndexExact == index = IndexOf(secrets)

(* A secret with data is stored with the annotation and the certificates   *)
(* that were applied last: the early return of ApplySecret loses nothing.  *)
StoreFollowsApplied ==
    \A nn \in SecretName :
        /\ (secrets[nn] = NONE) <=> (applied[nn] = NONE)
        /\ applied[nn] # NONE =>
            /\ secrets[nn].chain = applied[nn].chain
            /\ applied[nn].chain # NONE => secrets[nn].domains = applied[nn].domains

(* Reference: a certificate chain holds as long as all of it does.         *)
HoldsAt(nn, t) ==
    /\ Ends(secrets[nn]) # {}
    /\ \A end \in Ends(secrets[nn]) : end > t

Listing(d) == {nn \in SecretName : d \in DomainsOf(secrets[nn])}

(* docs/tls.md: a valid certificate has the highest priority.  Whatever    *)
(* the namespaces, while a stored secret for the domain or its wildcard    *)
(* holds, the secret chosen for the domain holds, even when the two        *)
(* lookups see different times.                                            *)
ValidSecretWins ==
    \A d \in Domain, ns \in Namespace : \A u \in {now, now + 1} :
        LET best  == GetDomainSecretWithWildcardFallback(d, ns, now, u)
            exact == {nn \in Listing(d) : HoldsAt(nn, now)}
            wild  == IF WildcardOf[d] = NONE THEN {}
                     ELSE {nn \in Listing(WildcardOf[d]) : HoldsAt(nn, u)}
        IN  exact \cup wild # {} => best.nn \in exact \cup wild

(* Reference: candidates narrowed by one criterion after the other.        *)
NarrowedChoice(d, ns, t) ==
    LET all     == Listing(d)
        rank(n) == Validity(ParseCertificateNotAfter(secrets[n]), t)
        best    == {n \in all : \A m \in all : rank(m) <= rank(n)}
        own     == {n \in best : n[1] = ns}
        near    == IF own = {} THEN best ELSE own
    IN  {n \in near : \A m \in near : n[1] < m[1] \/ (n[1] = m[1] /\ n[2] <= m[2])}

(* The documented order, validity before namespace before alphabet, picks  *)
(* one secret and sorting the candidates finds it, so that repeated builds *)
(* of one state serve the same certificate.                                *)
ChoiceDeterministic ==
    \A d \in Domain, ns \in Namespace :
        NarrowedChoice(d, ns, now) =
            LET best == GetBestSecretWithValidity(d, ns, now)
            IN  IF best = Missing THEN {} ELSE {best.nn}

=============================================================================
