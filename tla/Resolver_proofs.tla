--------------------------- MODULE Resolver_proofs ---------------------------
(***************************************************************************)
(* Proofs about the client, for any policy, any objects the parties may    *)
(* answer with and any number of walks.                                    *)
(***************************************************************************)
EXTENDS Resolver, TLAPS

(* No step leaves the types. *)
LEMMA TypeStep ==
    ASSUME TypeOK, [Next]_vars
    PROVE  TypeOK'
<1> USE DEF TypeOK, Opt, Final, Stages, Bound, Fetched, NotSevered, Attested,
            Corroborated, Accepted
<1> USE DEF walk, client, clock
<1>1. ASSUME NEW p \in {"primary", "private"}, NEW a \in BOOLEAN, Start(p, a)
      PROVE  TypeOK'
  BY <1>1, MaxTimeAssumption, MaxWalksAssumption DEF Start, Times
<1>2. ASSUME NEW r \in RevocationLists \cup Failures, RefreshRevocations(r)
      PROVE  TypeOK'
  <2>1. LiveOf(r) \subseteq CredIds \X TrustedIssuers
    BY DEF LiveOf
  <2> QED BY <1>2, <2>1 DEF RefreshRevocations
<1>3. ASSUME NEW r \in Addrs \cup Failures, LookupAddr(r) PROVE TypeOK'
  <2>1. CASE r \in Failures /\ EndOn(r) /\ UNCHANGED addr
    BY <1>3, <2>1 DEF LookupAddr, EndOn
  <2>2. CASE r \in Addrs /\ addr' = r /\ pc' \in {"select", "refused"}
    BY <1>3, <2>2, NoObjectAssumption DEF LookupAddr
  <2> QED BY <1>3, <2>1, <2>2 DEF LookupAddr, Failures
<1>4. CASE SelectFactsUrl
  <2>1. addr \in Addrs => addr \in AgentAddr
    BY AnswersAssumption
  <2> QED BY <1>4, <2>1 DEF SelectFactsUrl, GoTo, AgentAddr
<1>5. ASSUME NEW r \in RegistryAnswers \cup Failures, FollowRegistry(r)
      PROVE  TypeOK'
  <2>1. r \in RegistryAnswers => r \in RegistryAnswer
    BY AnswersAssumption
  <2> QED BY <1>5, <2>1 DEF FollowRegistry, GoTo, EndOn, RegistryAnswer
<1>6. ASSUME NEW r \in Bundles \cup Failures, FetchFacts(r) PROVE TypeOK'
  <2>1. CASE r \in Failures /\ EndOn(r) /\ UNCHANGED bundle
    BY <1>6, <2>1 DEF FetchFacts, EndOn
  <2>2. CASE r \in Bundles /\ bundle' = r /\ pc' = "exit"
    <3>1. surfaced = {} /\ r # None
      BY <1>6, <2>2, NoObjectAssumption DEF FetchFacts
    <3> QED BY <1>6, <2>2, <3>1 DEF FetchFacts
  <2> QED BY <1>6, <2>1, <2>2 DEF FetchFacts, Failures
<1>7. CASE CheckSeverance
  BY <1>7 DEF CheckSeverance
<1>8. CASE VerifyProvider
  <2>1. pc = "provider" /\ bundle \in Bundle
    BY <1>8, AnswersAssumption DEF VerifyProvider
  <2>2. CASE pc' \in {"raised", "refused"} /\ UNCHANGED provider
    BY <1>8, <2>2 DEF VerifyProvider
  <2>3. CASE /\ CredentialVerdict(bundle.provider_vc) = "verified"
             /\ provider' = bundle.provider_vc
             /\ pc' \in {"auditor", "refused"}
    <3>1. bundle.provider_vc # None
      BY <2>3 DEF CredentialVerdict
    <3>2. bundle.provider_vc \in Credential
      BY <2>1, <3>1 DEF Bundle
    <3> QED BY <1>8, <2>1, <2>3, <3>1, <3>2 DEF VerifyProvider
  <2> QED BY <1>8, <2>2, <2>3 DEF VerifyProvider
<1>9. CASE VerifyAuditor
  <2>1. pc = "auditor" /\ bundle \in Bundle
    BY <1>9, AnswersAssumption DEF VerifyAuditor
  <2>2. CASE pc' \in {"threshold", "raised", "refused"} /\ UNCHANGED auditor
    BY <1>9, <2>2 DEF VerifyAuditor
  <2>3. CASE /\ bundle.auditor_vc # None /\ auditor' = bundle.auditor_vc
             /\ pc' \in {"threshold", "refused"}
    <3>1. bundle.auditor_vc \in Credential
      BY <2>1, <2>3 DEF Bundle
    <3> QED BY <1>9, <2>1, <2>3, <3>1 DEF VerifyAuditor
  <2> QED BY <1>9, <2>2, <2>3 DEF VerifyAuditor
<1>10. CASE EnforceThreshold
  BY <1>10 DEF EnforceThreshold
<1>11. CASE SurfaceContestations
  BY <1>11 DEF SurfaceContestations, FirstOfId
<1>12. CASE \E odd \in BOOLEAN : Act(odd)
  <2>1. provider \in Credential
    BY <1>12 DEF Act
  <2>2. provider.endpoint \in Opt(Endpoints)
    BY <2>1 DEF Credential
  <2> QED BY <1>12, <2>2 DEF Act
<1>13. CASE Tick
  BY <1>13, MaxTimeAssumption DEF Tick, Times
<1>14. CASE UNCHANGED vars
  BY <1>14 DEF vars
<1> QED BY <1>1, <1>2, <1>3, <1>4, <1>5, <1>6, <1>7, <1>8, <1>9, <1>10,
           <1>11, <1>12, <1>13, <1>14 DEF Next, Step

(* Nor does a client start outside of them. *)
LEMMA TypeInit ==
    ASSUME Init
    PROVE  TypeOK
<1> USE DEF TypeOK, Opt, Final, Stages, Bound, Fetched, NotSevered, Attested,
            Corroborated, Accepted
<1>1. now \in Times /\ since \in 0..now /\ walks \in 0..MaxWalks
  BY MaxTimeAssumption, MaxWalksAssumption DEF Init, Times
<1>2. act \in BOOLEAN
  BY DEF Init
<1> QED BY <1>1, <1>2 DEF Init

(* Every reachable state of the client is well typed, and each stage has *)
(* the objects it reads.                                                 *)
THEOREM TypeCorrect == Spec => []TypeOK
BY TypeInit, TypeStep, PTL DEF Spec
-----------------------------------------------------------------------------
(* With one entry per id nothing displaces an issuer's revocation: the      *)
(* dictionary has it.                                                       *)
LEMMA RevocationIsLive ==
    ASSUME NEW list \in Seq(Revocation), OneEntryPerId(list),
           NEW c \in Credential, RevokedByIssuer(c, list)
    PROVE  \/ <<c.id, c.issuer>> \in LiveOf(list)
           \/ <<c.status, c.issuer>> \in LiveOf(list)
<1>1. PICK n \in DOMAIN list : /\ Honoured(list[n])
                               /\ list[n].issuer_did = c.issuer
                               /\ list[n].credential_id \in {c.id, c.status}
  BY DEF RevokedByIssuer
<1> DEFINE k == list[n].credential_id
<1>2. list[n] \in Revocation /\ n \in Nat
  OBVIOUS
<1>3. k \in CredIds /\ c.issuer \in TrustedIssuers
  BY <1>1, <1>2 DEF Honoured, Revocation, Opt
<1>4. Named(list, k) = {n}
  BY <1>1 DEF Named, OneEntryPerId
<1>5. n <= n
  BY <1>2
<1>6. <<k, c.issuer>> \in LiveOf(list)
  <2> DEFINE e == <<k, c.issuer>>
  <2>1. e \in CredIds \X TrustedIssuers /\ e[1] = k /\ e[2] = c.issuer
    BY <1>3
  <2>2. \E l \in Named(list, e[1]) : /\ list[l].issuer_did = e[2]
                                     /\ \A m \in Named(list, e[1]) : m <= l
    BY <1>1, <1>4, <1>5, <2>1
  <2> HIDE DEF e
  <2>3. e \in LiveOf(list)
    BY <2>1, <2>2 DEF LiveOf
  <2> QED BY <2>3 DEF e
<1> QED BY <1>1, <1>6

(* What _verify_credential lets through is backed, when the dictionary is   *)
(* that of the last list.                                                   *)
LEMMA VerifiedIsBacked ==
    ASSUME TypeOK, live = LiveOf(lastList),
           NEW c \in Credential, CredentialVerdict(c) = "verified"
    PROVE  BackedNow(c)
<1>1. c # None
  BY NoObjectAssumption
<1>2. /\ VerifyCredential(c, TrustedIssuers, now) = "verified"
      /\ ~ IsRevoked(c, Revoked)
      /\ ~ LiveRevoked(c)
  BY <1>1 DEF CredentialVerdict
<1>3. Authentic(c, TrustedIssuers) /\ InWindow(c, now)
  BY <1>2 DEF VerifyCredential
<1>4. now \in since..now
  BY MaxTimeAssumption DEF TypeOK, Times
<1>5. lastList \in Seq(Revocation)
  <2>1. lastList \in RevocationLists \cup {<<>>}
    BY DEF TypeOK
  <2>2. <<>> \in Seq(Revocation)
    OBVIOUS
  <2> QED BY <2>1, <2>2, AnswersAssumption
<1>6. OneEntryPerId(lastList) => ~ RevokedByIssuer(c, lastList)
  BY <1>2, <1>5, RevocationIsLive DEF LiveRevoked
<1> QED BY <1>1, <1>2, <1>3, <1>4, <1>6 DEF BackedNow, Backed

(* Time passing takes nothing from a credential's backing. *)
LEMMA BackedOutlastsTicks ==
    ASSUME NEW c, NEW list, NEW from \in Nat, NEW to \in Nat, Backed(c, list, from, to)
    PROVE  Backed(c, list, from, to + 1)
<1>1. from..to \subseteq from..(to + 1)
  OBVIOUS
<1> QED BY <1>1 DEF Backed

(* After all checks, the objects the walk goes on with are right together. *)
LEMMA AcceptedIsVerified ==
    ASSUME TypeOK, WalkInvariant, pc \in Accepted
    PROVE  RestsOnVerified
<1> USE DEF Bound, Fetched, NotSevered, Attested, Corroborated, Accepted
<1>1. AddrVerified(addr) /\ addr # None /\ provider # None
  BY DEF WalkInvariant, TypeOK
<1>2. /\ ~ VerifySeverance(bundle.severance, addr.agent_did, addr.agent_id)
      /\ provider = bundle.provider_vc /\ BackedNow(provider)
      /\ provider.subject = addr.agent_did
      /\ auditor = bundle.auditor_vc
      /\ auditor # None => BackedNow(auditor) /\ auditor.subject = addr.agent_did
  BY DEF WalkInvariant
<1>3. ASSUME NEW i \in RequiredIssuers
      PROVE  \E c \in {provider, auditor} \ {None} : c.issuer = i
  <2>1. i \in VerifiedIssuers
    BY DEF WalkInvariant
  <2> QED BY <1>1, <2>1 DEF VerifiedIssuers
<1>4. acted # None => act /\ acted = provider.endpoint
  BY DEF WalkInvariant, RestsOnVerified
<1> QED BY <1>1, <1>2, <1>3, <1>4 DEF RestsOnVerified, AddrVerified

(* What a stage knows, the next one knows, and what it checked. *)
LEMMA WalkInvariantStep ==
    ASSUME TypeOK, WalkInvariant, [Next]_vars
    PROVE  WalkInvariant'
<1> USE DEF Final, Stages, Bound, Fetched, NotSevered, Attested, Corroborated, Accepted
<1> USE DEF walk, client, clock, WalkInvariant, BackedNow
<1>1. ASSUME NEW p \in {"primary", "private"}, NEW a \in BOOLEAN, Start(p, a)
      PROVE  WalkInvariant'
  BY <1>1 DEF Start
<1>2. ASSUME NEW r \in RevocationLists \cup Failures, RefreshRevocations(r)
      PROVE  WalkInvariant'
  BY <1>2 DEF RefreshRevocations
<1>3. ASSUME NEW r \in Addrs \cup Failures, LookupAddr(r) PROVE WalkInvariant'
  BY <1>3 DEF LookupAddr, EndOn
<1>4. CASE SelectFactsUrl
  BY <1>4 DEF SelectFactsUrl, GoTo
<1>5. ASSUME NEW r \in RegistryAnswers \cup Failures, FollowRegistry(r)
      PROVE  WalkInvariant'
  BY <1>5 DEF FollowRegistry, GoTo, EndOn
<1>6. ASSUME NEW r \in Bundles \cup Failures, FetchFacts(r) PROVE WalkInvariant'
  BY <1>6 DEF FetchFacts, EndOn
<1>7. CASE CheckSeverance
  BY <1>7 DEF CheckSeverance
<1>8. CASE VerifyProvider
  <2> DEFINE c == bundle.provider_vc
  <2>1. /\ pc = "provider" /\ auditor = None
        /\ UNCHANGED <<addr, bundle, auditor, act, acted, live, lastList, since, now>>
    BY <1>8 DEF VerifyProvider
  <2>2. CASE pc' \in {"raised", "refused"}
    BY <2>1, <2>2
  <2>3. CASE /\ CredentialVerdict(c) = "verified"
             /\ provider' = c /\ c.subject = addr.agent_did /\ pc' = "auditor"
    <3>1. bundle \in Bundle /\ c # None
      BY <2>1, <2>3, AnswersAssumption DEF TypeOK, Opt, CredentialVerdict
    <3>2. c \in Credential
      BY <3>1 DEF Bundle, Opt
    <3>3. BackedNow(c)
      BY <2>3, <3>2, VerifiedIsBacked
    <3> HIDE DEF c
    <3>4. BackedNow(provider)' /\ provider'.subject = addr.agent_did
      BY <2>1, <2>3, <3>3
    <3> QED BY <2>1, <2>3, <3>4 DEF c
  <2> QED BY <1>8, <2>2, <2>3 DEF VerifyProvider
<1>9. CASE VerifyAuditor
  <2> DEFINE c == bundle.auditor_vc
  <2>1. /\ pc = "auditor" /\ auditor = None
        /\ UNCHANGED <<addr, bundle, provider, act, acted, live, lastList, since, now>>
    BY <1>9 DEF VerifyAuditor
  <2>2. CASE pc' \in {"raised", "refused"}
    BY <2>1, <2>2
  <2>3. CASE c = None /\ auditor' = auditor /\ pc' = "threshold"
    BY <2>1, <2>3
  <2>4. CASE /\ c # None /\ CredentialVerdict(c) = "verified"
             /\ auditor' = c /\ c.subject = provider.subject /\ pc' = "threshold"
    <3>1. bundle \in Bundle
      BY <2>1, AnswersAssumption DEF TypeOK, Opt
    <3>2. c \in Credential
      BY <2>4, <3>1 DEF Bundle, Opt
    <3>3. BackedNow(c)
      BY <2>4, <3>2, VerifiedIsBacked
    <3> HIDE DEF c
    <3>4. BackedNow(auditor)' /\ auditor'.subject = addr.agent_did
      BY <2>1, <2>4, <3>3
    <3> QED BY <2>1, <2>4, <3>4 DEF c
  <2> QED BY <1>9, <2>2, <2>3, <2>4 DEF VerifyAuditor
<1>10. CASE EnforceThreshold
  BY <1>10 DEF EnforceThreshold, VerifiedIssuers
<1>11. CASE SurfaceContestations
  BY <1>11 DEF SurfaceContestations, VerifiedIssuers
<1>12. CASE \E odd \in BOOLEAN : Act(odd)
  <2>1. /\ pc = "act" /\ pc' \in {"raised", "resolved"} /\ acted' = provider.endpoint
        /\ UNCHANGED <<addr, bundle, provider, auditor, act, live, lastList, since, now>>
    BY <1>12 DEF Act
  <2>2. RestsOnVerified /\ act
    BY <2>1, AcceptedIsVerified
  <2>3. RestsOnVerified'
    BY <2>1, <2>2 DEF RestsOnVerified
  <2> QED BY <2>1, <2>3 DEF VerifiedIssuers
<1>13. CASE Tick
  <2>1. since \in Nat /\ now \in Nat
    BY MaxTimeAssumption DEF TypeOK, Times
  <2>2. /\ now' = now + 1
        /\ UNCHANGED <<pc, addr, bundle, provider, auditor, act, acted, live, lastList, since>>
    BY <1>13 DEF Tick
  <2>3. ASSUME BackedNow(provider) PROVE BackedNow(provider)'
    BY <2>1, <2>2, <2>3, BackedOutlastsTicks
  <2>4. ASSUME BackedNow(auditor) PROVE BackedNow(auditor)'
    BY <2>1, <2>2, <2>4, BackedOutlastsTicks
  <2> HIDE DEF BackedNow
  <2>5. ASSUME RestsOnVerified PROVE RestsOnVerified'
    BY <2>2, <2>3, <2>4, <2>5 DEF RestsOnVerified
  <2> QED BY <2>2, <2>3, <2>4, <2>5 DEF VerifiedIssuers
<1>14. CASE UNCHANGED vars
  BY <1>14 DEF vars, VerifiedIssuers, RestsOnVerified
<1> QED BY <1>1, <1>2, <1>3, <1>4, <1>5, <1>6, <1>7, <1>8, <1>9, <1>10,
           <1>11, <1>12, <1>13, <1>14 DEF Next, Step

(* What is known at each stage of a walk. *)
THEOREM WalkInvariance == Spec => []WalkInvariant
<1> USE DEF Final, Stages, Bound, Fetched, NotSevered, Attested, Corroborated, Accepted
<1>1. Init => WalkInvariant
  <2>1. LiveOf(<<>>) = {}
    BY DEF LiveOf, Named
  <2> QED BY <2>1 DEF Init, WalkInvariant
<1> QED BY <1>1, WalkInvariantStep, TypeCorrect, PTL DEF Spec

(* What the last stages know is what fail closed means. *)
LEMMA FailsClosedNow ==
    ASSUME TypeOK, WalkInvariant
    PROVE  FailClosed
<1>1. pc \in {"act", "resolved"} => RestsOnVerified
  BY AcceptedIsVerified DEF Accepted
<1> QED BY <1>1 DEF FailClosed, WalkInvariant

(* Fail closed: whatever the parties answer, a resolution that succeeds and *)
(* a call to an endpoint rest on objects that are right together.           *)
THEOREM FailsClosed == Spec => []FailClosed
BY FailsClosedNow, TypeCorrect, WalkInvariance, PTL
-----------------------------------------------------------------------------
(* Before a source of facts is chosen there is none, and the facts come     *)
(* after it.                                                                *)
SourceInvariant ==
    /\ pc \in {"idle", "refresh", "lookup", "select"} => role = None /\ url = None
    /\ pc \in {"idle", "refresh", "lookup", "select", "fetch"} => bundle = None
    /\ pc \in {"idle", "refresh", "lookup"} => addr = None
    /\ pc \in Fetched \cup {"fetch"} => url # None

(* A source is chosen once, before the facts are fetched. *)
LEMMA SourceStep ==
    ASSUME SourceInvariant, [Next]_vars
    PROVE  SourceInvariant'
<1> USE DEF SourceInvariant, Fetched, NotSevered, Attested, Corroborated, Accepted, Final
<1> USE DEF walk, client, clock
<1>1. ASSUME NEW p \in {"primary", "private"}, NEW a \in BOOLEAN, Start(p, a)
      PROVE  SourceInvariant'
  BY <1>1 DEF Start
<1>2. ASSUME NEW r \in RevocationLists \cup Failures, RefreshRevocations(r)
      PROVE  SourceInvariant'
  BY <1>2 DEF RefreshRevocations
<1>3. ASSUME NEW r \in Addrs \cup Failures, LookupAddr(r) PROVE SourceInvariant'
  BY <1>3 DEF LookupAddr, EndOn
<1>4. CASE SelectFactsUrl
  BY <1>4 DEF SelectFactsUrl, GoTo
<1>5. ASSUME NEW r \in RegistryAnswers \cup Failures, FollowRegistry(r)
      PROVE  SourceInvariant'
  BY <1>5 DEF FollowRegistry, GoTo, EndOn
<1>6. ASSUME NEW r \in Bundles \cup Failures, FetchFacts(r) PROVE SourceInvariant'
  BY <1>6 DEF FetchFacts, EndOn
<1>7. CASE CheckSeverance
  BY <1>7 DEF CheckSeverance
<1>8. CASE VerifyProvider
  BY <1>8 DEF VerifyProvider
<1>9. CASE VerifyAuditor
  BY <1>9 DEF VerifyAuditor
<1>10. CASE EnforceThreshold \/ SurfaceContestations \/ (\E odd \in BOOLEAN : Act(odd)) \/ Tick
  BY <1>10 DEF EnforceThreshold, SurfaceContestations, Act, Tick
<1>11. CASE UNCHANGED vars
  BY <1>11 DEF vars
<1> QED BY <1>1, <1>2, <1>3, <1>4, <1>5, <1>6, <1>7, <1>8, <1>9, <1>10, <1>11
           DEF Next, Step

(* resolve chooses its source of facts once, before it fetches them. *)
THEOREM SourceInvariance == Spec => []SourceInvariant
<1> USE DEF SourceInvariant, Fetched, NotSevered, Attested, Corroborated, Accepted, Final
<1>1. Init => SourceInvariant
  BY DEF Init
<1> QED BY <1>1, SourceStep, PTL DEF Spec

(* The requester is reported hidden only when it is: the source was chosen  *)
(* from what the signed address, or its registry, offers for that path, and *)
(* neither changes afterwards.                                              *)
THEOREM NeutralWhenOffered == Spec => []NeutralOnlyWhenOffered
<1> USE NoRoleAssumption DEF NeutralOnlyWhenOffered, Routed
<1>1. Init => NeutralOnlyWhenOffered
  BY DEF Init
<1>2. ASSUME SourceInvariant, NeutralOnlyWhenOffered, [Next]_vars
      PROVE  NeutralOnlyWhenOffered'
  <2> USE <1>2 DEF walk, client, clock
  <2>1. ASSUME NEW p \in {"primary", "private"}, NEW a \in BOOLEAN, Start(p, a)
        PROVE  NeutralOnlyWhenOffered'
    BY <2>1 DEF Start
  <2>2. ASSUME NEW r \in RevocationLists \cup Failures, RefreshRevocations(r)
        PROVE  NeutralOnlyWhenOffered'
    BY <2>2 DEF RefreshRevocations
  <2>3. ASSUME NEW r \in Addrs \cup Failures, LookupAddr(r)
        PROVE  NeutralOnlyWhenOffered'
    BY <2>3 DEF LookupAddr, SourceInvariant
  <2>4. CASE SelectFactsUrl
    BY <2>4 DEF SelectFactsUrl, GoTo
  <2>5. ASSUME NEW r \in RegistryAnswers \cup Failures, FollowRegistry(r)
        PROVE  NeutralOnlyWhenOffered'
    BY <2>5 DEF FollowRegistry, GoTo
  <2>6. ASSUME NEW r \in Bundles \cup Failures, FetchFacts(r)
        PROVE  NeutralOnlyWhenOffered'
    BY <2>6 DEF FetchFacts
  <2>7. CASE UNCHANGED <<path, addr, url, role>>
    BY <2>7
  <2>8. CASE CheckSeverance \/ VerifyProvider \/ VerifyAuditor \/ EnforceThreshold
             \/ SurfaceContestations \/ (\E odd \in BOOLEAN : Act(odd)) \/ Tick \/ UNCHANGED vars
    BY <2>7, <2>8 DEF CheckSeverance, VerifyProvider, VerifyAuditor, EnforceThreshold,
                      SurfaceContestations, Act, Tick, vars
  <2> QED BY <2>1, <2>2, <2>3, <2>4, <2>5, <2>6, <2>8 DEF Next, Step
<1> QED BY <1>1, <1>2, SourceInvariance, PTL DEF Spec
-----------------------------------------------------------------------------
(* Surfacing shows what has standing, and later steps leave it alone. *)
LEMMA StandingStep ==
    ASSUME TypeOK, WalkInvariant, SurfacedHaveStanding, [Next]_vars
    PROVE  SurfacedHaveStanding'
<1> USE DEF SurfacedHaveStanding, HasStanding, IdOf, OnlyOfItsId
<1> USE DEF walk, client, clock
<1>1. ASSUME NEW p \in {"primary", "private"}, NEW a \in BOOLEAN, Start(p, a)
      PROVE  SurfacedHaveStanding'
  BY <1>1 DEF Start
<1>2. ASSUME pc' \notin {"act", "resolved"}
      PROVE  SurfacedHaveStanding'
  BY <1>2
<1>3. ASSUME \/ \E r \in RevocationLists \cup Failures : RefreshRevocations(r)
             \/ \E r \in Addrs \cup Failures : LookupAddr(r)
             \/ SelectFactsUrl
             \/ \E r \in RegistryAnswers \cup Failures : FollowRegistry(r)
             \/ \E r \in Bundles \cup Failures : FetchFacts(r)
             \/ CheckSeverance \/ VerifyProvider \/ VerifyAuditor \/ EnforceThreshold
      PROVE  pc' \notin {"act", "resolved"}
  BY <1>3 DEF RefreshRevocations, LookupAddr, SelectFactsUrl, FollowRegistry, GoTo, EndOn,
              FetchFacts, CheckSeverance, VerifyProvider, VerifyAuditor, EnforceThreshold
<1>4. CASE SurfaceContestations
  <2> DEFINE list == bundle.contestations
             standing(n) == VerifyContestation(list[n], provider.subject, addr.agent_id)
  <2>1. /\ surfaced' = {n \in FirstOfId(list) : standing(n)}
        /\ UNCHANGED <<addr, bundle>>
    BY <1>4 DEF SurfaceContestations
  <2>2. provider.subject = addr.agent_did /\ bundle \in Bundle
    BY <1>4, AnswersAssumption
       DEF SurfaceContestations, WalkInvariant, TypeOK, Opt, Fetched, NotSevered, Attested,
           Corroborated, Accepted
  <2>3. DOMAIN list \subseteq Nat
    BY <2>2 DEF Bundle
  <2>4. ASSUME NEW m \in FirstOfId(list), NEW n \in FirstOfId(list),
               list[m].contestation_id = list[n].contestation_id
        PROVE  m = n
    <3>1. m \in Nat /\ n \in Nat /\ m >= 1 /\ n >= 1
      BY <2>2 DEF FirstOfId, Bundle
    <3>2. ~ (m < n) /\ ~ (n < m)
      BY <2>4, <3>1 DEF FirstOfId
    <3> QED BY <3>1, <3>2
  <2>5. ASSUME NEW n \in DOMAIN list, list[n].contestation_id # None,
               \A m \in DOMAIN list :
                   list[m].contestation_id = list[n].contestation_id => m = n
        PROVE  n \in FirstOfId(list)
    <3>1. list \in Seq(Contestation)
      BY <2>2 DEF Bundle
    <3>2. \A m \in 1..(n - 1) : m \in DOMAIN list /\ m # n
      BY <3>1
    <3> QED BY <2>5, <3>2 DEF FirstOfId
  <2>6. FirstOfId(list) \subseteq DOMAIN list
    BY DEF FirstOfId
  <2> QED BY <2>1, <2>2, <2>4, <2>5, <2>6
<1>5. CASE (\E odd \in BOOLEAN : Act(odd)) \/ Tick \/ UNCHANGED vars
  <2>1. /\ pc' \in {"act", "resolved"} => pc \in {"act", "resolved"}
        /\ UNCHANGED <<addr, bundle, surfaced>>
    BY <1>5 DEF Act, Tick, vars
  <2> QED BY <2>1
<1> QED BY <1>1, <1>2, <1>3, <1>4, <1>5 DEF Next, Step

(* The first entry of an id is shown if it has standing, whatever follows.  *)
FirstSurfaced ==
    pc \in {"act", "resolved"} =>
        \A n \in FirstOfId(bundle.contestations) : HasStanding(n) => n \in surfaced

LEMMA FirstStep ==
    ASSUME WalkInvariant, FirstSurfaced, [Next]_vars
    PROVE  FirstSurfaced'
<1> USE DEF FirstSurfaced, HasStanding, walk, client, clock
<1>1. CASE SurfaceContestations
  <2>1. provider.subject = addr.agent_did
    BY <1>1 DEF SurfaceContestations, WalkInvariant, Fetched, NotSevered, Attested,
                Corroborated, Accepted
  <2> QED BY <1>1, <2>1 DEF SurfaceContestations
<1>2. CASE (\E odd \in BOOLEAN : Act(odd)) \/ Tick \/ UNCHANGED vars
  <2>1. /\ pc' \in {"act", "resolved"} => pc \in {"act", "resolved"}
        /\ UNCHANGED <<addr, bundle, surfaced>>
    BY <1>2 DEF Act, Tick, vars
  <2> QED BY <2>1 DEF FirstOfId
<1>3. ASSUME ~ SurfaceContestations, ~ \E odd \in BOOLEAN : Act(odd), ~ Tick, Next
      PROVE  pc' \notin {"act", "resolved"}
  BY <1>3 DEF Next, Step, Start, RefreshRevocations, LookupAddr, SelectFactsUrl,
              FollowRegistry, GoTo, EndOn, FetchFacts, CheckSeverance, VerifyProvider,
              VerifyAuditor, EnforceThreshold
<1> QED BY <1>1, <1>2, <1>3

(* Both sides are shown: what is surfaced has standing, once per complaint, *)
(* and a complaint that is the only one under its id is not left out.       *)
THEOREM StandingSurfaced == Spec => []SurfacedHaveStanding
<1> USE DEF SurfacedHaveStanding, HasStanding, IdOf, OnlyOfItsId
<1>1. Init => SurfacedHaveStanding
  BY DEF Init
<1> QED BY <1>1, StandingStep, TypeCorrect, WalkInvariance, PTL DEF Spec
-----------------------------------------------------------------------------
(* Nothing gets into the dictionary that its issuer did not put on the list.*)
LEMMA LiveIsRevoked ==
    ASSUME live = LiveOf(lastList), NEW c, LiveRevoked(c)
    PROVE  RevokedByIssuer(c, lastList)
<1>1. ASSUME NEW k \in {c.id, c.status}, <<k, c.issuer>> \in LiveOf(lastList)
      PROVE  RevokedByIssuer(c, lastList)
  <2>1. PICK n \in Named(lastList, k) : lastList[n].issuer_did = c.issuer
    BY <1>1 DEF LiveOf
  <2> QED BY <2>1 DEF Named, RevokedByIssuer
<1> QED BY <1>1 DEF LiveRevoked

(* What _verify_credential is to let through at moment t. *)
Sound(c, t) == /\ VerifyCredential(c, TrustedIssuers, t) = "verified"
               /\ ~ IsRevoked(c, Revoked)
               /\ ~ RevokedByIssuer(c, lastList)

(* What it rejects is not sound at this moment. *)
LEMMA RejectedIsUnsound ==
    ASSUME live = LiveOf(lastList), NEW c, c # None, CredentialVerdict(c) = "rejected"
    PROVE  ~ Sound(c, now)
BY LiveIsRevoked DEF CredentialVerdict, Sound

(* The facts were not acceptable at some moment of the walk so far.         *)
Cause == \E t \in since..now : ~ Acceptable(addr, bundle, t)

RefusedLate == pc = "refused" /\ bundle # None => Cause

(* Every check that ends a walk contradicts a part of Acceptable at the     *)
(* moment of the check, which lies between since and now for good.          *)
LEMMA RefusedLateStep ==
    ASSUME TypeOK, SourceInvariant, WalkInvariant, RefusedLate, [Next]_vars
    PROVE  RefusedLate'
<1> USE DEF RefusedLate, walk, client, clock
<1>0. now \in since..now
  BY MaxTimeAssumption DEF TypeOK, Times
<1>1. ASSUME ~ Acceptable(addr, bundle, now), UNCHANGED <<addr, bundle, lastList, since, now>>
      PROVE  Cause'
  BY <1>0, <1>1 DEF Cause, Acceptable
<1>2. ASSUME NEW p \in {"primary", "private"}, NEW a \in BOOLEAN, Start(p, a)
      PROVE  RefusedLate'
  BY <1>2 DEF Start
<1>3. ASSUME pc' = "refused" => bundle' = None PROVE RefusedLate'
  BY <1>3
<1>4. ASSUME \/ \E r \in RevocationLists \cup Failures : RefreshRevocations(r)
             \/ \E r \in Addrs \cup Failures : LookupAddr(r)
             \/ SelectFactsUrl
             \/ \E r \in RegistryAnswers \cup Failures : FollowRegistry(r)
      PROVE  pc' = "refused" => bundle' = None
  BY <1>4 DEF RefreshRevocations, LookupAddr, SelectFactsUrl, FollowRegistry, SourceInvariant
<1>5. ASSUME NEW r \in Bundles \cup Failures, FetchFacts(r)
      PROVE  pc' = "refused" => bundle' = None
  BY <1>5 DEF FetchFacts, SourceInvariant
<1>6. CASE CheckSeverance
  <2>1. UNCHANGED <<addr, bundle, lastList, since, now>>
    BY <1>6 DEF CheckSeverance
  <2>2. pc' = "refused" => ~ Acceptable(addr, bundle, now)
    BY <1>6 DEF CheckSeverance, Acceptable
  <2> QED BY <1>1, <2>1, <2>2
<1>7. CASE VerifyProvider
  <2> DEFINE c == bundle.provider_vc
  <2>1. UNCHANGED <<addr, bundle, lastList, since, now>>
    BY <1>7 DEF VerifyProvider
  <2>2. pc' = "refused" => \/ CredentialVerdict(c) = "rejected"
                          \/ c.subject # addr.agent_did
    BY <1>7 DEF VerifyProvider
  <2>3. c # None /\ CredentialVerdict(c) = "rejected" => ~ Sound(c, now)
    BY RejectedIsUnsound DEF WalkInvariant
  <2>4. Acceptable(addr, bundle, now)
          => c # None /\ Sound(c, now) /\ c.subject = addr.agent_did
    BY DEF Acceptable, Sound
  <2> QED BY <1>1, <2>1, <2>2, <2>3, <2>4
<1>8. CASE VerifyAuditor
  <2> DEFINE c == bundle.auditor_vc
  <2>1. UNCHANGED <<addr, bundle, lastList, since, now>>
    BY <1>8 DEF VerifyAuditor
  <2>2. provider.subject = addr.agent_did
    BY <1>8 DEF VerifyAuditor, WalkInvariant, Attested
  <2>3. pc' = "refused" => c # None /\ (\/ CredentialVerdict(c) = "rejected"
                                       \/ c.subject # addr.agent_did)
    BY <1>8, <2>2 DEF VerifyAuditor
  <2>4. c # None /\ CredentialVerdict(c) = "rejected" => ~ Sound(c, now)
    BY RejectedIsUnsound DEF WalkInvariant
  <2>5. Acceptable(addr, bundle, now) /\ c # None
          => Sound(c, now) /\ c.subject = addr.agent_did
    BY DEF Acceptable, Sound
  <2> QED BY <1>1, <2>1, <2>3, <2>4, <2>5
<1>9. CASE EnforceThreshold
  <2>1. UNCHANGED <<addr, bundle, lastList, since, now>>
    BY <1>9 DEF EnforceThreshold
  <2>2. /\ provider = bundle.provider_vc /\ provider # None
        /\ auditor = bundle.auditor_vc
    BY <1>9 DEF EnforceThreshold, WalkInvariant, TypeOK, Attested, Corroborated
  <2>3. VerifiedIssuers = {c.issuer : c \in {bundle.provider_vc, bundle.auditor_vc} \ {None}}
    <3>1. CASE auditor = None
      BY <2>2, <3>1 DEF VerifiedIssuers
    <3>2. CASE auditor # None
      BY <2>2, <3>2 DEF VerifiedIssuers
    <3> QED BY <3>1, <3>2
  <2>4. pc' = "refused" => ~ RequiredIssuers \subseteq VerifiedIssuers
    BY <1>9 DEF EnforceThreshold
  <2>5. pc' = "refused" => ~ Acceptable(addr, bundle, now)
    BY <2>3, <2>4 DEF Acceptable
  <2> QED BY <1>1, <2>1, <2>5
<1>10. CASE SurfaceContestations \/ \E odd \in BOOLEAN : Act(odd)
  BY <1>10 DEF SurfaceContestations, Act
<1>11. CASE Tick
  <2>1. since..now \subseteq since..(now + 1)
    BY MaxTimeAssumption DEF TypeOK, Times
  <2>2. now' = now + 1 /\ UNCHANGED <<pc, addr, bundle, lastList, since>>
    BY <1>11 DEF Tick
  <2> QED BY <2>1, <2>2 DEF Cause, Acceptable
<1>12. CASE UNCHANGED vars
  BY <1>12 DEF vars, Cause, Acceptable
<1> QED BY <1>2, <1>3, <1>4, <1>5, <1>6, <1>7, <1>8, <1>9, <1>10, <1>11, <1>12
           DEF Next, Step

(* The client turns down only what was not acceptable at a moment of the    *)
(* walk.                                                                    *)
THEOREM RefusalsHaveCause == Spec => []RefusedForCause
<1> DEFINE Early == pc = "refused" /\ addr # None /\ url = None /\ ~ Routed
                      => \/ ~ AddrVerified(addr)
                         \/ IF path = "private" THEN addr.private_facts_url = None
                            ELSE addr.primary_facts_url = None
<1>0. RefusedForCause <=> RefusedLate /\ Early
  BY DEF RefusedForCause, RefusedLate, Cause
<1>1. Init => RefusedLate /\ Early
  BY DEF Init, RefusedLate
<1>2. ASSUME SourceInvariant, Early, [Next]_vars PROVE Early'
  <2> USE <1>2 DEF Routed, walk, client, clock, SourceInvariant, Fetched, NotSevered, Attested,
                   Corroborated, Accepted
  <2>1. ASSUME NEW p \in {"primary", "private"}, NEW a \in BOOLEAN, Start(p, a)
        PROVE  Early'
    BY <2>1 DEF Start
  <2>2. ASSUME NEW r \in RevocationLists \cup Failures, RefreshRevocations(r)
        PROVE  Early'
    BY <2>2 DEF RefreshRevocations
  <2>3. ASSUME NEW r \in Addrs \cup Failures, LookupAddr(r) PROVE Early'
    BY <2>3, NoObjectAssumption DEF LookupAddr, EndOn
  <2>4. CASE SelectFactsUrl
    BY <2>4 DEF SelectFactsUrl, GoTo
  <2>5. ASSUME NEW r \in RegistryAnswers \cup Failures, FollowRegistry(r)
        PROVE  Early'
    BY <2>5 DEF FollowRegistry
  <2>6. ASSUME NEW r \in Bundles \cup Failures, FetchFacts(r) PROVE Early'
    BY <2>6 DEF FetchFacts
  <2>7. CASE CheckSeverance
    BY <2>7 DEF CheckSeverance
  <2>8. CASE VerifyProvider \/ VerifyAuditor
    BY <2>8 DEF VerifyProvider, VerifyAuditor
  <2>9. CASE EnforceThreshold \/ SurfaceContestations \/ (\E odd \in BOOLEAN : Act(odd)) \/ Tick
    BY <2>9 DEF EnforceThreshold, SurfaceContestations, Act, Tick
  <2>10. CASE UNCHANGED vars
    BY <2>10 DEF vars
  <2> QED BY <2>1, <2>2, <2>3, <2>4, <2>5, <2>6, <2>7, <2>8, <2>9, <2>10 DEF Next, Step
<1> HIDE DEF Early
<1>3. Spec => [](RefusedLate /\ Early)
  BY <1>1, <1>2, RefusedLateStep, TypeCorrect, SourceInvariance, WalkInvariance, PTL DEF Spec
<1> QED BY <1>0, <1>3, PTL
=============================================================================
