------------------------------ MODULE Resolver ------------------------------
(***************************************************************************)
(* The client (src/client/resolver.py): one NandaClient resolving names    *)
(* one after another.  A walk asks the revocation list, the index, for an  *)
(* enterprise entry a registry, and a facts host; none of them is trusted, *)
(* so each may answer with any object of the constants below, with an HTTP *)
(* error or timeout (Unreachable), or with something that is not a JSON    *)
(* object (Garbled).  What stops a walk is either a VerificationFailure    *)
(* (pc = "refused") or another exception (pc = "raised").                  *)
(***************************************************************************)
EXTENDS TrustObjects, FiniteSets, Sequences

CONSTANTS
    ResolverDid, TrustedIssuers, RequiredIssuers, Revoked,   \* TrustPolicy
    Addrs,             \* what /resolve may answer
    RegistryAnswers,   \* what a registry may answer
    Bundles,           \* what a facts host may answer
    RevocationLists,   \* what /revocations may answer
    Unreachable, Garbled,
    MaxWalks           \* bound: resolutions in a behaviour

RegistryAnswer == [facts_url : Opt(Urls), private_facts_url : Opt(Urls)]

Bundle == [severance : Opt(Severance), provider_vc : Opt(Credential),
           auditor_vc : Opt(Credential), contestations : Seq(Contestation)]

ASSUME PolicyAssumption == /\ ResolverDid \in Dids
                           /\ TrustedIssuers \subseteq Dids
                           /\ RequiredIssuers \subseteq TrustedIssuers
                           /\ Revoked \subseteq CredIds
ASSUME AnswersAssumption == /\ Addrs \subseteq AgentAddr
                            /\ RegistryAnswers \subseteq RegistryAnswer
                            /\ Bundles \subseteq Bundle
                            /\ RevocationLists \subseteq Seq(Revocation)
ASSUME NoObjectAssumption == /\ None \notin Addrs /\ None \notin Bundles
                             /\ None \notin Credential /\ None \notin Severance
ASSUME NoRoleAssumption == None \notin {"primary", "neutral", "enterprise"}
ASSUME FailureAssumption ==
    \A x \in {Unreachable, Garbled} :
        /\ x \notin Addrs /\ x \notin RegistryAnswers
        /\ x \notin Bundles /\ x \notin RevocationLists
ASSUME MaxWalksAssumption == MaxWalks \in Nat

VARIABLES
    configured,   \* the client was given a revocation_url
    live,         \* _revoked_live, as pairs <<id, issuer>>
    pc, path, act,   \* the walk: its stage and the arguments of resolve
    addr,         \* signed_addr
    url, role,    \* facts_url, host_role
    bundle,
    provider, auditor,   \* verified credentials, None before
    surfaced,     \* indices in bundle of the contestations surfaced
    acted,        \* the endpoint called, None if none was
    now,          \* the clock
    walks,        \* resolutions begun
    since,        \* history: when the walk began
    lastList      \* history: the list of the last refresh that succeeded

walk == <<path, act, addr, url, role, bundle, provider, auditor, surfaced, acted>>
client == <<configured, live, lastList>>
clock == <<now, since, walks>>
vars == <<pc, walk, client, clock>>

Final == {"resolved", "refused", "raised"}
-----------------------------------------------------------------------------
(* A failed GET ends the walk; ok is what a usable answer leads to. *)
EndOn(answer) == pc' = IF answer = Garbled THEN "raised" ELSE "refused"

Start(p, a) ==
    /\ pc \in Final \cup {"idle"}
    /\ walks < MaxWalks
    /\ walks' = walks + 1
    /\ since' = now
    /\ pc' = "refresh"
    /\ path' = p /\ act' = a
    /\ addr' = None /\ url' = None /\ role' = None /\ bundle' = None
    /\ provider' = None /\ auditor' = None
    /\ surfaced' = {} /\ acted' = None
    /\ UNCHANGED <<client, now>>

(* An entry counts when a trusted issuer signed it. *)
Honoured(r) == /\ r.credential_id # None
               /\ r.issuer_did \in TrustedIssuers
               /\ SignedBy(r, r.issuer_did)

(* The dictionary built from the list, as its <<id, issuer>> pairs: a later *)
(* entry displaces an earlier one of the same id.                           *)
Named(list, c) == {n \in DOMAIN list : Honoured(list[n]) /\ list[n].credential_id = c}
LiveOf(list) ==
    {e \in CredIds \X TrustedIssuers :
        \E n \in Named(list, e[1]) : /\ list[n].issuer_did = e[2]
                                     /\ \A m \in Named(list, e[1]) : m <= n}

(* Mutant: an outage clears the set. *)
RefreshRevocations_Clears(answer) ==
    /\ pc = "refresh" /\ configured
    /\ pc' = IF answer = Garbled THEN "raised" ELSE "lookup"
    /\ live' = IF answer \in RevocationLists THEN LiveOf(answer) ELSE {}
    /\ lastList' = IF answer \in RevocationLists THEN answer ELSE lastList
    /\ UNCHANGED <<configured, walk, clock>>

(* _refresh_revocations: replace the set, or keep it when the list cannot  *)
(* be had.                                                                 *)
RefreshRevocations(answer) ==
    /\ pc = "refresh"
    /\ \/ /\ ~ configured
          /\ pc' = "lookup" /\ UNCHANGED client
       \/ /\ configured /\ answer = Garbled
          /\ pc' = "raised" /\ UNCHANGED client
       \/ /\ configured /\ answer = Unreachable
          /\ pc' = "lookup" /\ UNCHANGED client
       \/ /\ configured /\ answer \in RevocationLists
          /\ live' = LiveOf(answer) /\ lastList' = answer
          /\ pc' = "lookup" /\ UNCHANGED configured
    /\ UNCHANGED <<walk, clock>>

(* verify_agentaddr: the pinned resolver's signature, and an identity. *)
AddrVerified(a) == /\ a.vm = ResolverDid
                   /\ SignedBy(a, ResolverDid)
                   /\ a.agent_did # None

(* Hop 1 *)
LookupAddr(answer) ==
    /\ pc = "lookup"
    /\ \/ /\ answer \in {Unreachable, Garbled}
          /\ EndOn(answer) /\ UNCHANGED addr
       \/ /\ answer \in Addrs
          /\ addr' = answer
          /\ pc' = IF AddrVerified(answer) THEN "select" ELSE "refused"
    /\ UNCHANGED <<path, act, url, role, bundle, provider, auditor, surfaced,
                   acted, client, clock>>

Routed == addr.registration_type = "enterprise" /\ addr.registry_url # None

(* Where the walk goes on once a source of facts is chosen, or none is. *)
GoTo(u, r) ==
    IF u = None THEN pc' = "refused" /\ UNCHANGED <<url, role>>
    ELSE pc' = "fetch" /\ url' = u /\ role' = r

(* Hop 2, _select_facts_url *)
SelectFactsUrl ==
    /\ pc = "select" /\ ~ Routed
    /\ IF path = "private" THEN GoTo(addr.private_facts_url, "neutral")
       ELSE GoTo(addr.primary_facts_url, "primary")
    /\ UNCHANGED <<path, act, addr, bundle, provider, auditor, surfaced, acted,
                   client, clock>>

(* Mutant: the fallback to facts_url on the private path is reported hidden. *)
FollowRegistry_ClaimsNeutral(answer) ==
    /\ pc = "select" /\ Routed
    /\ answer \in RegistryAnswers
    /\ IF path = "private"
       THEN GoTo(IF answer.private_facts_url # None THEN answer.private_facts_url
                 ELSE answer.facts_url, "neutral")
       ELSE GoTo(answer.facts_url, "enterprise")
    /\ UNCHANGED <<path, act, addr, bundle, provider, auditor, surfaced, acted,
                   client, clock>>

(* Hop 2, _resolve_facts_url through the registry of an enterprise entry *)
FollowRegistry(answer) ==
    /\ pc = "select" /\ Routed
    /\ \/ /\ answer \in {Unreachable, Garbled}
          /\ EndOn(answer) /\ UNCHANGED <<url, role>>
       \/ /\ answer \in RegistryAnswers
          /\ IF path = "private" /\ answer.private_facts_url # None
             THEN GoTo(answer.private_facts_url, "neutral")
             ELSE GoTo(answer.facts_url, "enterprise")
    /\ UNCHANGED <<path, act, addr, bundle, provider, auditor, surfaced, acted,
                   client, clock>>

(* Hop 3 *)
FetchFacts(answer) ==
    /\ pc = "fetch"
    /\ \/ /\ answer \in {Unreachable, Garbled}
          /\ EndOn(answer) /\ UNCHANGED bundle
       \/ /\ answer \in Bundles
          /\ bundle' = answer /\ pc' = "exit"
    /\ UNCHANGED <<path, act, addr, url, role, provider, auditor, surfaced, acted,
                   client, clock>>

(* The exit gate, _check_severance *)
CheckSeverance ==
    /\ pc = "exit"
    /\ pc' = IF VerifySeverance(bundle.severance, addr.agent_did, addr.agent_id)
             THEN "refused" ELSE "provider"
    /\ UNCHANGED <<walk, client, clock>>

(* Mutant: anyone's revocation counts. *)
LiveRevoked_ByAnyone(c) == \E e \in live : e[1] \in {c.id, c.status}

(* Mutant: only the status entry is looked up, not the credential id. *)
LiveRevoked_ByStatus(c) == <<c.status, c.issuer>> \in live

(* A live revocation counts when the credential's own issuer signed it. *)
LiveRevoked(c) == <<c.id, c.issuer>> \in live \/ <<c.status, c.issuer>> \in live

(* _verify_credential; None stands for an absent token. *)
CredentialVerdict(c) ==
    IF c = None THEN "rejected"
    ELSE IF VerifyCredential(c, TrustedIssuers, now) # "verified"
         THEN VerifyCredential(c, TrustedIssuers, now)
    ELSE IF IsRevoked(c, Revoked) \/ LiveRevoked(c) THEN "rejected" ELSE "verified"

(* Mutant: the provider's credential is optional, as the auditor's is. *)
VerifyProvider_Optional ==
    /\ pc = "provider"
    /\ \/ bundle.provider_vc = None /\ UNCHANGED provider
       \/ /\ CredentialVerdict(bundle.provider_vc) = "verified"
          /\ provider' = bundle.provider_vc
    /\ pc' = "auditor"
    /\ UNCHANGED <<path, act, addr, url, role, bundle, auditor, surfaced, acted,
                   client, clock>>

(* Hop 4 *)
VerifyProvider ==
    LET c == bundle.provider_vc
        verdict == CredentialVerdict(c)
    IN  /\ pc = "provider"
        /\ \/ verdict = "raises" /\ pc' = "raised" /\ UNCHANGED provider
           \/ verdict = "rejected" /\ pc' = "refused" /\ UNCHANGED provider
           \/ /\ verdict = "verified"
              /\ provider' = c
              /\ pc' = IF c.subject = addr.agent_did THEN "auditor" ELSE "refused"
        /\ UNCHANGED <<path, act, addr, url, role, bundle, auditor, surfaced, acted,
                       client, clock>>

(* Hop 5, without the threshold; a bundle may come without an audit. *)
VerifyAuditor ==
    LET c == bundle.auditor_vc
        verdict == CredentialVerdict(c)
    IN  /\ pc = "auditor"
        /\ \/ c = None /\ pc' = "threshold" /\ UNCHANGED auditor
           \/ /\ c # None /\ verdict = "raises"
              /\ pc' = "raised" /\ UNCHANGED auditor
           \/ /\ c # None /\ verdict = "rejected"
              /\ pc' = "refused" /\ UNCHANGED auditor
           \/ /\ c # None /\ verdict = "verified"
              /\ auditor' = c
              /\ pc' = IF c.subject = provider.subject THEN "threshold" ELSE "refused"
        /\ UNCHANGED <<path, act, addr, url, role, bundle, provider, surfaced, acted,
                       client, clock>>

VerifiedIssuers ==
    {provider.issuer} \cup (IF auditor = None THEN {} ELSE {auditor.issuer})

EnforceThreshold ==
    /\ pc = "threshold"
    /\ pc' = IF RequiredIssuers \subseteq VerifiedIssuers THEN "surface" ELSE "refused"
    /\ UNCHANGED <<walk, client, clock>>

(* Mutant: no de-duplication. *)
FirstOfId_All(list) == {n \in DOMAIN list : list[n].contestation_id # None}

(* Hop 6: the first entry of every id is kept, then it is verified. *)
FirstOfId(list) ==
    {n \in DOMAIN list :
        /\ list[n].contestation_id # None
        /\ \A m \in 1..(n - 1) : list[m].contestation_id # list[n].contestation_id}

SurfaceContestations ==
    /\ pc = "surface"
    /\ surfaced' = {n \in FirstOfId(bundle.contestations) :
                      VerifyContestation(bundle.contestations[n],
                                         provider.subject, addr.agent_id)}
    /\ pc' = IF act THEN "act" ELSE "resolved"
    /\ UNCHANGED <<path, act, addr, url, role, bundle, provider, auditor, acted,
                   client, clock>>

(* Hop 7: the call may fail, the resolution has succeeded all the same; but *)
(* an answer in JSON that is no object (odd) is asked for its output        *)
(* outside the try, after the call was made.                                *)
Act(odd) ==
    /\ pc = "act"
    /\ acted' = provider.endpoint
    /\ pc' = IF odd /\ provider.endpoint # None THEN "raised" ELSE "resolved"
    /\ UNCHANGED <<path, act, addr, url, role, bundle, provider, auditor, surfaced,
                   client, clock>>

Tick == /\ now < MaxTime
        /\ now' = now + 1
        /\ UNCHANGED <<pc, walk, client, since, walks>>

Init ==
    /\ configured \in BOOLEAN
    /\ live = {} /\ lastList = <<>>
    /\ pc = "idle" /\ path = "primary" /\ act = FALSE
    /\ addr = None /\ url = None /\ role = None /\ bundle = None
    /\ provider = None /\ auditor = None /\ surfaced = {} /\ acted = None
    /\ now = 0 /\ since = 0 /\ walks = 0

Failures == {Unreachable, Garbled}

Step ==
    \/ \E r \in RevocationLists \cup Failures : RefreshRevocations(r)
    \/ \E r \in Addrs \cup Failures : LookupAddr(r)
    \/ SelectFactsUrl
    \/ \E r \in RegistryAnswers \cup Failures : FollowRegistry(r)
    \/ \E r \in Bundles \cup Failures : FetchFacts(r)
    \/ CheckSeverance \/ VerifyProvider \/ VerifyAuditor \/ EnforceThreshold
    \/ SurfaceContestations
    \/ \E odd \in BOOLEAN : Act(odd)

Next == \/ \E p \in {"primary", "private"}, a \in BOOLEAN : Start(p, a)
        \/ Step
        \/ Tick

(* No fairness: httpx's timeout is one for each read, so a server that sends *)
(* a byte now and then keeps a walk for as long as it likes.                 *)
Spec == Init /\ [][Next]_vars
-----------------------------------------------------------------------------
Stages == {"idle", "refresh", "lookup", "select", "fetch", "exit", "provider",
           "auditor", "threshold", "surface", "act"} \cup Final

(* The stages after each of the checks. *)
Accepted == {"surface", "act", "resolved"}
Corroborated == {"threshold"} \cup Accepted
Attested == {"auditor"} \cup Corroborated
NotSevered == {"provider"} \cup Attested
Fetched == {"exit"} \cup NotSevered
Bound == {"select", "fetch"} \cup Fetched

TypeOK ==
    /\ configured \in BOOLEAN
    /\ live \subseteq CredIds \X TrustedIssuers
    /\ lastList \in RevocationLists \cup {<<>>}
    /\ pc \in Stages
    /\ path \in {"primary", "private"} /\ act \in BOOLEAN
    /\ addr \in Opt(Addrs) /\ bundle \in Opt(Bundles)
    /\ url \in Opt(Urls) /\ role \in Opt({"primary", "neutral", "enterprise"})
    /\ provider \in Opt(Credential) /\ auditor \in Opt(Credential)
    /\ surfaced # {} => /\ pc \in {"act"} \cup Final /\ bundle # None
                        /\ surfaced \subseteq DOMAIN bundle.contestations
    /\ acted \in Opt(Endpoints)
    /\ pc \in Bound => addr # None
    /\ pc \in Fetched => bundle # None
    /\ pc \in Attested => provider # None
    /\ now \in Times /\ since \in 0..now
    /\ walks \in 0..MaxWalks

(* The index serves one entry per credential id. *)
OneEntryPerId(list) ==
    \A m, n \in DOMAIN list :
        list[m].credential_id = list[n].credential_id => m = n

(* The issuer of c revoked it on this list. *)
RevokedByIssuer(c, list) ==
    \E n \in DOMAIN list :
        /\ Honoured(list[n])
        /\ list[n].issuer_did = c.issuer
        /\ list[n].credential_id \in {c.id, c.status}

(* c is an authentic credential of a trusted issuer, valid at some moment   *)
(* between from and to, and revoked neither by the policy nor by its issuer *)
(* on this list.                                                            *)
Backed(c, list, from, to) ==
    /\ c # None
    /\ Authentic(c, TrustedIssuers)
    /\ \E t \in from..to : InWindow(c, t)
    /\ ~ IsRevoked(c, Revoked)
    /\ OneEntryPerId(list) => ~ RevokedByIssuer(c, list)

(* Backed during this walk, as far as the client could last learn. *)
BackedNow(c) == Backed(c, lastList, since, now)

(* The objects a success or a call rests on, taken together, are right. *)
RestsOnVerified ==
    /\ addr.vm = ResolverDid /\ SignedBy(addr, ResolverDid)
    /\ addr.agent_did # None
    /\ ~ VerifySeverance(bundle.severance, addr.agent_did, addr.agent_id)
    /\ provider = bundle.provider_vc /\ BackedNow(provider)
    /\ provider.subject = addr.agent_did
    /\ auditor = bundle.auditor_vc
    /\ auditor # None => BackedNow(auditor) /\ auditor.subject = addr.agent_did
    /\ \A i \in RequiredIssuers : \E c \in {provider, auditor} \ {None} : c.issuer = i
    /\ acted # None => act /\ acted = provider.endpoint

(* Fail closed ("nothing unverified is ever acted on", resolver.py:9-10):   *)
(* whenever a resolution succeeds or an endpoint was called, also when the  *)
(* call then raised, it rests on what is right.  The registry's and the     *)
(* host's answers are bound to the index's by its signature alone;          *)
(* revocations learnt in an earlier walk count as long as no newer list was *)
(* had.                                                                     *)
FailClosed == pc \in {"act", "resolved"} \/ acted # None => RestsOnVerified

(* What each stage knows: the inductive invariant behind FailClosed.  The   *)
(* last conjunct ties the dictionary the checks read to the list it was     *)
(* read from.                                                               *)
WalkInvariant ==
    /\ pc \in Bound => AddrVerified(addr)
    /\ pc \in NotSevered =>
          ~ VerifySeverance(bundle.severance, addr.agent_did, addr.agent_id)
    /\ pc \in Attested => /\ provider = bundle.provider_vc /\ BackedNow(provider)
                          /\ provider.subject = addr.agent_did
    /\ pc \notin Corroborated \cup Final => auditor = None
    /\ pc \in Corroborated =>
          /\ auditor = bundle.auditor_vc
          /\ auditor # None => BackedNow(auditor) /\ auditor.subject = addr.agent_did
    /\ pc \in Accepted => RequiredIssuers \subseteq VerifiedIssuers
    /\ pc = "act" => act
    /\ pc \notin {"resolved", "raised"} => acted = None
    /\ acted # None => RestsOnVerified
    /\ live = LiveOf(lastList)

(* The same objects judged at one moment: all a walk may ask of them. *)
Acceptable(a, b, t) ==
    LET sound(c) == /\ VerifyCredential(c, TrustedIssuers, t) = "verified"
                    /\ ~ IsRevoked(c, Revoked)
                    /\ ~ RevokedByIssuer(c, lastList)
    IN  /\ AddrVerified(a)
        /\ ~ VerifySeverance(b.severance, a.agent_did, a.agent_id)
        /\ b.provider_vc # None /\ sound(b.provider_vc)
        /\ b.provider_vc.subject = a.agent_did
        /\ b.auditor_vc # None => /\ sound(b.auditor_vc)
                                  /\ b.auditor_vc.subject = a.agent_did
        /\ RequiredIssuers \subseteq
               {c.issuer : c \in {b.provider_vc, b.auditor_vc} \ {None}}

(* No refusal without a cause: once the facts are fetched, the client turns *)
(* down only what was not acceptable at some moment of the walk, neither a  *)
(* bad severance nor another issuer's revocation stops it; before that, it  *)
(* turns down only an unreachable party, an address that does not verify or *)
(* one that names no source of facts for the path.                          *)
RefusedForCause ==
    /\ pc = "refused" /\ bundle # None
          => \E t \in since..now : ~ Acceptable(addr, bundle, t)
    /\ pc = "refused" /\ addr # None /\ url = None /\ ~ Routed
          => \/ ~ AddrVerified(addr)
             \/ IF path = "private" THEN addr.private_facts_url = None
                ELSE addr.primary_facts_url = None

HasStanding(n) == VerifyContestation(bundle.contestations[n], addr.agent_did,
                                     addr.agent_id)
IdOf(n) == bundle.contestations[n].contestation_id
OnlyOfItsId(n) == \A m \in DOMAIN bundle.contestations : IdOf(m) = IdOf(n) => m = n

(* Both sides are shown: what is surfaced has standing against this agent's *)
(* key and registry entry and is one per complaint, and a complaint with    *)
(* standing is surfaced if no other entry of the bundle goes by its id.     *)
SurfacedHaveStanding ==
    pc \in {"act", "resolved"} =>
        /\ \A m, n \in surfaced : HasStanding(n) /\ (IdOf(m) = IdOf(n) => m = n)
        /\ \A n \in DOMAIN bundle.contestations :
              HasStanding(n) /\ IdOf(n) # None /\ OnlyOfItsId(n) => n \in surfaced

(* The requester is reported hidden only on the private path and only when  *)
(* the facts come from a URL that the signed address, or the registry it    *)
(* names, offers for that path (resolver.py:16-18).                         *)
NeutralOnlyWhenOffered ==
    role = "neutral" =>
        /\ path = "private"
        /\ IF Routed THEN \E r \in RegistryAnswers : url = r.private_facts_url
           ELSE url = addr.private_facts_url
-----------------------------------------------------------------------------
(* Statements of the source that the code does not keep.                    *)

(* "The client never silently drops a contestation that has standing"       *)
(* (resolver.py:368).                                                       *)
NoStandingDropped ==
    pc \in {"act", "resolved"} =>
        \A n \in DOMAIN bundle.contestations :
            HasStanding(n) /\ IdOf(n) # None
                => \E m \in surfaced : IdOf(m) = IdOf(n)

(* "the first verification that does not pass raises VerificationFailure"   *)
(* (resolver.py:9); verify_credential "or raise VCError" (vc.py:99).        *)
CredentialFailuresAreRefusals ==
    ~ (pc = "raised" /\ bundle # None /\ acted = None)
=============================================================================
