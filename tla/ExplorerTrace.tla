--------------------------- MODULE ExplorerTrace ---------------------------
(***************************************************************************)
(* The explorer page (src/explorer/trace.py): walk makes a small world of  *)
(* identities and signed objects, spoils it the way its scenario asks, and *)
(* goes through the client's checks with code of its own, collecting steps *)
(* to display.  Beside it a client of Resolver resolves the same objects:  *)
(* "The trace deliberately mirrors client/resolver.py" (trace.py:16).      *)
(***************************************************************************)
EXTENDS Resolver

CONSTANTS
    Provider, Audits, Agent, Rogue, Party,   \* identities of a world
    Handle,                                  \* its registry entry
    PrimaryUrl, NeutralUrl, EvilUrl, Invoke,
    ProviderId, AuditorId, RogueId,          \* of its credentials
    Interaction, Complaint,
    Expires                                  \* their last moment, 365 days on

ASSUME WorldAssumption ==
    /\ {ResolverDid, Provider, Audits, Agent, Rogue, Party} \subseteq WellFormed
    /\ TrustedIssuers = {Provider, Audits} /\ Rogue \notin TrustedIssuers
    /\ Handle \in AgentIds /\ {PrimaryUrl, NeutralUrl, EvilUrl} \subseteq Urls
    /\ Invoke \in Endpoints /\ {ProviderId, AuditorId, RogueId} \subseteq CredIds
    /\ Interaction \in InteractionIds /\ Complaint \in ContestationIds \ {None}
    /\ Expires \in Times

VARIABLES scenario, hop, steps

page == <<scenario, hop, steps>>
allVars == <<page, vars>>

SCENARIOS == {"resolve", "privacy", "tamper", "spoof", "contest", "exit"}
-----------------------------------------------------------------------------
(* The world *)

Issued(issuer, id, endpoint) ==
    [typ_ok |-> TRUE, kid |-> issuer, by |-> issuer, issuer |-> issuer, id |-> id,
     status |-> None, validFrom |-> 0, validUntil |-> Expires,
     subject |-> Agent, endpoint |-> endpoint]

WorldAddr ==
    [agent_id |-> Handle, agent_did |-> Agent, registration_type |-> "native",
     primary_facts_url |-> PrimaryUrl, private_facts_url |-> NeutralUrl,
     registry_url |-> None, vm |-> ResolverDid, by |-> ResolverDid]

WorldBundle ==
    [severance |-> None, provider_vc |-> Issued(Provider, ProviderId, Invoke),
     auditor_vc |-> Issued(Audits, AuditorId, None), contestations |-> <<>>]

Filed ==
    [contestation_id |-> Complaint, contestant |-> Party, agent_id |-> Handle,
     agent_did |-> Agent, interaction_id |-> Interaction,
     receipt |-> [agent_id |-> Handle, agent_did |-> Agent, counterparty |-> Party,
                  interaction_id |-> Interaction, by |-> Agent],
     vm |-> Party, by |-> Party]

Exit == [agent_id |-> Handle, agent_did |-> Agent, vm |-> Agent, by |-> Agent]

(* What scenario s makes of it; a record changed after signing verifies     *)
(* under no key.                                                            *)
AddrIn(s) == IF s = "tamper" THEN [WorldAddr EXCEPT !.primary_facts_url = EvilUrl, !.by = None]
             ELSE WorldAddr
BundleIn(s) ==
    CASE s = "spoof" -> [WorldBundle EXCEPT !.provider_vc = Issued(Rogue, RogueId, None)]
      [] s = "contest" -> [WorldBundle EXCEPT !.contestations = <<Filed>>]
      [] s = "exit" -> [WorldBundle EXCEPT !.severance = Exit]
      [] OTHER -> WorldBundle

addrShown == AddrIn(scenario)
bundleShown == BundleIn(scenario)

(* A client may be answered with these; its policy has nothing against the  *)
(* credentials, which are new.                                              *)
ASSUME ShownAssumption ==
    /\ \A s \in SCENARIOS : AddrIn(s) \in Addrs /\ BundleIn(s) \in Bundles
    /\ <<>> \in RevocationLists
    /\ {ProviderId, AuditorId} \cap Revoked = {}
-----------------------------------------------------------------------------
(* The page *)

Entry(title, status) == [title |-> title, status |-> status]
Show(title, status) == steps' = Append(steps, Entry(title, status))
GoOn(next) == hop' = next /\ UNCHANGED scenario

ShowAddress ==
    LET ok == addrShown.vm = ResolverDid /\ SignedBy(addrShown, ResolverDid)
    IN  /\ hop = "index"
        /\ steps' = <<Entry("resolve", "info"),
                      Entry("address", IF ok THEN "ok" ELSE "fail")>>
        /\ GoOn(IF ok THEN "facts" ELSE "finished")

ShowFacts ==
    /\ hop = "facts"
    /\ steps' = steps \o <<Entry(IF scenario = "privacy" THEN "neutral" ELSE "primary", "ok"),
                           Entry("fetch", "ok")>>
    /\ GoOn("exit")

Severed(b) == b.severance # None
              /\ VerifySeverance(b.severance, addrShown.agent_did, addrShown.agent_id)

(* Mutant: the page goes on past the exit gate. *)
ShowExitGate_Open ==
    /\ hop = "exit"
    /\ IF Severed(bundleShown) THEN Show("exit", "warn") ELSE UNCHANGED steps
    /\ GoOn("provider")

ShowExitGate ==
    /\ hop = "exit"
    /\ IF Severed(bundleShown) THEN Show("exit", "fail") /\ GoOn("finished")
       ELSE UNCHANGED steps /\ GoOn("provider")

(* Mutant: the issuer need not be a trusted one. *)
ShowProvider_AnyIssuer ==
    LET c == bundleShown.provider_vc
        ok == VerifyCredential(c, Dids, now) = "verified" /\ c.subject = addrShown.agent_did
    IN  /\ hop = "provider"
        /\ Show("provider", IF ok THEN "ok" ELSE "fail")
        /\ GoOn(IF ok THEN "auditor" ELSE "finished")

(* The world's dates never raise, and no list of revocations is asked for. *)
ShowProvider ==
    LET c == bundleShown.provider_vc
        ok == /\ VerifyCredential(c, TrustedIssuers, now) = "verified"
              /\ c.subject = addrShown.agent_did
    IN  /\ hop = "provider"
        /\ Show("provider", IF ok THEN "ok" ELSE "fail")
        /\ GoOn(IF ok THEN "auditor" ELSE "finished")

(* The auditor's credential is not optional here. *)
ShowAuditor ==
    LET c == bundleShown.auditor_vc
        ok == /\ VerifyCredential(c, TrustedIssuers, now) = "verified"
              /\ c.subject = bundleShown.provider_vc.subject
    IN  /\ hop = "auditor"
        /\ Show("auditor", IF ok THEN "ok" ELSE "fail")
        /\ GoOn(IF ok THEN "contestations" ELSE "finished")

ShowContestations ==
    LET standing == {n \in DOMAIN bundleShown.contestations :
                        VerifyContestation(bundleShown.contestations[n],
                                           addrShown.agent_did, addrShown.agent_id)}
    IN  /\ hop = "contestations"
        /\ Show("contestations", IF standing = {} THEN "info" ELSE "warn")
        /\ GoOn("act")

(* The authorisation named for context, then the endpoint. *)
ShowAct ==
    /\ hop = "act"
    /\ steps' = steps \o <<Entry("authorisation", "info"), Entry("act", "ok")>>
    /\ GoOn("finished")

(* An unknown scenario is shown as "resolve". *)
PageInit == /\ \E asked \in SCENARIOS \cup {"unknown"} :
                  scenario = IF asked \in SCENARIOS THEN asked ELSE "resolve"
            /\ hop = "index" /\ steps = <<>>

PageStep == \/ ShowAddress \/ ShowFacts \/ ShowExitGate \/ ShowProvider
            \/ ShowAuditor \/ ShowContestations \/ ShowAct

(* The client that is answered with what the page shows, and that asks for  *)
(* the path the page shows.                                                 *)
ClientStep ==
    \/ Start(IF scenario = "privacy" THEN "private" ELSE "primary", TRUE)
    \/ RefreshRevocations(<<>>)
    \/ LookupAddr(addrShown)
    \/ SelectFactsUrl
    \/ FetchFacts(bundleShown)
    \/ CheckSeverance \/ VerifyProvider \/ VerifyAuditor \/ EnforceThreshold
    \/ SurfaceContestations \/ Act(FALSE)

BesideInit == PageInit /\ Init
BesideNext == \/ PageStep /\ UNCHANGED vars
              \/ ClientStep /\ UNCHANGED page
              \/ Tick /\ UNCHANGED page
BesideSpec == BesideInit /\ [][BesideNext]_allVars
-----------------------------------------------------------------------------
Shown(title, status) == \E n \in DOMAIN steps : steps[n] = Entry(title, status)
refused == \E n \in DOMAIN steps : steps[n].status = "fail"   \* _finish

(* The page mirrors the client: once both have been through the same        *)
(* objects, and none of them has expired in between, the page reports a     *)
(* refusal exactly when the client refuses, after having fetched and        *)
(* accepted the same, on the path the client took, with a counter-claim     *)
(* where the client surfaces one, and a call where the client makes one.    *)
PageAgreesWithClient ==
    hop = "finished" /\ pc \in Final /\ now <= Expires =>
        /\ pc = IF refused THEN "refused" ELSE "resolved"
        /\ Shown("fetch", "ok") <=> bundle # None
        /\ Shown("neutral", "ok") <=> role = "neutral"
        /\ Shown("provider", "ok") <=> provider # None
        /\ Shown("auditor", "ok") <=> auditor # None
        /\ Shown("contestations", "warn") <=> surfaced # {}
        /\ Shown("act", "ok") <=> acted # None

(* Where each scenario is announced to stop (SCENARIOS, trace.py:55-62). *)
StopsAt(s) == CASE s = "tamper" -> {"address"} [] s = "spoof" -> {"provider"}
                [] s = "exit" -> {"exit"} [] OTHER -> {}

(* The page tells what its title announces: as long as the credentials are  *)
(* valid, a scenario fails at its own hop and no other, shows nothing past  *)
(* a failure, and a counter-claim only in the scenario about one.           *)
PageAsAnnounced ==
    hop = "finished" /\ now <= Expires =>
        /\ {steps[n].title : n \in {k \in DOMAIN steps : steps[k].status = "fail"}}
              = StopsAt(scenario)
        /\ \A n \in DOMAIN steps : steps[n].status = "fail" => n = Len(steps)
        /\ Shown("contestations", "warn") <=> scenario = "contest"
=============================================================================
