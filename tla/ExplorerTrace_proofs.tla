------------------------- MODULE ExplorerTrace_proofs -------------------------
(***************************************************************************)
(* Proofs about the explorer page and the client beside it, for any        *)
(* identities, any life of the credentials and any number of walks: the    *)
(* page says what its scenario announces, and what the client says.        *)
(***************************************************************************)
EXTENDS ExplorerTrace, TLAPS

Private == scenario = "privacy"
InTime == now <= Expires

Titles == {"resolve", "address", "neutral", "primary", "fetch", "exit", "provider", "auditor",
           "contestations", "authorisation", "act"}
Statuses == {"ok", "info", "warn", "fail"}
Lines == [title : Titles, status : Statuses]
Passes == [title : Titles, status : {"ok", "info"}]

(* What a page has shown when it comes to a hop. *)
Told(s) == {s[n] : n \in DOMAIN s}
AddressTold == {Entry("resolve", "info"), Entry("address", "ok")}
FactsTold ==
    AddressTold \cup {Entry(IF Private THEN "neutral" ELSE "primary", "ok"), Entry("fetch", "ok")}
ProviderTold == FactsTold \cup {Entry("provider", "ok")}
AuditorTold == ProviderTold \cup {Entry("auditor", "ok")}
BothSidesTold ==
    AuditorTold
        \cup {Entry("contestations", IF scenario = "contest" THEN "warn" ELSE "info")}

Verdict ==
    /\ scenario = "tamper" => Told(steps) = {Entry("resolve", "info"), Entry("address", "fail")}
    /\ scenario = "exit" => Told(steps) = FactsTold \cup {Entry("exit", "fail")}
    /\ scenario = "spoof" => Told(steps) = FactsTold \cup {Entry("provider", "fail")}
    /\ scenario \in {"resolve", "privacy", "contest"} =>
          Told(steps) = BothSidesTold \cup {Entry("authorisation", "info"), Entry("act", "ok")}

(* A failure is the last that is shown, and in time it comes at its hop. *)
PageOK ==
    /\ scenario \in SCENARIOS
    /\ steps \in Seq(Lines)
    /\ \A n \in DOMAIN steps : steps[n].status = "fail" => n = Len(steps) /\ hop = "finished"
    /\ InTime =>
          /\ hop = "facts" => scenario # "tamper" /\ Told(steps) = AddressTold
          /\ hop = "exit" => scenario # "tamper" /\ Told(steps) = FactsTold
          /\ hop = "provider" =>
                scenario \notin {"tamper", "exit"} /\ Told(steps) = FactsTold
          /\ hop = "auditor" =>
                scenario \notin {"tamper", "exit", "spoof"} /\ Told(steps) = ProviderTold
          /\ hop = "contestations" =>
                scenario \notin {"tamper", "exit", "spoof"} /\ Told(steps) = AuditorTold
          /\ hop = "act" =>
                scenario \notin {"tamper", "exit", "spoof"} /\ Told(steps) = BothSidesTold
          /\ hop = "finished" => Verdict

(* Where the client is, with what it has of the world, and in time it fails *)
(* where the scenario has it fail.                                          *)
Along ==
    /\ pc \in Stages /\ now \in Times /\ live = {} /\ scenario \in SCENARIOS
    /\ pc # "idle" => act /\ path = IF Private THEN "private" ELSE "primary"
    /\ InTime =>
          /\ pc # "raised"
          /\ pc \in Bound => addr = addrShown /\ scenario # "tamper"
          /\ pc \in NotSevered => scenario # "exit"
          /\ pc \in Attested => scenario # "spoof"
          /\ pc \in {"fetch"} \cup Fetched => role = IF Private THEN "neutral" ELSE "primary"
          /\ pc \in {"idle", "refresh", "lookup", "select"} => role = None
          /\ pc \in Fetched => bundle = bundleShown
          /\ pc \in {"idle", "refresh", "lookup", "select", "fetch"} => bundle = None
          /\ provider = IF pc \in Attested THEN bundleShown.provider_vc ELSE None
          /\ auditor = IF pc \in Corroborated THEN bundleShown.auditor_vc ELSE None
          /\ surfaced = IF pc \in {"act", "resolved"} /\ scenario = "contest" THEN {1} ELSE {}
          /\ acted = IF pc = "resolved" THEN Invoke ELSE None
          /\ pc = "refused" =>
                /\ scenario \in {"tamper", "spoof", "exit"} /\ role # "neutral"
                /\ bundle = IF scenario = "tamper" THEN None ELSE bundleShown
-----------------------------------------------------------------------------
(* The objects of a world: what is spoilt in a scenario, and only that. *)
LEMMA World ==
    ASSUME NEW s \in SCENARIOS
    PROVE  /\ AddrIn(s).agent_did = Agent /\ AddrIn(s).agent_id = Handle
           /\ AddrIn(s).registry_url = None
           /\ AddrIn(s).private_facts_url # None /\ AddrIn(s).primary_facts_url # None
           /\ AddrVerified(AddrIn(s)) <=> s # "tamper"
           /\ BundleIn(s).severance = IF s = "exit" THEN Exit ELSE None
           /\ BundleIn(s).provider_vc =
                 IF s = "spoof" THEN Issued(Rogue, RogueId, None)
                 ELSE Issued(Provider, ProviderId, Invoke)
           /\ BundleIn(s).auditor_vc = Issued(Audits, AuditorId, None)
           /\ BundleIn(s).contestations = IF s = "contest" THEN <<Filed>> ELSE <<>>
<1>1. /\ ResolverDid \in WellFormed /\ Agent \in WellFormed
      /\ Agent # None /\ ResolverDid # None /\ NeutralUrl # None /\ PrimaryUrl # None
      /\ EvilUrl # None
  BY WorldAssumption, WellFormedAssumption, NoneAssumption
<1>2. AddrVerified(AddrIn(s)) <=> s # "tamper"
  BY <1>1 DEF AddrVerified, SignedBy, AddrIn, WorldAddr
<1> QED BY <1>1, <1>2 DEF AddrIn, WorldAddr, BundleIn, WorldBundle, SCENARIOS

(* The exit of a world is the agent's own, and the complaint has standing. *)
LEMMA Filings ==
    /\ Exit # None /\ VerifySeverance(Exit, Agent, Handle)
    /\ ~ VerifySeverance(None, Agent, Handle)
    /\ VerifyContestation(Filed, Agent, Handle)
<1>1. /\ Agent \in WellFormed /\ Party \in WellFormed /\ Party # None
      /\ Agent \in Dids /\ Handle \in AgentIds
  BY WorldAssumption, WellFormedAssumption, NoneAssumption
<1>2. Exit \in Severance
  BY <1>1 DEF Exit, Severance, Opt
<1>3. Exit # None
  BY <1>2, NoObjectAssumption
<1>4. VerifySeverance(Exit, Agent, Handle)
  BY <1>1, <1>3 DEF VerifySeverance, SignedBy, Exit
<1>5. VerifyContestation(Filed, Agent, Handle)
  BY <1>1 DEF VerifyContestation, SignedBy, Filed
<1> QED BY <1>3, <1>4, <1>5 DEF VerifySeverance

(* As long as it is valid, a credential verifies if a trusted issuer signed *)
(* it, and is never an occasion for an exception.                           *)
LEMMA Credentials ==
    ASSUME now \in Times, InTime, live = {}
    PROVE  /\ \A c \in {Issued(Provider, ProviderId, Invoke), Issued(Audits, AuditorId, None)} :
                 /\ c # None /\ VerifyCredential(c, TrustedIssuers, now) = "verified"
                 /\ CredentialVerdict(c) = "verified" /\ c.subject = Agent
           /\ VerifyCredential(Issued(Rogue, RogueId, None), TrustedIssuers, now) = "rejected"
           /\ CredentialVerdict(Issued(Rogue, RogueId, None)) = "rejected"
<1>1. /\ {Provider, Audits} = TrustedIssuers /\ {Provider, Audits} \subseteq WellFormed
      /\ Rogue \notin TrustedIssuers /\ {Provider, Audits, Agent, Rogue} \subseteq Dids
      /\ None \notin Dids /\ None \notin CredIds
  BY WorldAssumption, WellFormedAssumption, NoneAssumption
<1>2. 0 \in Times /\ Expires \in Times /\ now \in Nat /\ Expires \in Nat
  BY WorldAssumption, MaxTimeAssumption DEF Times
<1>3. ASSUME NEW i \in {Provider, Audits}, NEW id \in {ProviderId, AuditorId},
             NEW e \in Opt(Endpoints)
      PROVE  LET c == Issued(i, id, e)
             IN  /\ c # None /\ VerifyCredential(c, TrustedIssuers, now) = "verified"
                 /\ CredentialVerdict(c) = "verified" /\ c.subject = Agent
  <2> DEFINE c == Issued(i, id, e)
  <2>1. c \in Credential
    <3>1. id \in CredIds
      BY WorldAssumption
    <3> QED BY <1>1, <1>2, <3>1 DEF Issued, Credential, Opt, Dates
  <2>2. c # None
    BY <2>1, NoObjectAssumption
  <2>3. Authentic(c, TrustedIssuers)
    BY <1>1 DEF Authentic, SignedBy, Issued
  <2>4. ~ DatesRaise(c, now) /\ InWindow(c, now)
    BY <1>2, DatesAssumption DEF DatesRaise, InWindow, Issued, InTime
  <2>5. VerifyCredential(c, TrustedIssuers, now) = "verified"
    BY <2>3, <2>4 DEF VerifyCredential
  <2>6. ~ IsRevoked(c, Revoked) /\ ~ LiveRevoked(c)
    BY <1>1, ShownAssumption, PolicyAssumption DEF IsRevoked, LiveRevoked, Issued
  <2>7. CredentialVerdict(c) = "verified" /\ c.subject = Agent
    BY <2>2, <2>5, <2>6 DEF CredentialVerdict, Issued
  <2> QED BY <2>2, <2>5, <2>7
<1>4. Invoke \in Opt(Endpoints) /\ None \in Opt(Endpoints)
  BY WorldAssumption DEF Opt
<1>5. VerifyCredential(Issued(Rogue, RogueId, None), TrustedIssuers, now) = "rejected"
  BY <1>1 DEF VerifyCredential, Authentic, Issued
<1>6. CredentialVerdict(Issued(Rogue, RogueId, None)) = "rejected"
  BY <1>5 DEF CredentialVerdict
<1> QED BY <1>3, <1>4, <1>5, <1>6

(* An entry more. *)
LEMMA Telling ==
    ASSUME NEW s \in Seq(Lines), NEW a \in Lines
    PROVE  /\ Append(s, a) \in Seq(Lines) /\ Told(Append(s, a)) = Told(s) \cup {a}
           /\ Len(Append(s, a)) = Len(s) + 1 /\ Append(s, a)[Len(s) + 1] = a
           /\ \A n \in DOMAIN Append(s, a) : n # Len(s) + 1 =>
                 n \in DOMAIN s /\ Append(s, a)[n] = s[n]
<1> HIDE DEF Lines
<1>1. /\ DOMAIN Append(s, a) = 1..(Len(s) + 1) /\ DOMAIN s = 1..Len(s)
      /\ Append(s, a)[Len(s) + 1] = a /\ Len(s) \in Nat
      /\ \A n \in 1..Len(s) : Append(s, a)[n] = s[n]
  OBVIOUS
<1>2. Told(Append(s, a)) = Told(s) \cup {a}
  BY <1>1 DEF Told
<1>3. Append(s, a) \in Seq(Lines) /\ Len(Append(s, a)) = Len(s) + 1
  OBVIOUS
<1> QED BY <1>1, <1>2, <1>3

(* Two entries more. *)
LEMMA TellingTwo ==
    ASSUME NEW s \in Seq(Lines), NEW a \in Lines, NEW b \in Lines
    PROVE  s \o <<a, b>> = Append(Append(s, a), b)
OBVIOUS
-----------------------------------------------------------------------------
(* A page that has not begun. *)
LEMMA PageInitOK ==
    ASSUME PageInit
    PROVE  PageOK
BY DEF PageInit, PageOK, SCENARIOS

(* Each hop of the page adds what it is to show. *)
LEMMA PageStepOK ==
    ASSUME PageOK, now \in Times, live = {}, PageStep, now' = now
    PROVE  PageOK'
<1> USE DEF GoOn
<1>1. /\ scenario \in SCENARIOS /\ scenario' = scenario
      /\ steps \in Seq(Lines)
      /\ hop # "finished" => \A n \in DOMAIN steps : steps[n].status # "fail"
  BY DEF PageOK, PageStep, ShowAddress, ShowFacts, ShowExitGate, ShowProvider, ShowAuditor,
         ShowContestations, ShowAct
<1>2. /\ addrShown.agent_did = Agent /\ addrShown.agent_id = Handle
      /\ AddrVerified(addrShown) <=> scenario # "tamper"
      /\ bundleShown.severance = IF scenario = "exit" THEN Exit ELSE None
      /\ bundleShown.provider_vc =
            IF scenario = "spoof" THEN Issued(Rogue, RogueId, None)
            ELSE Issued(Provider, ProviderId, Invoke)
      /\ bundleShown.auditor_vc = Issued(Audits, AuditorId, None)
      /\ bundleShown.contestations = IF scenario = "contest" THEN <<Filed>> ELSE <<>>
  BY <1>1, World DEF addrShown, bundleShown
<1>3. /\ InTime' = InTime /\ AddressTold' = AddressTold /\ FactsTold' = FactsTold /\ ProviderTold' = ProviderTold
      /\ AuditorTold' = AuditorTold /\ BothSidesTold' = BothSidesTold
  BY <1>1 DEF AddressTold, FactsTold, ProviderTold, AuditorTold, BothSidesTold, Private, InTime
(* What one more entry makes of the steps. *)
<1>4. ASSUME NEW ti \in Titles, NEW st \in Statuses, Show(ti, st), hop # "finished",
             st = "fail" => hop' = "finished"
      PROVE  /\ steps' \in Seq(Lines)
             /\ Told(steps') = Told(steps) \cup {Entry(ti, st)}
             /\ \A n \in DOMAIN steps' :
                   steps'[n].status = "fail" => n = Len(steps') /\ hop' = "finished"
  <2> DEFINE e == Entry(ti, st)
  <2>1. e \in Lines /\ e.status = st
    BY DEF Entry, Passes, Lines, Titles, Statuses
  <2>2. steps' = Append(steps, e)
    BY <1>4 DEF Show
  <2> HIDE DEF e
  <2>3. /\ steps' \in Seq(Lines) /\ Told(steps') = Told(steps) \cup {e}
        /\ Len(steps') = Len(steps) + 1 /\ steps'[Len(steps')] = e
        /\ \A n \in DOMAIN steps' : n = Len(steps') \/ (n \in DOMAIN steps /\ steps'[n] = steps[n])
    BY <1>1, <2>1, <2>2, Telling
  <2> QED BY <1>1, <1>4, <2>1, <2>3 DEF e
<1>5. ASSUME NEW a, NEW b, hop # "finished",
             steps' = steps \o <<a, b>>, a \in Passes,
             b \in Passes
      PROVE  /\ steps' \in Seq(Lines)
             /\ Told(steps') = Told(steps) \cup {a, b}
             /\ \A n \in DOMAIN steps' : steps'[n].status # "fail"
  <2>1. /\ a \in Lines /\ b \in Lines
        /\ a.status # "fail" /\ b.status # "fail"
    BY <1>5 DEF Passes, Lines, Statuses
  <2>2. steps' = Append(Append(steps, a), b)
    BY <1>1, <1>5, <2>1, TellingTwo
  <2>3. /\ steps' \in Seq(Lines)
        /\ Told(steps') = Told(steps) \cup {a, b}
    <3>1. Append(steps, a) \in Seq(Lines) /\ Told(Append(steps, a)) = Told(steps) \cup {a}
      BY <1>1, <2>1, Telling
    <3>2. /\ steps' \in Seq(Lines)
          /\ Told(steps') = Told(Append(steps, a)) \cup {b}
      BY <2>1, <2>2, <3>1, Telling
    <3> QED BY <3>1, <3>2
  <2>4. \A n \in DOMAIN steps' : steps'[n] \in Told(steps) \cup {a, b}
    BY <2>3 DEF Told
  <2>5. \A x \in Told(steps) : x.status # "fail"
    BY <1>1, <1>5 DEF Told
  <2> QED BY <2>1, <2>3, <2>4, <2>5
<1>6. CASE ShowAddress
  <2>1. AddrVerified(addrShown) <=>
           addrShown.vm = ResolverDid /\ SignedBy(addrShown, ResolverDid)
    <3>1. addrShown.agent_did # None
      BY <1>2, WorldAssumption, WellFormedAssumption, NoneAssumption
    <3> QED BY <3>1 DEF AddrVerified
  <2>2. /\ hop = "index"
        /\ steps' = <<Entry("resolve", "info"),
                      Entry("address", IF scenario # "tamper" THEN "ok" ELSE "fail")>>
        /\ hop' = IF scenario # "tamper" THEN "facts" ELSE "finished"
    BY <1>2, <1>6, <2>1 DEF ShowAddress
  <2>3. /\ steps' \in Seq(Lines) /\ Len(steps') = 2
        /\ DOMAIN steps' = {1, 2} /\ steps'[1] = Entry("resolve", "info")
        /\ steps'[2] = Entry("address", IF scenario # "tamper" THEN "ok" ELSE "fail")
    BY <2>2 DEF Entry, Lines, Titles, Statuses
  <2>4. Told(steps') = {Entry("resolve", "info"),
                        Entry("address", IF scenario # "tamper" THEN "ok" ELSE "fail")}
    BY <2>3 DEF Told
  <2>5. \A n \in DOMAIN steps' : steps'[n].status = "fail" => n = Len(steps') /\ hop' = "finished"
    BY <2>2, <2>3 DEF Entry
  <2> QED BY <1>1, <1>3, <2>2, <2>3, <2>4, <2>5 DEF PageOK, AddressTold, Verdict
<1>7. CASE ShowFacts
  <2>1. /\ hop = "facts" /\ hop' = "exit"
        /\ steps' = steps \o <<Entry(IF Private THEN "neutral" ELSE "primary", "ok"),
                               Entry("fetch", "ok")>>
    BY <1>7 DEF ShowFacts, Private
  <2>2. /\ Entry(IF Private THEN "neutral" ELSE "primary", "ok")
             \in Passes
        /\ Entry("fetch", "ok") \in Passes
    BY DEF Entry, Passes, Lines, Titles, Statuses
  <2>3. /\ steps' \in Seq(Lines)
        /\ Told(steps') = Told(steps) \cup {Entry(IF Private THEN "neutral" ELSE "primary", "ok"),
                                            Entry("fetch", "ok")}
        /\ \A n \in DOMAIN steps' : steps'[n].status # "fail"
    BY <1>5, <2>1, <2>2
  <2>4. InTime => scenario # "tamper" /\ Told(steps') = FactsTold
    BY <2>1, <2>3 DEF PageOK, FactsTold
  <2> QED BY <1>1, <1>3, <2>1, <2>3, <2>4 DEF PageOK
<1>8. CASE ShowExitGate
  <2>1. Severed(bundleShown) <=> scenario = "exit"
    BY <1>2, Filings DEF Severed
  <2>2. CASE scenario = "exit"
    <3>1. hop = "exit" /\ Show("exit", "fail") /\ hop' = "finished"
      BY <1>8, <2>1, <2>2 DEF ShowExitGate
    <3>2. /\ steps' \in Seq(Lines)
          /\ Told(steps') = Told(steps) \cup {Entry("exit", "fail")}
          /\ \A n \in DOMAIN steps' :
                steps'[n].status = "fail" => n = Len(steps') /\ hop' = "finished"
      BY <1>4, <3>1 DEF Titles, Statuses
    <3>3. InTime => Told(steps) = FactsTold
      BY <3>1 DEF PageOK
    <3> QED BY <1>1, <1>3, <2>2, <3>1, <3>2, <3>3 DEF PageOK, Verdict
  <2>3. CASE scenario # "exit"
    <3>1. hop = "exit" /\ UNCHANGED steps /\ hop' = "provider"
      BY <1>8, <2>1, <2>3 DEF ShowExitGate
    <3> QED BY <1>1, <1>3, <2>3, <3>1 DEF PageOK
  <2> QED BY <2>2, <2>3
<1>9. CASE ShowProvider
  <2>1. PICK ok \in BOOLEAN :
           /\ ok <=> /\ VerifyCredential(bundleShown.provider_vc, TrustedIssuers, now) = "verified"
                     /\ bundleShown.provider_vc.subject = addrShown.agent_did
           /\ hop = "provider" /\ Show("provider", IF ok THEN "ok" ELSE "fail")
           /\ hop' = IF ok THEN "auditor" ELSE "finished"
    BY <1>9 DEF ShowProvider
  <2>2. InTime => (ok <=> scenario # "spoof")
    BY <1>2, <2>1, Credentials
  <2>3. /\ steps' \in Seq(Lines)
        /\ Told(steps') = Told(steps) \cup {Entry("provider", IF ok THEN "ok" ELSE "fail")}
        /\ \A n \in DOMAIN steps' :
              steps'[n].status = "fail" => n = Len(steps') /\ hop' = "finished"
    BY <1>4, <2>1 DEF Titles, Statuses
  <2>4. InTime => scenario \notin {"tamper", "exit"} /\ Told(steps) = FactsTold
    BY <2>1 DEF PageOK
  <2> QED BY <1>1, <1>3, <2>1, <2>2, <2>3, <2>4 DEF PageOK, Verdict, ProviderTold
<1>10. CASE ShowAuditor
  <2>1. PICK ok \in BOOLEAN :
           /\ ok <=> /\ VerifyCredential(bundleShown.auditor_vc, TrustedIssuers, now) = "verified"
                     /\ bundleShown.auditor_vc.subject = bundleShown.provider_vc.subject
           /\ hop = "auditor" /\ Show("auditor", IF ok THEN "ok" ELSE "fail")
           /\ hop' = IF ok THEN "contestations" ELSE "finished"
    BY <1>10 DEF ShowAuditor
  <2>2. InTime => scenario \notin {"tamper", "exit", "spoof"} /\ Told(steps) = ProviderTold
    BY <2>1 DEF PageOK
  <2>3. InTime => ok
    BY <1>2, <2>1, <2>2, Credentials
  <2>4. /\ steps' \in Seq(Lines)
        /\ Told(steps') = Told(steps) \cup {Entry("auditor", IF ok THEN "ok" ELSE "fail")}
        /\ \A n \in DOMAIN steps' :
              steps'[n].status = "fail" => n = Len(steps') /\ hop' = "finished"
    BY <1>4, <2>1 DEF Titles, Statuses
  <2> QED BY <1>1, <1>3, <2>1, <2>2, <2>3, <2>4 DEF PageOK, Verdict, AuditorTold
<1>11. CASE ShowContestations
  <2> DEFINE standing == {n \in DOMAIN bundleShown.contestations :
                            VerifyContestation(bundleShown.contestations[n],
                                               addrShown.agent_did, addrShown.agent_id)}
  <2>1. standing = {} <=> scenario # "contest"
    <3>1. CASE scenario = "contest"
      <4>1. 1 \in DOMAIN <<Filed>> /\ <<Filed>>[1] = Filed
        OBVIOUS
      <4> QED BY <1>2, <3>1, <4>1, Filings
    <3>2. CASE scenario # "contest"
      BY <1>2, <3>2
    <3> QED BY <3>1, <3>2
  <2> DEFINE st == IF scenario = "contest" THEN "warn" ELSE "info"
  <2>2. hop = "contestations" /\ Show("contestations", st) /\ hop' = "act"
    BY <1>11, <2>1 DEF ShowContestations
  <2> HIDE DEF standing
  <2>3. /\ steps' \in Seq(Lines)
        /\ Told(steps') = Told(steps) \cup {Entry("contestations", st)}
        /\ \A n \in DOMAIN steps' :
              steps'[n].status = "fail" => n = Len(steps') /\ hop' = "finished"
    BY <1>4, <2>2 DEF Titles, Statuses
  <2>4. InTime => scenario \notin {"tamper", "exit", "spoof"} /\ Told(steps) = AuditorTold
    BY <2>2 DEF PageOK
  <2> QED BY <1>1, <1>3, <2>2, <2>3, <2>4 DEF PageOK, BothSidesTold
<1>12. CASE ShowAct
  <2>1. /\ hop = "act" /\ hop' = "finished"
        /\ steps' = steps \o <<Entry("authorisation", "info"), Entry("act", "ok")>>
    BY <1>12 DEF ShowAct
  <2>2. /\ Entry("authorisation", "info") \in Passes
        /\ Entry("act", "ok") \in Passes
    BY DEF Entry, Passes, Lines, Titles, Statuses
  <2>3. /\ steps' \in Seq(Lines)
        /\ Told(steps') = Told(steps) \cup {Entry("authorisation", "info"), Entry("act", "ok")}
        /\ \A n \in DOMAIN steps' : steps'[n].status # "fail"
    BY <1>5, <2>1, <2>2
  <2>4. InTime => scenario \notin {"tamper", "exit", "spoof"} /\ Told(steps) = BothSidesTold
    BY <2>1 DEF PageOK
  <2> QED BY <1>1, <1>3, <2>1, <2>3, <2>4 DEF PageOK, Verdict
<1> QED BY <1>6, <1>7, <1>8, <1>9, <1>10, <1>11, <1>12 DEF PageStep
-----------------------------------------------------------------------------
(* A client that has not begun. *)
LEMMA AlongInit ==
    ASSUME PageInit, Init
    PROVE  Along
<1>1. 0 \in Times
  BY MaxTimeAssumption DEF Times
<1> QED BY <1>1 DEF Along, PageInit, Init, SCENARIOS, Stages, Final, Bound, Fetched, NotSevered,
                Attested, Corroborated, Accepted

(* The client goes on to what the page shows. *)
LEMMA AlongStep ==
    ASSUME Along, ClientStep, UNCHANGED page
    PROVE  Along'
<1> USE DEF InTime, client, clock, Stages, Final, Bound, Fetched, NotSevered, Attested,
            Corroborated, Accepted
<1>1. /\ scenario \in SCENARIOS /\ scenario' = scenario /\ addrShown' = addrShown
      /\ bundleShown' = bundleShown /\ Private' = Private /\ live = {} /\ now \in Times
  BY DEF Along, page, addrShown, bundleShown, Private
<1>2. /\ addrShown.agent_did = Agent /\ addrShown.agent_id = Handle
      /\ addrShown.registry_url = None
      /\ addrShown.private_facts_url # None /\ addrShown.primary_facts_url # None
      /\ AddrVerified(addrShown) <=> scenario # "tamper"
      /\ bundleShown.severance = IF scenario = "exit" THEN Exit ELSE None
      /\ bundleShown.provider_vc =
            IF scenario = "spoof" THEN Issued(Rogue, RogueId, None)
            ELSE Issued(Provider, ProviderId, Invoke)
      /\ bundleShown.auditor_vc = Issued(Audits, AuditorId, None)
      /\ bundleShown.contestations = IF scenario = "contest" THEN <<Filed>> ELSE <<>>
  BY <1>1, World DEF addrShown, bundleShown
<1>3. /\ addrShown \in Addrs /\ bundleShown \in Bundles /\ <<>> \in RevocationLists
  BY <1>1, ShownAssumption DEF addrShown, bundleShown
<1>4. /\ addrShown \notin Failures /\ bundleShown \notin Failures /\ <<>> \notin Failures
  BY <1>3, FailureAssumption DEF Failures
<1>5. CASE Start(IF scenario = "privacy" THEN "private" ELSE "primary", TRUE)
  BY <1>1, <1>5 DEF Along, Start, Private
<1>6. CASE RefreshRevocations(<<>>)
  <2>1. LiveOf(<<>>) = {}
    BY DEF LiveOf, Named
  <2>2. pc = "refresh" /\ pc' = "lookup" /\ live' = {} /\ UNCHANGED <<walk, clock>>
    BY <1>1, <1>4, <1>6, <2>1 DEF RefreshRevocations, Failures
  <2> QED BY <1>1, <2>2 DEF Along, walk
<1>7. CASE LookupAddr(addrShown)
  <2>1. /\ pc = "lookup" /\ addr' = addrShown
        /\ pc' = IF scenario # "tamper" THEN "select" ELSE "refused"
        /\ UNCHANGED <<path, act, url, role, bundle, provider, auditor, surfaced, acted,
                       client, clock>>
    BY <1>2, <1>4, <1>7 DEF LookupAddr, Failures
  <2> QED BY <1>1, <2>1, NoRoleAssumption DEF Along
<1>8. CASE SelectFactsUrl
  <2>1. pc = "select" /\ path = IF Private THEN "private" ELSE "primary"
    BY <1>8 DEF SelectFactsUrl, Along
  <2>2. ASSUME InTime PROVE addr = addrShown /\ scenario # "tamper"
    BY <2>1, <2>2 DEF Along
  <2>3. /\ pc' \in {"fetch", "refused"}
        /\ InTime => pc' = "fetch" /\ role' = IF Private THEN "neutral" ELSE "primary"
        /\ UNCHANGED <<path, act, addr, bundle, provider, auditor, surfaced, acted,
                       client, clock>>
    BY <1>2, <1>8, <2>1, <2>2 DEF SelectFactsUrl, GoTo
  <2> QED BY <1>1, <2>1, <2>2, <2>3 DEF Along
<1>9. CASE FetchFacts(bundleShown)
  <2>1. /\ pc = "fetch" /\ bundle' = bundleShown /\ pc' = "exit"
        /\ UNCHANGED <<path, act, addr, url, role, provider, auditor, surfaced, acted,
                       client, clock>>
    BY <1>4, <1>9 DEF FetchFacts, Failures
  <2> QED BY <1>1, <2>1 DEF Along
<1>10. CASE CheckSeverance
  <2>1. /\ pc = "exit" /\ pc' \in {"refused", "provider"}
        /\ UNCHANGED <<path, act, addr, url, role, bundle, provider, auditor, surfaced, acted,
                       client, clock>>
    BY <1>10 DEF CheckSeverance, walk
  <2>2. ASSUME InTime PROVE pc' = IF scenario = "exit" THEN "refused" ELSE "provider"
    <3>1. addr = addrShown /\ bundle = bundleShown
      BY <2>1, <2>2 DEF Along
    <3> QED BY <1>2, <1>10, <3>1, Filings DEF CheckSeverance
  <2>3. (InTime /\ scenario = "exit") => role # "neutral"
    BY <2>1 DEF Along, Private
  <2> QED BY <1>1, <2>1, <2>2, <2>3 DEF Along
<1>11. CASE VerifyProvider
  <2>1. /\ pc = "provider" /\ pc' \in {"raised", "refused", "auditor"}
        /\ UNCHANGED <<path, act, addr, url, role, bundle, auditor, surfaced, acted,
                       client, clock>>
    BY <1>11 DEF VerifyProvider
  <2>2. ASSUME InTime
        PROVE  IF scenario = "spoof" THEN pc' = "refused" /\ provider' = provider
               ELSE pc' = "auditor" /\ provider' = bundleShown.provider_vc
    <3>1. addr = addrShown /\ bundle = bundleShown
      BY <2>1, <2>2 DEF Along
    <3>2. CASE scenario = "spoof"
      <4>1. CredentialVerdict(bundle.provider_vc) = "rejected"
        BY <1>1, <1>2, <2>2, <3>1, <3>2, Credentials
      <4> QED BY <1>11, <3>2, <4>1 DEF VerifyProvider
    <3>3. CASE scenario # "spoof"
      <4>1. /\ CredentialVerdict(bundle.provider_vc) = "verified"
            /\ bundle.provider_vc.subject = addr.agent_did
        BY <1>1, <1>2, <2>2, <3>1, <3>3, Credentials
      <4> QED BY <1>11, <3>1, <3>3, <4>1 DEF VerifyProvider
    <3> QED BY <3>2, <3>3
  <2>3. (InTime /\ scenario = "spoof") => role # "neutral"
    BY <2>1 DEF Along, Private
  <2> QED BY <1>1, <2>1, <2>2, <2>3 DEF Along
<1>12. CASE VerifyAuditor
  <2>1. /\ pc = "auditor" /\ pc' \in {"raised", "refused", "threshold"}
        /\ UNCHANGED <<path, act, addr, url, role, bundle, provider, surfaced, acted,
                       client, clock>>
    BY <1>12 DEF VerifyAuditor
  <2>2. ASSUME InTime PROVE pc' = "threshold" /\ auditor' = bundleShown.auditor_vc
    <3>1. bundle = bundleShown /\ scenario # "spoof" /\ provider = bundleShown.provider_vc
      BY <2>1, <2>2 DEF Along
    <3>2. /\ bundle.auditor_vc # None /\ CredentialVerdict(bundle.auditor_vc) = "verified"
          /\ bundle.auditor_vc.subject = provider.subject
      BY <1>1, <1>2, <2>2, <3>1, Credentials
    <3> QED BY <1>12, <3>1, <3>2 DEF VerifyAuditor
  <2> QED BY <1>1, <2>1, <2>2 DEF Along
<1>13. CASE EnforceThreshold
  <2>1. /\ pc = "threshold" /\ pc' \in {"surface", "refused"}
        /\ UNCHANGED <<path, act, addr, url, role, bundle, provider, auditor, surfaced, acted,
                       client, clock>>
    BY <1>13 DEF EnforceThreshold, walk
  <2>2. ASSUME InTime PROVE pc' = "surface"
    <3>1. /\ scenario # "spoof" /\ provider = bundleShown.provider_vc
          /\ auditor = bundleShown.auditor_vc
      BY <2>1, <2>2 DEF Along
    <3>2. provider.issuer = Provider /\ auditor.issuer = Audits
      BY <1>2, <3>1 DEF Issued
    <3>3. auditor # None
      BY <1>1, <1>2, <2>2, <3>1, Credentials
    <3>4. RequiredIssuers \subseteq VerifiedIssuers
      BY <3>2, <3>3, WorldAssumption, PolicyAssumption DEF VerifiedIssuers
    <3> QED BY <1>13, <3>4 DEF EnforceThreshold
  <2> QED BY <1>1, <2>1, <2>2 DEF Along
<1>14. CASE SurfaceContestations
  <2>1. /\ pc = "surface" /\ pc' = "act"
        /\ UNCHANGED <<path, act, addr, url, role, bundle, provider, auditor, acted,
                       client, clock>>
    BY <1>14 DEF SurfaceContestations, Along
  <2>2. ASSUME InTime PROVE surfaced' = IF scenario = "contest" THEN {1} ELSE {}
    <3>1. /\ scenario # "spoof" /\ provider = bundleShown.provider_vc
          /\ addr = addrShown /\ bundle = bundleShown
      BY <2>1, <2>2 DEF Along
    <3>2. surfaced' = {n \in FirstOfId(bundle.contestations) :
                          VerifyContestation(bundle.contestations[n],
                                             provider.subject, addr.agent_id)}
      BY <1>14 DEF SurfaceContestations
    <3>3. provider.subject = Agent
      BY <1>2, <3>1 DEF Issued
    <3>4. CASE scenario = "contest"
      <4>1. DOMAIN <<Filed>> = {1} /\ <<Filed>>[1] = Filed /\ 1..0 = {}
        OBVIOUS
      <4>2. Filed.contestation_id # None
        BY WorldAssumption DEF Filed
      <4>3. FirstOfId(<<Filed>>) = {1}
        BY <4>1, <4>2 DEF FirstOfId
      <4> QED BY <1>2, <3>1, <3>2, <3>3, <3>4, <4>1, <4>3, Filings
    <3>5. CASE scenario # "contest"
      <4>1. FirstOfId(<<>>) = {}
        BY DEF FirstOfId
      <4> QED BY <1>2, <3>1, <3>2, <3>5, <4>1
    <3> QED BY <3>4, <3>5
  <2> QED BY <1>1, <2>1, <2>2 DEF Along
<1>15. CASE Act(FALSE)
  <2>1. /\ pc = "act" /\ pc' = "resolved" /\ acted' = provider.endpoint
        /\ UNCHANGED <<path, act, addr, url, role, bundle, provider, auditor, surfaced,
                       client, clock>>
    BY <1>15 DEF Act
  <2>2. ASSUME InTime PROVE provider.endpoint = Invoke
    <3>1. scenario # "spoof" /\ provider = bundleShown.provider_vc
      BY <2>1, <2>2 DEF Along
    <3> QED BY <1>2, <3>1 DEF Issued
  <2> QED BY <1>1, <2>1, <2>2 DEF Along
<1> QED BY <1>5, <1>6, <1>7, <1>8, <1>9, <1>10, <1>11, <1>12, <1>13, <1>14, <1>15
           DEF ClientStep
-----------------------------------------------------------------------------
(* Both know where they are in the world of their scenario. *)
BesideInv == PageOK /\ Along

(* Both begin well. *)
LEMMA BesideInitOK ==
    ASSUME BesideInit
    PROVE  BesideInv
BY PageInitOK, AlongInit DEF BesideInit, BesideInv

(* What either does leaves the other where it is, and time only runs out. *)
LEMMA BesideStepOK ==
    ASSUME BesideInv, [BesideNext]_allVars
    PROVE  BesideInv'
<1> USE DEF BesideInv
<1>1. now \in Times /\ Expires \in Nat /\ now \in Nat
  BY WorldAssumption, MaxTimeAssumption DEF Along, Times
<1>2. ASSUME UNCHANGED vars PROVE Along' \/ scenario' # scenario
  <2> SUFFICES ASSUME scenario' = scenario PROVE Along'
    OBVIOUS
  <2>1. /\ addrShown' = addrShown /\ bundleShown' = bundleShown /\ Private' = Private
        /\ InTime' = InTime
    BY <1>2 DEF addrShown, bundleShown, Private, InTime, vars, clock
  <2> QED BY <1>2, <2>1 DEF Along, vars, walk, client, clock
<1>3. ASSUME UNCHANGED page, now' \in Nat, now <= now' PROVE PageOK'
  <2>1. /\ InTime' => InTime
        /\ AddressTold' = AddressTold /\ FactsTold' = FactsTold /\ ProviderTold' = ProviderTold
        /\ AuditorTold' = AuditorTold /\ BothSidesTold' = BothSidesTold
    BY <1>1, <1>3 DEF InTime, AddressTold, FactsTold, ProviderTold, AuditorTold,
                      BothSidesTold, Private, page
  <2>2. Verdict' <=> Verdict
    BY <1>3, <2>1 DEF Verdict, page
  <2> QED BY <1>3, <2>1, <2>2 DEF PageOK, page
<1>4. CASE PageStep /\ UNCHANGED vars
  <2>1. now' = now /\ scenario' = scenario
    BY <1>4 DEF vars, clock, PageStep, ShowAddress, ShowFacts, ShowExitGate, ShowProvider,
                ShowAuditor, ShowContestations, ShowAct, GoOn
  <2> QED BY <1>2, <1>4, <2>1, PageStepOK DEF Along
<1>5. CASE ClientStep /\ UNCHANGED page
  <2>1. now' = now
    BY <1>5 DEF ClientStep, Start, RefreshRevocations, LookupAddr, SelectFactsUrl, FetchFacts,
                CheckSeverance, VerifyProvider, VerifyAuditor, EnforceThreshold,
                SurfaceContestations, Act, clock
  <2> QED BY <1>1, <1>3, <1>5, <2>1, AlongStep
<1>6. CASE Tick /\ UNCHANGED page
  <2>1. /\ now' \in Times /\ now' \in Nat /\ now <= now'
        /\ UNCHANGED <<pc, walk, client, scenario>>
    BY <1>1, <1>6, MaxTimeAssumption DEF Tick, Times, page
  <2>2. /\ addrShown' = addrShown /\ bundleShown' = bundleShown /\ Private' = Private
        /\ InTime' => InTime
    BY <1>1, <2>1 DEF addrShown, bundleShown, Private, InTime
  <2>3. Along'
    BY <2>1, <2>2 DEF Along, walk, client
  <2> QED BY <1>3, <1>6, <2>1, <2>3
<1>7. CASE UNCHANGED allVars
  <2>1. UNCHANGED page /\ UNCHANGED vars /\ now' = now /\ scenario' = scenario
    BY <1>7 DEF allVars, page, vars, clock
  <2> QED BY <1>1, <1>2, <1>3, <2>1
<1> QED BY <1>4, <1>5, <1>6, <1>7 DEF BesideNext

(* The inductive invariant of the page and the client beside it. *)
THEOREM BesideInvariance == BesideSpec => []BesideInv
BY BesideInitOK, BesideStepOK, PTL DEF BesideSpec

(* What is told in the end, scenario by scenario. *)
LEMMA InTheEnd ==
    ASSUME Verdict, scenario \in SCENARIOS
    PROVE  LET told(ti, st) == Entry(ti, st) \in Told(steps)
               passes == scenario \notin {"tamper", "exit", "spoof"}
           IN  /\ {x \in Told(steps) : x.status = "fail"} =
                     {Entry(ti, "fail") : ti \in StopsAt(scenario)}
               /\ passes <=> StopsAt(scenario) = {}
               /\ told("fetch", "ok") <=> scenario # "tamper"
               /\ told("neutral", "ok") <=> Private
               /\ told("provider", "ok") <=> passes
               /\ told("auditor", "ok") <=> passes
               /\ told("contestations", "warn") <=> scenario = "contest"
               /\ told("act", "ok") <=> passes
<1> USE DEF Entry, StopsAt, Private, FactsTold, AddressTold, ProviderTold, AuditorTold,
            BothSidesTold, Verdict
<1>1. CASE scenario = "tamper"
  BY <1>1
<1>2. CASE scenario = "exit"
  BY <1>2
<1>3. CASE scenario = "spoof"
  BY <1>3
<1>4. CASE scenario = "contest"
  BY <1>4
<1>5. CASE scenario = "privacy"
  BY <1>5
<1>6. CASE scenario = "resolve"
  BY <1>6
<1> QED BY <1>1, <1>2, <1>3, <1>4, <1>5, <1>6 DEF SCENARIOS

(* A page in time fails at the hop its title announces and at no other,     *)
(* stops there, and shows a counter-claim where there is one.               *)
THEOREM AsAnnounced == BesideSpec => []PageAsAnnounced
<1>1. ASSUME BesideInv PROVE PageAsAnnounced
  <2> SUFFICES ASSUME hop = "finished", InTime PROVE PageAsAnnounced
    BY DEF PageAsAnnounced, InTime
  <2>1. Verdict /\ scenario \in SCENARIOS
    BY <1>1 DEF BesideInv, PageOK
  <2>2. \A ti, st : Shown(ti, st) <=> Entry(ti, st) \in Told(steps)
    BY DEF Shown, Told
  <2>3. {steps[n].title : n \in {k \in DOMAIN steps : steps[k].status = "fail"}}
          = {e.title : e \in {x \in Told(steps) : x.status = "fail"}}
    BY DEF Told
  <2>4. {e.title : e \in {x \in Told(steps) : x.status = "fail"}} = StopsAt(scenario)
    <3>1. {x \in Told(steps) : x.status = "fail"} = {Entry(ti, "fail") : ti \in StopsAt(scenario)}
      BY <2>1, InTheEnd
    <3>2. \A ti : Entry(ti, "fail").title = ti
      BY DEF Entry
    <3> QED BY <3>1, <3>2
  <2>5. \A n \in DOMAIN steps : steps[n].status = "fail" => n = Len(steps)
    BY <1>1 DEF BesideInv, PageOK
  <2>6. Shown("contestations", "warn") <=> scenario = "contest"
    BY <2>1, <2>2, InTheEnd
  <2> QED BY <2>3, <2>4, <2>5, <2>6 DEF PageAsAnnounced
<1> QED BY <1>1, BesideInvariance, PTL

(* In time the page and the client come to the same verdict for the same    *)
(* reasons: both have been through the same objects of the scenario.        *)
THEOREM AgreesWithClient == BesideSpec => []PageAgreesWithClient
<1>1. ASSUME BesideInv PROVE PageAgreesWithClient
  <2> USE DEF Final, Bound, Fetched, NotSevered, Attested, Corroborated, Accepted
  <2> SUFFICES ASSUME hop = "finished", pc \in Final, InTime PROVE PageAgreesWithClient
    BY DEF PageAgreesWithClient, InTime
  <2>1. Verdict /\ scenario \in SCENARIOS /\ Along
    BY <1>1 DEF BesideInv, PageOK
  <2>2. \A ti, st : Shown(ti, st) <=> Entry(ti, st) \in Told(steps)
    BY DEF Shown, Told
  <2>3. refused <=> \E e \in Told(steps) : e.status = "fail"
    BY DEF refused, Told
  <2>4. /\ refused <=> scenario \in {"tamper", "exit", "spoof"}
        /\ Shown("fetch", "ok") <=> scenario # "tamper"
        /\ Shown("neutral", "ok") <=> Private
        /\ Shown("provider", "ok") <=> scenario \notin {"tamper", "exit", "spoof"}
        /\ Shown("auditor", "ok") <=> scenario \notin {"tamper", "exit", "spoof"}
        /\ Shown("contestations", "warn") <=> scenario = "contest"
        /\ Shown("act", "ok") <=> scenario \notin {"tamper", "exit", "spoof"}
    <3>1. refused <=> StopsAt(scenario) # {}
      <4>1. refused <=> {x \in Told(steps) : x.status = "fail"} # {}
        BY <2>3
      <4> QED BY <2>1, <4>1, InTheEnd
    <3> QED BY <2>1, <2>2, <3>1, InTheEnd
  <2>5. bundleShown # None
    BY <2>1, ShownAssumption, NoObjectAssumption DEF bundleShown
  <2>6. CASE pc = "resolved"
    <3>1. /\ scenario \notin {"tamper", "exit", "spoof"}
          /\ bundle = bundleShown /\ role = IF Private THEN "neutral" ELSE "primary"
          /\ provider = bundleShown.provider_vc /\ auditor = bundleShown.auditor_vc
          /\ surfaced = IF scenario = "contest" THEN {1} ELSE {}
          /\ acted = Invoke
      BY <2>1, <2>6 DEF Along
    <3>2. provider # None /\ auditor # None
      <4>1. live = {} /\ now \in Times
        BY <2>1 DEF Along
      <4> QED BY <2>1, <3>1, <4>1, World, Credentials DEF bundleShown
    <3>3. acted # None
      BY <3>1, WorldAssumption, NoneAssumption
    <3> QED BY <2>4, <2>5, <2>6, <3>1, <3>2, <3>3 DEF PageAgreesWithClient
  <2>7. CASE pc = "refused"
    <3>1. /\ scenario \in {"tamper", "exit", "spoof"} /\ role # "neutral"
          /\ bundle = IF scenario = "tamper" THEN None ELSE bundleShown
          /\ provider = None /\ auditor = None /\ surfaced = {} /\ acted = None
      BY <2>1, <2>7 DEF Along
    <3> QED BY <2>4, <2>5, <2>7, <3>1 DEF PageAgreesWithClient, Private
  <2>8. pc # "raised"
    BY <2>1 DEF Along
  <2> QED BY <2>6, <2>7, <2>8
<1> QED BY <1>1, BesideInvariance, PTL
=============================================================================
