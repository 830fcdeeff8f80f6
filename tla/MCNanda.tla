------------------------------ MODULE MCNanda ------------------------------
(* Up to three terminals.  Every identity, name and id is a string or a tuple *)
(* of strings.                                                                *)
EXTENDS Nanda

Agents == {"tr", "su", "rogue", "copy", "v1", "v2", "w1", "w2", "ent", "d", "rv"}

MCDids == Agents \cup {"resolver", "provider", "auditor", "rogueissuer", "party"}
MCCredIds ==
    ({"provider", "auditor", "rogue"} \X Agents)
        \cup ({"provider", "auditor", "rogue"} \X Agents \X {"status"})
MCUrls == ({"primary", "neutral"} \X Agents) \cup ({"primary"} \X Agents \X {"registry"})
MCNames == {"translator", "summarizer", "rogue", "tampered", "exitable", "exitable-v2",
            "assistant", "d", "revocable"}

MCAddrs ==
    {Signed(Native(a)) : a \in Agents} \cup
    {Signed(AddrOf("ent", "ent", "enterprise", Url("primary", "ent"), None, RegistryUrl("ent"))),
     Signed(AddrOf("rogue", "rogue", "native", Url("primary", "rogue"), None, None)),
     Signed(AddrOf("copy", "tr", "native", Url("primary", "copy"), None, None))}
MCRegistryAnswers == {[facts_url |-> Url("primary", "ent"), private_facts_url |-> None]}

(* A severance signed by another, and a complaint under the id without a receipt *)
(* of the agent's.                                                                *)
Forged(a) == [ExitOf(a) EXCEPT !.by = "party"]
Hollow == [Complaint EXCEPT !.receipt.by = None]
ForgedBody(a) == [BuildBundle(a) EXCEPT !.severance = Forged(a)]
HollowBody(a) == [BuildBundle(a) EXCEPT !.contestations[ComplaintId] = <<Hollow>>]

Filled(a, provider_vc, auditor_vc) ==
    {[severance |-> s, provider_vc |-> provider_vc, auditor_vc |-> auditor_vc,
      contestations |-> l] : s \in {None, ExitOf(a), Forged(a)},
                             l \in {<<>>, <<Complaint>>, <<Hollow>>}}
MCBundles ==
    UNION {Filled(a, ProviderVC(a), AuditorVC(a)) : a \in Agents}
        \cup Filled("rogue", VC(RogueIssuer, "rogue", "rogue", InvokeUrl), None)
        \cup Filled("copy", [ProviderVC("tr") EXCEPT !.by = None], None)

RevokedBy(i) == [credential_id |-> <<"provider", "rv">>, issuer_did |-> i, by |-> i]
MCRevocationLists == {<<>>, <<RevokedBy("provider")>>, <<RevokedBy("auditor")>>}

Visit(name, configurations, paths, n) ==
    <<Load(configurations)>> \o [k \in 1..n |-> Walk(name, paths, FALSE, "any")]
Paths == {"primary", "private"}

(* The files of an earlier run, whose services have been restarted since. *)
EarlierFiles == <<Save>>

Three(a, b, c) == [t \in Terminals |-> CASE t = "t1" -> a [] t = "t2" -> b [] t = "t3" -> c]

MCPlans ==
    << [texts |-> Three(RunAll("rogue", "copy", "v1", "v2", "ent", "d", "rv"), <<>>, <<>>),
        exits |-> {<<"v1", "v2">>}, faults |-> 2],
       (* A stranger walks and the provider publishes v1 again beside the exit. *)
       [texts |-> Three(EarlierFiles \o ExitScript("v1", "v2"),
                        Visit("exitable", {FALSE}, {"primary"}, 1),
                        <<Host("primary", BuildBundle("v1"))>>),
        exits |-> {<<"v1", "v2">>}, faults |-> 1],
       (* Another severance is published beside the exit, on the other host. *)
       [texts |-> Three(EarlierFiles \o ExitScript("v1", "v2"),
                        Visit("exitable", {FALSE}, {"private"}, 1),
                        <<Host("neutral", ForgedBody("v1"))>>),
        exits |-> {<<"v1", "v2">>}, faults |-> 0],
       (* Two exits at once. *)
       [texts |-> Three(RegisterScript, ExitScript("v1", "v2"), ExitScript("w1", "w2")),
        exits |-> {<<"v1", "v2">>, <<"w1", "w2">>}, faults |-> 0],
       (* A second issuer names the same credential. *)
       [texts |-> Three(EarlierFiles \o RevokeScript("rv"),
                        Visit("revocable", {TRUE}, {"primary"}, 2),
                        <<Revoke("rv", AuditorIssuer)>>),
        exits |-> {}, faults |-> 1],
       (* The contested agent is published again. *)
       [texts |-> Three(RegisterScript \o ContestScript, Visit("summarizer", {FALSE}, {"primary"}, 2),
                        <<Host("primary", BuildBundle("su"))>>),
        exits |-> {}, faults |-> 1],
       (* It is published with another entry under the complaint's id. *)
       [texts |-> Three(RegisterScript \o ContestScript, Visit("summarizer", {FALSE}, Paths, 1),
                        HostBundle(HollowBody("su"))),
        exits |-> {}, faults |-> 0],
       [texts |-> Three(EarlierFiles \o RegistrationsScript("ent", "d"),
                        Visit("assistant", BOOLEAN, Paths, 1), <<>>),
        exits |-> {}, faults |-> 1] >>
=============================================================================
