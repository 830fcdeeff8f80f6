------------------------------ MODULE Scripts ------------------------------
(***************************************************************************)
(* The scenario scripts (src/demo) as sequences of steps that Nanda takes. *)
(* Each script generates its agents' identities, which are the parameters  *)
(* here; the names are fixed in the code.  An agent stands for its did:key *)
(* and, unless said otherwise, for the registry id made for it.  Reads     *)
(* that cannot make a difference (the resolver's identity, a policy loaded *)
(* a second time) are left out.                                            *)
(***************************************************************************)
EXTENDS TrustObjects, Sequences

CONSTANTS
    ProviderIssuer, AuditorIssuer,   \* made by register.py, in its state file
    RogueIssuer,                     \* made by spoof.py
    AffectedParty,                   \* made by contest.py
    Translator, Summarizer,          \* the two agents of register.py
    InvokeUrl, ComplaintId, InteractionId

Url(host, a) == <<host, a>>
RegistryUrl(a) == <<"primary", a, "registry">>

VC(issuer, kind, a, endpoint) ==
    [typ_ok |-> TRUE, kid |-> issuer, by |-> issuer, issuer |-> issuer,
     id |-> <<kind, a>>, status |-> <<kind, a, "status">>,
     validFrom |-> 0, validUntil |-> MaxTime, subject |-> a, endpoint |-> endpoint]

ProviderVC(a) == VC(ProviderIssuer, "provider", a, InvokeUrl)
AuditorVC(a) == VC(AuditorIssuer, "auditor", a, None)

(* A FactsBundle with nothing filed yet, and the one build_bundle makes. *)
BundleOf(a, provider_vc, auditor_vc) ==
    [agent_id |-> a,
     creds |-> [provider_vc |-> provider_vc, auditor_vc |-> auditor_vc],
     contestations |-> [i \in Opt(ContestationIds) |-> <<>>],
     severance |-> None]
BuildBundle(a) == BundleOf(a, ProviderVC(a), AuditorVC(a))

(* What the index makes of a registration, before it signs. *)
AddrOf(a, did, type, primary, private, registry) ==
    [agent_id |-> a, agent_did |-> did, registration_type |-> type,
     primary_facts_url |-> primary, private_facts_url |-> private,
     registry_url |-> registry, vm |-> None, by |-> None]
Native(a) == AddrOf(a, a, "native", Url("primary", a), Url("neutral", a), None)

Receipt == [agent_id |-> Summarizer, agent_did |-> Summarizer,
            counterparty |-> AffectedParty, interaction_id |-> InteractionId,
            by |-> Summarizer]
Complaint == [contestation_id |-> ComplaintId, contestant |-> AffectedParty,
              agent_id |-> Summarizer, agent_did |-> Summarizer,
              interaction_id |-> InteractionId, receipt |-> Receipt,
              vm |-> AffectedParty, by |-> AffectedParty]
ExitOf(a) == [agent_id |-> a, agent_did |-> a, vm |-> a, by |-> a]
-----------------------------------------------------------------------------
(* The steps.  What a walk is to end in: "resolves" (an exception stops the *)
(* script), "refused" (success fails it at once), "rejected" (success fails *)
(* it at its verdict), "surfaces" (at least one valid contestation shown),  *)
(* or "any".                                                                *)
Load(configured) == [op |-> "load", configured |-> configured]
Host(h, body) == [op |-> "host", host |-> h, body |-> body]
Register(name, a) == [op |-> "register", name |-> name, addr |-> a]
Save == [op |-> "save"]
File(h) == [op |-> "file", host |-> h]
Sever(h, a) == [op |-> "sever", host |-> h, agent |-> a]
Revoke(a, issuer) == [op |-> "revoke", agent |-> a, issuer |-> issuer]
Tamper(name) == [op |-> "tamper", name |-> name]
Read(name) == [op |-> "read", name |-> name]
Walk(name, paths, calls, end) ==
    [op |-> "walk", name |-> name, paths |-> paths, act |-> calls, end |-> end]
Verdict == [op |-> "verdict"]

HostBundle(body) == <<Host("primary", body), Host("neutral", body)>>

Publish(name, a, addr) == HostBundle(BuildBundle(a)) \o <<Register(name, addr)>>

RegisterScript ==
    Publish("translator", Translator, Native(Translator))
    \o Publish("summarizer", Summarizer, Native(Summarizer)) \o <<Save>>

ResolveScript ==
    <<Load({FALSE}), Walk("translator", {"primary"}, TRUE, "resolves"),
      Walk("summarizer", {"private"}, TRUE, "resolves")>>

TamperScript == <<Load({FALSE}), Tamper("translator"), Verdict>>

(* _register_rogue: only on the primary host, without an audit. *)
Rogue(name, a, did, vc) ==
    <<Host("primary", BundleOf(a, vc, None)),
      Register(name, AddrOf(a, did, "native", Url("primary", a), None, None)),
      Walk(name, {"primary"}, FALSE, "rejected")>>

(* A changed payload leaves no key that verifies the token. *)
SpoofScript(rogue, copy) ==
    <<Load({FALSE})>> \o Rogue("rogue", rogue, rogue, VC(RogueIssuer, "rogue", rogue, InvokeUrl))
    \o <<Read("translator")>>
    \o Rogue("tampered", copy, Translator, [ProviderVC(Translator) EXCEPT !.by = None])
    \o <<Verdict>>

ContestScript ==
    <<Load({FALSE}), File("primary"), File("neutral"),
      Walk("summarizer", {"private"}, FALSE, "surfaces")>>

ExitScript(v1, v2) ==
    <<Load({FALSE})>> \o Publish("exitable", v1, Native(v1))
    \o <<Walk("exitable", {"primary"}, FALSE, "resolves")>>
    \o Publish("exitable-v2", v2, Native(v2))
    \o <<Sever("primary", v1), Sever("neutral", v1),
         Walk("exitable", {"primary"}, FALSE, "refused"),
         Walk("exitable-v2", {"primary"}, FALSE, "resolves")>>

(* The did-based agent's name is its identity. *)
RegistrationsScript(ent, d) ==
    <<Load({FALSE})>>
    \o Publish("assistant", ent,
               AddrOf(ent, ent, "enterprise", Url("primary", ent), None, RegistryUrl(ent)))
    \o <<Walk("assistant", {"primary"}, FALSE, "resolves")>>
    \o Publish(d, d, Native(d)) \o <<Walk(d, {"primary"}, FALSE, "resolves")>>

RevokeScript(a) ==
    <<Load({TRUE})>> \o Publish("revocable", a, Native(a))
    \o <<Walk("revocable", {"primary"}, FALSE, "resolves"), Revoke(a, ProviderIssuer),
         Walk("revocable", {"primary"}, FALSE, "refused")>>

RunAll(rogue, copy, v1, v2, ent, d, a) ==
    RegisterScript \o ResolveScript \o TamperScript \o SpoofScript(rogue, copy)
    \o ContestScript \o ExitScript(v1, v2) \o RegistrationsScript(ent, d)
    \o RevokeScript(a)
=============================================================================
