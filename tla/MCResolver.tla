----------------------------- MODULE MCResolver -----------------------------
(* A client that trusts two issuers and requires one of them; every object *)
(* is the good one or differs from it in one thing that matters.           *)
EXTENDS Resolver

CONSTANTS r, g, h, p, q, u, f, m,     \* resolver, agent, other agent, issuers,
                                      \* untrusted issuer, affected party, malformed
          x, y,                       \* registry entries
          v1, v2, st, w,              \* credential and status ids
          primary, neutral, registry, \* urls
          e, int1, int2, n1, n2

Addr == [agent_id |-> x, agent_did |-> g, registration_type |-> "native",
         primary_facts_url |-> primary, private_facts_url |-> neutral,
         registry_url |-> None, vm |-> r, by |-> r]
Enterprise == [Addr EXCEPT !.registration_type = "enterprise", !.registry_url = registry]

MCAddrs ==
    {Addr, Enterprise,
     [Addr EXCEPT !.private_facts_url = None],
     [Addr EXCEPT !.registration_type = "enterprise"],
     [Addr EXCEPT !.agent_id = y],
     [Addr EXCEPT !.agent_did = None],
     [Addr EXCEPT !.by = None],
     [Addr EXCEPT !.vm = u, !.by = u]}

MCRegistryAnswers ==
    {[facts_url |-> primary, private_facts_url |-> None],
     [facts_url |-> primary, private_facts_url |-> neutral],
     [facts_url |-> None, private_facts_url |-> None]}

Provider == [typ_ok |-> TRUE, kid |-> p, by |-> p, issuer |-> p, id |-> v1,
             status |-> st, validFrom |-> 0, validUntil |-> MaxTime,
             subject |-> g, endpoint |-> e]
Auditor == [Provider EXCEPT !.kid = q, !.by = q, !.issuer = q, !.id = v2,
            !.status = None, !.endpoint = None]
By(c, i) == [c EXCEPT !.kid = i, !.by = i, !.issuer = i]

Providers ==
    {Provider, None, By(Provider, q), By(Provider, u),
     [Provider EXCEPT !.by = None], [Provider EXCEPT !.issuer = q],
     [Provider EXCEPT !.typ_ok = FALSE],
     [Provider EXCEPT !.kid = m, !.issuer = m],
     [Provider EXCEPT !.validUntil = 0], [Provider EXCEPT !.validFrom = 1],
     [Provider EXCEPT !.validUntil = None], [Provider EXCEPT !.validUntil = NoZone],
     [Provider EXCEPT !.validFrom = Unparsable], [Provider EXCEPT !.validFrom = Untyped],
     [Provider EXCEPT !.subject = h],
     [Provider EXCEPT !.id = w], [Provider EXCEPT !.id = None],
     [Provider EXCEPT !.endpoint = None]}

Auditors == {None, Auditor, By(Auditor, p), By(Auditor, u),
             [Auditor EXCEPT !.subject = h], [Auditor EXCEPT !.validUntil = 1],
             [Auditor EXCEPT !.validFrom = NoZone]}

Exit == [agent_id |-> x, agent_did |-> g, vm |-> g, by |-> g]
Severances == {None, Exit, [Exit EXCEPT !.agent_id = y], [Exit EXCEPT !.vm = h, !.by = h],
               [Exit EXCEPT !.by = h]}

Receipt == [agent_id |-> x, agent_did |-> g, counterparty |-> f,
            interaction_id |-> int1, by |-> g]
Complaint == [contestation_id |-> n1, contestant |-> f, agent_id |-> x, agent_did |-> g,
              interaction_id |-> int1, receipt |-> Receipt, vm |-> f, by |-> f]
Second == [Complaint EXCEPT !.contestation_id = n2]

Contests ==
    {<<>>, <<Complaint>>, <<Complaint, Complaint, Second>>,
     <<[Complaint EXCEPT !.contestation_id = None], Second>>,
     <<[Complaint EXCEPT !.by = None], Complaint>>,
     <<[Complaint EXCEPT !.receipt.by = f]>>,
     <<[Complaint EXCEPT !.receipt.counterparty = h], Second>>,
     <<[Complaint EXCEPT !.interaction_id = int2], Second>>,
     <<[Complaint EXCEPT !.agent_id = y, !.receipt.agent_id = y]>>,
     <<[Complaint EXCEPT !.agent_id = y]>>,
     <<[Complaint EXCEPT !.vm = h, !.by = h]>>}

BundleOf(sev, prov, aud, list) ==
    [severance |-> sev, provider_vc |-> prov, auditor_vc |-> aud, contestations |-> list]

MCBundles ==
    {BundleOf(None, c, Auditor, <<>>) : c \in Providers} \cup
    {BundleOf(None, c, a, <<>>) : c \in {Provider, By(Provider, q)}, a \in Auditors} \cup
    {BundleOf(s, Provider, Auditor, <<Complaint>>) : s \in Severances} \cup
    {BundleOf(None, Provider, Auditor, l) : l \in Contests}

MCRevocationLists ==
    LET By1(c, i, k) == [credential_id |-> c, issuer_did |-> i, by |-> k]
    IN  {<<>>, <<By1(v1, p, p), By1(v2, u, u)>>, <<By1(st, p, p)>>,
         <<By1(v1, q, q), By1(v2, q, None)>>, <<By1(v2, q, q)>>,
         <<By1(v1, p, p), By1(v1, q, q)>>}
=============================================================================
