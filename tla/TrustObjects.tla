---------------------------- MODULE TrustObjects ----------------------------
(***************************************************************************)
(* The signed objects of src/nanda_core and the checks on them.            *)
(*                                                                         *)
(* A signature is what its verification says: the field "by" of an object  *)
(* is the identity whose key verifies it over the object's present         *)
(* contents, None when no key does (unsigned, or changed after signing).   *)
(* The field "vm" is the identity the object's proof claims.  A did:key is *)
(* its key, so one set, Dids, stands for both; decode_did_key succeeds     *)
(* exactly on WellFormed.                                                  *)
(***************************************************************************)
EXTENDS Naturals

CONSTANTS
    Dids, WellFormed,
    AgentIds,       \* registry handles
    CredIds,        \* ids of credentials and of their status entries
    Urls, Endpoints,
    InteractionIds,
    ContestationIds,
    MaxTime,        \* bound: the clock, and the dates in credentials
    None,           \* a missing, null or empty field
    Unparsable,     \* a date string datetime.fromisoformat rejects
    NoZone,         \* a date string without an offset
    Untyped         \* a date that is not a string

ASSUME WellFormedAssumption == WellFormed \subseteq Dids
ASSUME NoneAssumption == None \notin Dids \cup AgentIds \cup CredIds \cup Urls \cup Endpoints
ASSUME MaxTimeAssumption == MaxTime \in Nat

Times == 0..MaxTime
ASSUME DatesAssumption == {None, Unparsable, NoZone, Untyped} \cap Times = {}

Opt(S) == S \cup {None}

(* models.py, Tier 1.  registry_url is enterprise_registry_url. *)
AgentAddr == [agent_id : Opt(AgentIds), agent_did : Opt(Dids),
              registration_type : {"native", "enterprise"},
              primary_facts_url : Opt(Urls), private_facts_url : Opt(Urls),
              registry_url : Opt(Urls), vm : Opt(Dids), by : Opt(WellFormed)]

Severance == [agent_id : Opt(AgentIds), agent_did : Opt(Dids),
              vm : Opt(Dids), by : Opt(WellFormed)]

InteractionReceipt ==
    [agent_id : Opt(AgentIds), agent_did : Opt(Dids), counterparty : Opt(Dids),
     interaction_id : Opt(InteractionIds), by : Opt(WellFormed)]

Contestation ==
    [contestation_id : Opt(ContestationIds), contestant : Opt(Dids),
     agent_id : Opt(AgentIds), agent_did : Opt(Dids),
     interaction_id : Opt(InteractionIds), receipt : InteractionReceipt,
     vm : Opt(Dids), by : Opt(WellFormed)]

Dates == Times \cup {None, Unparsable, NoZone, Untyped}

(* A JWT-VC: its header (typ, kid) and its claims; status is              *)
(* credentialStatus.id, subject and endpoint are of credentialSubject.    *)
Credential ==
    [typ_ok : BOOLEAN, kid : Opt(Dids), by : Opt(WellFormed), issuer : Opt(Dids),
     id : Opt(CredIds), status : Opt(CredIds), validFrom : Dates, validUntil : Dates,
     subject : Opt(Dids), endpoint : Opt(Endpoints)]

(* An entry of the index's revocation list. *)
Revocation == [credential_id : Opt(CredIds), issuer_did : Opt(Dids), by : Opt(WellFormed)]
-----------------------------------------------------------------------------
(* crypto.verify_record and verify_bytes with the key decode_did_key gives. *)
SignedBy(object, did) == did \in WellFormed /\ object.by = did

(* severance.verify_severance; no severance is not a valid one. *)
VerifySeverance(sev, did, aid) ==
    /\ sev # None
    /\ sev.agent_did = did
    /\ aid # None => sev.agent_id = aid
    /\ sev.vm = did
    /\ SignedBy(sev, did)

(* contest.verify_contestation: signed by the contestant it names, who     *)
(* holds a receipt of this interaction signed by this very agent.          *)
VerifyContestation(c, did, aid) ==
    /\ c.contestant # None /\ c.vm = c.contestant
    /\ SignedBy(c, c.contestant)
    /\ c.receipt.agent_did = did /\ SignedBy(c.receipt, did)
    /\ c.receipt.counterparty = c.contestant
    /\ c.receipt.interaction_id = c.interaction_id
    /\ c.agent_did = did
    /\ c.receipt.agent_id = c.agent_id
    /\ aid # None => c.agent_id = aid

(* vc.verify_credential up to the dates: type, issuer, signature. *)
Authentic(c, trusted) ==
    /\ c.typ_ok
    /\ c.kid # None /\ c.kid \in trusted
    /\ SignedBy(c, c.kid)
    /\ c.issuer = c.kid

(* The validity window. *)
InWindow(c, now) ==
    /\ c.validFrom \in Times /\ c.validUntil \in Times
    /\ c.validFrom <= now /\ now <= c.validUntil

(* A date that is not a string raises AttributeError when it is parsed and  *)
(* one without an offset TypeError when it is compared; verify_credential   *)
(* turns neither into its VCError.  Missing dates are found before, an      *)
(* unparsable first date before the second is parsed, and a window that has *)
(* not begun before the second is compared.                                 *)
DatesRaise(c, now) ==
    /\ None \notin {c.validFrom, c.validUntil}
    /\ \/ c.validFrom = Untyped
       \/ c.validUntil = Untyped /\ c.validFrom # Unparsable
       \/ c.validFrom = NoZone /\ c.validUntil # Unparsable
       \/ c.validUntil = NoZone /\ c.validFrom \in Times /\ c.validFrom <= now

VerifyCredential(c, trusted, now) ==
    IF ~ Authentic(c, trusted) THEN "rejected"
    ELSE IF DatesRaise(c, now) THEN "raises"
    ELSE IF InWindow(c, now) THEN "verified" ELSE "rejected"

(* TrustPolicy.is_revoked *)
IsRevoked(c, revoked) == c.id \in revoked \/ c.status \in revoked
=============================================================================
