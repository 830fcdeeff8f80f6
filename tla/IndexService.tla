---------------------------- MODULE IndexService ----------------------------
(***************************************************************************)
(* What the lean index (src/index/app.py) is to those who use it: one      *)
(* address per name and one revocation per credential id, each the last    *)
(* that was accepted, all gone when the process ends.  LeanIndex has its   *)
(* handlers as threads run them and implements this module.                *)
(***************************************************************************)
CONSTANTS
    Names, Addrs, NoAddr,              \* names, signed addresses, no entry
    CredIds, RevokeRecords, NoRevocation,
    WellFormed                         \* identities that decode to a key

VARIABLES
    entries,      \* _by_name
    revocations   \* _revocations

service == <<entries, revocations>>

Register(n, a) ==
    /\ entries' = [entries EXCEPT ![n] = a]
    /\ UNCHANGED revocations

(* Signed by the issuer it names; whether the credential is that issuer's   *)
(* own is left to the client.                                               *)
Genuine(r) == r.issuer_did \in WellFormed /\ r.by = r.issuer_did

Revoke(r) ==
    /\ Genuine(r)
    /\ revocations' = [revocations EXCEPT ![r.credential_id] = r]
    /\ UNCHANGED entries

Restart ==
    /\ entries' = [n \in Names |-> NoAddr]
    /\ revocations' = [c \in CredIds |-> NoRevocation]

Init ==
    /\ entries = [n \in Names |-> NoAddr]
    /\ revocations = [c \in CredIds |-> NoRevocation]

Next ==
    \/ \E n \in Names, a \in Addrs : Register(n, a)
    \/ \E r \in RevokeRecords : Revoke(r)
    \/ Restart

Spec == Init /\ [][Next]_service
=============================================================================
