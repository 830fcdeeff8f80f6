---------------------------- MODULE MCLeanIndex ----------------------------
(* Two names, two given ids and generated ones; revocations of one credential *)
(* by its issuer, by another identity, and unsigned.                           *)
EXTENDS LeanIndex, TLC

CONSTANTS n1, n2, i1, i2, j1, j2, k1, k2, v1, p, u, m, t1, t2, t3

Reg(n, i, k) == [op |-> "register", agent_name |-> n, agent_id |-> i, pointer |-> k]
Rev(d, by) == [op |-> "revoke",
               revocation |-> [credential_id |-> v1, issuer_did |-> d, by |-> by]]

(* Registrations that repeat a name, an id or both, and every other kind of *)
(* request; revocations by the issuer p, by u, and three that are refused.   *)
MCRequests ==
    {Reg(n1, i1, k1), Reg(n1, i1, k2), Reg(n1, i2, k1), Reg(n2, i1, k1),
     Reg(n2, NoId, k1), [op |-> "list"], [op |-> "revocations"],
     [op |-> "resolve", name |-> n1],
     Rev(p, p), Rev(u, u), Rev(p, u), Rev(m, p), Rev(p, Unreadable)}

Pool == Permutations(Threads)
=============================================================================
