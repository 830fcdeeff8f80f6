------------------------- MODULE MCFactsHostThreads -------------------------
(* Requests of two clients and a provider to one agent's bundle. *)
EXTENDS FactsHostThreads, TLC

CONSTANTS a1, a2, i1, i2, c1, c2, s1, s2, k1, k2, t1, t2, t3

E(i, c) == [id |-> i, claim |-> c]
Put(a, path, k, list, sev) ==
    [op |-> "put", agent |-> path, agent_id |-> a,
     bundle |-> [creds |-> k, contestations |-> list, severance |-> sev]]
Contest(a, i, c) == [op |-> "contest", agent |-> a, entry |-> E(i, c)]
Sever(a, s) == [op |-> "sever", agent |-> a, severance |-> s]
Get(a) == [op |-> "get", agent |-> a]

(* The requests whose overlap matters, and those of another agent: the      *)
(* provider's re-hosting, bare and with a complaint and a severance of its  *)
(* own, POSTs of the same complaint, of another and of one without an id,   *)
(* severances, one of them the empty object.                                *)
RacingRequests ==
    {Put(a1, a1, k1, <<>>, NoSeverance),
     Put(a1, a1, k1, <<E(i2, c1)>>, s2),
     Put(a1, a2, k1, <<>>, NoSeverance),
     Put(a2, a2, k1, <<>>, NoSeverance),
     Contest(a1, i1, c1), Contest(a1, NoId, c1), Contest(a2, i1, c2),
     Sever(a1, s1), Sever(a1, NoSeverance), Get(a1)}

Pool == Permutations(Threads)
=============================================================================
