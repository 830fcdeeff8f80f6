---------------------------- MODULE MCFactsHost ----------------------------
(* A host with two agents, two contestation ids and two contents per id. *)
EXTENDS FactsHost, TLC

CONSTANTS a1, a2, i1, i2, c1, c2, s1, s2, k1, k2

B(a, k, list, sev) ==
    [agent_id |-> a, creds |-> k, contestations |-> list, severance |-> sev]

Nothing == [i \in Ids \cup {NoId} |-> <<>>]

(* The first publication, a later version, one that brings back a complaint *)
(* under its id with other contents, one that repeats an id and has an      *)
(* entry without one, one that carries a severance; and the other agent's.  *)
MCBodies ==
    {B(a1, k1, Nothing, NoSeverance),
     B(a1, k2, [Nothing EXCEPT ![i1] = <<c1>>], NoSeverance),
     B(a1, k1, [Nothing EXCEPT ![i1] = <<c1, c2>>, ![NoId] = <<c1>>], NoSeverance),
     B(a1, k1, Nothing, s2),
     B(a2, k1, [Nothing EXCEPT ![i2] = <<c1>>], NoSeverance)}
=============================================================================
