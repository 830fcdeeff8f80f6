-------------------------- MODULE CorrectionLedger --------------------------
(***************************************************************************)
(* What a facts host keeps for the parties that correct an agent, seen     *)
(* from afar: under which contestation ids there is some entry, and for    *)
(* which agents some severance.  Neither set shrinks whatever is published *)
(* again; only losing the process loses the ledger, and then all of it.    *)
(* Contents are not part of it: a provider's own body may put another      *)
(* entry under an id on file, and another severance, in place of what was  *)
(* filed.                                                                  *)
(***************************************************************************)
CONSTANTS Agents, Ids

VARIABLES
    hosted,   \* agents with a bundle on this host
    filed,    \* filed[a]: the contestation ids on file for a
    severed   \* agents with a severance on file

vars == <<hosted, filed, severed>>

Init == /\ hosted = {}
        /\ filed = [a \in Agents |-> {}]
        /\ severed = {}

(* The provider publishes, or re-publishes, the bundle of a; it may carry *)
(* complaints and a severance of its own, and empties no id.              *)
Host(a) ==
    /\ hosted' = hosted \cup {a}
    /\ \E carried \in SUBSET Ids :
          filed' = [filed EXCEPT ![a] = @ \cup carried]
    /\ severed' \in {severed, severed \cup {a}}

(* An affected party files a complaint against a hosted agent. *)
File(a, i) ==
    /\ a \in hosted
    /\ filed' = [filed EXCEPT ![a] = @ \cup {i}]
    /\ UNCHANGED <<hosted, severed>>

(* A hosted agent retires its identity. *)
Sever(a) ==
    /\ a \in hosted
    /\ severed' = severed \cup {a}
    /\ UNCHANGED <<hosted, filed>>

(* The process restarts with an empty memory. *)
LoseAll == /\ hosted' = {}
           /\ filed' = [a \in Agents |-> {}]
           /\ severed' = {}

Next == \/ \E a \in Agents : Host(a) \/ Sever(a)
        \/ \E a \in Agents, i \in Ids : File(a, i)
        \/ LoseAll

Spec == Init /\ [][Next]_vars
=============================================================================
