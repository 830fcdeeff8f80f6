----------------------------- MODULE SharedDir -----------------------------
(***************************************************************************)
(* The directory shared/: the resolver key (KeyStore), and the trust       *)
(* policy and the state file that register.py writes one after the other,  *)
(* each truncated before it is written, and that every other script reads  *)
(* one after the other.  The policy pins the resolver and the issuers; the *)
(* state file holds the issuers' secrets.  Each run of register.py makes   *)
(* issuers of its own, so the two files belong together.                   *)
(*                                                                         *)
(* A file that is empty or half written does not parse.                    *)
(***************************************************************************)
EXTENDS KeyStore

CONSTANTS
    Registrars, Readers,   \* terminals that run register.py, other scripts
    MaxRuns                \* bound: runs of register.py

ASSUME MaxRunsAssumption == MaxRuns \in Nat
ASSUME SeparateAssumption == Absent \notin Nat /\ Empty \notin Nat

Runs == 1..MaxRuns
Policy == [resolver : Keys, issuers : Runs]

ASSUME PolicyAssumption == Absent \notin Policy /\ Empty \notin Policy

VARIABLES
    policy,    \* trust_policy.json
    state,     \* demo_state.json: the run whose issuers' secrets it holds
    stage,     \* stage[r]: where r's register.py is
    draft,     \* draft[r]: the policy it is going to write
    runs,      \* runs of register.py so far
    phase, left,   \* phase[s]: whether s is reading its files; those it has still to read
    gotPolicy, gotState,   \* what s has read
    alone,     \* history: alone[r], nobody else was saving since r began to
    broken,    \* history: a run ended while saving, or two saved at once, since the
               \* last run that saved alone
    unsettled  \* history: unsettled[s], the files were not a finished pair all the time
               \* since s began to read

saver == <<stage, draft, runs, alone>>
reader == <<phase, left, gotPolicy, gotState>>
shared == <<policy, state, saver, reader, broken, unsettled>>

Files == {"policy", "state"}
SavingStages == {"policy_open", "state", "state_open"}
Saving(r) == stage[r] \in SavingStages
Settled == policy # Absent /\ ~ broken /\ \A r \in Registrars : ~ Saving(r)
-----------------------------------------------------------------------------
(* Mutant: the policy is written before the resolver was asked. *)
BeginRegister_Unasked(r) ==
    /\ stage[r] = "off" /\ runs < MaxRuns
    /\ runs' = runs + 1
    /\ stage' = [stage EXCEPT ![r] = "policy"]
    /\ UNCHANGED <<policy, state, draft, reader, alone, broken, unsettled>>

(* register.main up to its last registration: its issuers are made, the     *)
(* resolver is asked of a running index.                                    *)
BeginRegister(r) ==
    /\ stage[r] = "off" /\ runs < MaxRuns
    /\ runs' = runs + 1
    /\ \E p \in Processes :
          /\ pc[p] = "serving"
          /\ draft' = [draft EXCEPT ![r] = [resolver |-> key[p], issuers |-> runs + 1]]
    /\ stage' = [stage EXCEPT ![r] = "policy"]
    /\ UNCHANGED <<policy, state, reader, alone, broken, unsettled>>

(* TrustPolicy.save: open for writing *)
OpenPolicy(r) ==
    /\ stage[r] = "policy"
    /\ policy' = Empty
    /\ stage' = [stage EXCEPT ![r] = "policy_open"]
    /\ alone' = [q \in Registrars |->
                    IF q = r THEN \A x \in Registrars : ~ Saving(x)
                    ELSE alone[q] /\ ~ Saving(q)]
    /\ unsettled' = [s \in Readers |-> TRUE]
    /\ UNCHANGED <<state, draft, runs, reader, broken>>

(* Mutant: the file is closed before anything is written. *)
WritePolicy_Unflushed(r) ==
    /\ stage[r] = "policy_open"
    /\ stage' = [stage EXCEPT ![r] = "state"]
    /\ UNCHANGED <<policy, state, draft, runs, reader, alone, broken, unsettled>>

WritePolicy(r) ==
    /\ stage[r] = "policy_open"
    /\ policy' = draft[r]
    /\ stage' = [stage EXCEPT ![r] = "state"]
    /\ UNCHANGED <<state, draft, runs, reader, alone, broken, unsettled>>

(* write_json *)
OpenState(r) ==
    /\ stage[r] = "state"
    /\ state' = Empty
    /\ stage' = [stage EXCEPT ![r] = "state_open"]
    /\ UNCHANGED <<policy, draft, runs, reader, alone, broken, unsettled>>

(* Mutant: the secrets stay those of the first run. *)
WriteState_First(r) ==
    /\ stage[r] = "state_open"
    /\ state' = 1
    /\ stage' = [stage EXCEPT ![r] = "off"]
    /\ broken' = ~ alone[r]
    /\ UNCHANGED <<policy, draft, runs, reader, alone, unsettled>>

WriteState(r) ==
    /\ stage[r] = "state_open"
    /\ state' = draft[r].issuers
    /\ stage' = [stage EXCEPT ![r] = "off"]
    /\ broken' = ~ alone[r]
    /\ UNCHANGED <<policy, draft, runs, reader, alone, unsettled>>

(* register.py is stopped: a request failed, or the terminal was closed. *)
StopRegister(r) ==
    /\ stage[r] # "off"
    /\ stage' = [stage EXCEPT ![r] = "off"]
    /\ broken' = (broken \/ Saving(r))
    /\ UNCHANGED <<policy, state, draft, runs, reader, alone, unsettled>>

(* A script starts: exit.py, contest.py, registrations.py and revoke.py read *)
(* the state first, tamper.py, resolve.py and spoof.py the policy.           *)
BeginRead(s) ==
    /\ phase[s] # "reading"
    /\ phase' = [phase EXCEPT ![s] = "reading"]
    /\ left' = [left EXCEPT ![s] = Files]
    /\ gotPolicy' = [gotPolicy EXCEPT ![s] = Absent]
    /\ gotState' = [gotState EXCEPT ![s] = Absent]
    /\ unsettled' = [unsettled EXCEPT ![s] = ~ Settled]
    /\ UNCHANGED <<policy, state, saver, broken>>

(* load_state, TrustPolicy.load: no file, or one that does not parse, is an *)
(* exception nobody catches.                                                *)
ReadFile(s, f) ==
    LET content == IF f = "policy" THEN policy ELSE state
    IN  /\ phase[s] = "reading" /\ f \in left[s]
        /\ left' = [left EXCEPT ![s] = @ \ {f}]
        /\ IF content \in {Absent, Empty}
           THEN /\ phase' = [phase EXCEPT ![s] = "failed"]
                /\ UNCHANGED <<gotPolicy, gotState>>
           ELSE /\ phase' = [phase EXCEPT ![s] = IF left[s] = {f} THEN "loaded" ELSE @]
                /\ gotPolicy' = IF f = "policy" THEN [gotPolicy EXCEPT ![s] = policy]
                                ELSE gotPolicy
                /\ gotState' = IF f = "state" THEN [gotState EXCEPT ![s] = state]
                               ELSE gotState
        /\ UNCHANGED <<policy, state, saver, broken, unsettled>>

SharedInit ==
    /\ Init
    /\ policy = Absent /\ state = Absent
    /\ stage = [r \in Registrars |-> "off"]
    /\ draft = [r \in Registrars |-> Absent]
    /\ runs = 0
    /\ phase = [s \in Readers |-> "off"] /\ left = [s \in Readers |-> {}]
    /\ gotPolicy = [s \in Readers |-> Absent] /\ gotState = [s \in Readers |-> Absent]
    /\ alone = [r \in Registrars |-> FALSE]
    /\ broken = FALSE /\ unsettled = [s \in Readers |-> FALSE]

ScriptNext ==
    \/ \E r \in Registrars : \/ BeginRegister(r) \/ OpenPolicy(r) \/ WritePolicy(r)
                             \/ OpenState(r) \/ WriteState(r) \/ StopRegister(r)
    \/ \E s \in Readers : BeginRead(s) \/ \E f \in Files : ReadFile(s, f)

SharedNext == \/ Next /\ UNCHANGED shared
              \/ ScriptNext /\ UNCHANGED vars

SharedSpec == SharedInit /\ [][SharedNext]_<<vars, shared>>
-----------------------------------------------------------------------------
SharedTypeOK ==
    /\ TypeOK
    /\ policy \in Policy \cup {Absent, Empty}
    /\ state \in Runs \cup {Absent, Empty}
    /\ stage \in [Registrars -> {"off", "policy"} \cup SavingStages]
    /\ draft \in [Registrars -> Policy \cup {Absent}]
    /\ runs \in 0..MaxRuns
    /\ phase \in [Readers -> {"off", "reading", "loaded", "failed"}]
    /\ left \in [Readers -> SUBSET Files]
    /\ gotPolicy \in [Readers -> Policy \cup {Absent}]
    /\ gotState \in [Readers -> Runs \cup {Absent}]
    /\ alone \in [Registrars -> BOOLEAN] /\ broken \in BOOLEAN
    /\ unsettled \in [Readers -> BOOLEAN]
    /\ \A r \in Registrars : stage[r] # "off" => draft[r] # Absent
    /\ \A s \in Readers :
          /\ phase[s] \in {"reading", "loaded"} =>
                /\ gotPolicy[s] = Absent => "policy" \in left[s]
                /\ gotState[s] = Absent => "state" \in left[s]
          /\ phase[s] = "loaded" => left[s] = {}

(* A script that reads files no run of register.py touches meanwhile, and   *)
(* that the last one finished, alone, has the secrets of the very issuers   *)
(* its policy trusts ("the SAME provider + auditor issuers register.py      *)
(* used, so VCs the extension demos issue are trusted by the already-pinned *)
(* client trust policy", demo/_common.py:122-123), whatever runs were       *)
(* stopped or crossed each other before.                                    *)
LoadedPairMatches ==
    \A s \in Readers :
        phase[s] = "loaded" /\ ~ unsettled[s] => gotState[s] = gotPolicy[s].issuers

(* It fails to load them only when there are none, or a run was saving or   *)
(* was stopped while it did.                                                *)
LoadFailsOnlyForCause == \A s \in Readers : phase[s] = "failed" => unsettled[s]

(* A policy outlives the index it was written with: unless two processes    *)
(* raced to create the key, whatever policy a script has loaded pins the    *)
(* identity of every index that serves, then or after any restart           *)
(* (register.py 81, 131-136; index/app.py 28-31).                           *)
PolicySurvivesRestarts ==
    ~ raced =>
        \A s \in Readers :
            gotPolicy[s] # Absent =>
                /\ gotPolicy[s].resolver = file
                /\ \A p \in Processes :
                      pc[p] = "serving" => key[p] = gotPolicy[s].resolver
=============================================================================
