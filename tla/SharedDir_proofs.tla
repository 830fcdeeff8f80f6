-------------------------- MODULE SharedDir_proofs --------------------------
(***************************************************************************)
(* Proofs about the shared directory, for any number of index processes,   *)
(* of terminals and of runs of register.py.                                *)
(***************************************************************************)
EXTENDS SharedDir, KeyStore_proofs

(* The key store goes on as if the other files were not there. *)
LEMMA KeepsKeyStore == SharedSpec => Spec
<1>1. SharedInit => Init
  BY DEF SharedInit
<1>2. [SharedNext]_<<vars, shared>> => [Next]_vars
  BY DEF SharedNext
<1> QED BY <1>1, <1>2, PTL DEF SharedSpec, Spec

(* Every reachable state is well typed. *)
THEOREM SharedTypeCorrect == SharedSpec => []SharedTypeOK
<1> DEFINE T == SharedTypeOK
<1> USE DEF Files, SavingStages
<1>1. SharedInit /\ TypeOK => T
  <2>1. 0 \in 0..MaxRuns
    BY MaxRunsAssumption
  <2> QED BY <2>1 DEF SharedInit, SharedTypeOK
<1>2. ASSUME T, TypeOK', [SharedNext]_<<vars, shared>> PROVE T'
  <2> USE <1>2 DEF SharedTypeOK, saver, reader
  <2>1. ASSUME NEW r \in Registrars, BeginRegister(r) PROVE T'
    <3>1. PICK p \in Processes :
             /\ pc[p] = "serving"
             /\ draft' = [draft EXCEPT ![r] = [resolver |-> key[p], issuers |-> runs + 1]]
      BY <2>1 DEF BeginRegister
    <3>2. key[p] \in Keys
      BY <3>1 DEF TypeOK
    <3>3. runs + 1 \in Runs /\ runs + 1 \in 0..MaxRuns
      BY <2>1, MaxRunsAssumption DEF BeginRegister, Runs
    <3>4. [resolver |-> key[p], issuers |-> runs + 1] \in Policy
      BY <3>2, <3>3 DEF Policy
    <3>5. Absent \notin Policy
      BY PolicyAssumption
    <3> HIDE DEF Policy
    <3> QED BY <2>1, <3>1, <3>3, <3>4, <3>5 DEF BeginRegister
  <2>2. ASSUME NEW r \in Registrars, OpenPolicy(r) PROVE T'
    BY <2>2 DEF OpenPolicy
  <2>3. ASSUME NEW r \in Registrars, WritePolicy(r) PROVE T'
    BY <2>3 DEF WritePolicy
  <2>4. ASSUME NEW r \in Registrars, OpenState(r) PROVE T'
    BY <2>4 DEF OpenState
  <2>5. ASSUME NEW r \in Registrars, WriteState(r) PROVE T'
    <3>1. draft[r].issuers \in Runs
      BY <2>5 DEF WriteState, Policy
    <3> QED BY <2>5, <3>1 DEF WriteState
  <2>6. ASSUME NEW r \in Registrars, StopRegister(r) PROVE T'
    BY <2>6 DEF StopRegister, Saving
  <2>7. ASSUME NEW s \in Readers, BeginRead(s) PROVE T'
    BY <2>7 DEF BeginRead, Settled
  <2>8. ASSUME NEW s \in Readers, NEW f \in Files, ReadFile(s, f) PROVE T'
    <3>1. CASE (IF f = "policy" THEN policy ELSE state) \in {Absent, Empty}
      BY <2>8, <3>1 DEF ReadFile
    <3>2. CASE (IF f = "policy" THEN policy ELSE state) \notin {Absent, Empty}
      <4>1. CASE f = "policy"
        BY <2>8, <3>2, <4>1 DEF ReadFile
      <4>2. CASE f = "state"
        BY <2>8, <3>2, <4>2 DEF ReadFile
      <4> QED BY <4>1, <4>2
    <3> QED BY <3>1, <3>2
  <2>9. CASE UNCHANGED shared
    BY <2>9 DEF shared
  <2> QED BY <2>1, <2>2, <2>3, <2>4, <2>5, <2>6, <2>7, <2>8, <2>9
          DEF SharedNext, ScriptNext
<1>3. SharedSpec => []TypeOK
  BY KeepsKeyStore, TypeCorrect, PTL
<1> QED BY <1>1, <1>2, <1>3, PTL DEF SharedSpec
(* A run that has been alone since it opened the policy has written what it *)
(* drafted, finished files are a pair, and a script that saw no saving has  *)
(* read what is still there.                                                *)
PairInvariant ==
    /\ Settled => policy \in Policy /\ state = policy.issuers
    /\ \A r \in Registrars :
          alone[r] /\ Saving(r) =>
              /\ \A q \in Registrars \ {r} : ~ Saving(q)
              /\ stage[r] # "policy_open" => policy = draft[r]
    /\ \A s \in Readers :
          phase[s] # "off" /\ ~ unsettled[s] =>
              /\ Settled /\ phase[s] # "failed"
              /\ gotPolicy[s] # Absent => gotPolicy[s] = policy
              /\ gotState[s] # Absent => gotState[s] = state

(* However runs of register.py stop and cross one another. *)
THEOREM PairInvariance == SharedSpec => []PairInvariant
<1> USE DEF PairInvariant, Settled, Saving, SavingStages
<1>1. SharedInit => PairInvariant
  BY DEF SharedInit
<1>2. ASSUME SharedTypeOK, PairInvariant, [SharedNext]_<<vars, shared>>
      PROVE  PairInvariant'
  <2> USE <1>2 DEF SharedTypeOK, saver, reader
  <2>1. ASSUME NEW r \in Registrars, BeginRegister(r) PROVE PairInvariant'
    BY <2>1 DEF BeginRegister
  <2>2. ASSUME NEW r \in Registrars, OpenPolicy(r) PROVE PairInvariant'
    BY <2>2 DEF OpenPolicy
  <2>3. ASSUME NEW r \in Registrars, WritePolicy(r) PROVE PairInvariant'
    BY <2>3 DEF WritePolicy
  <2>4. ASSUME NEW r \in Registrars, OpenState(r) PROVE PairInvariant'
    BY <2>4 DEF OpenState
  <2>5. ASSUME NEW r \in Registrars, WriteState(r) PROVE PairInvariant'
    <3>1. draft[r] \in Policy
      BY <2>5 DEF WriteState
    <3> HIDE DEF Policy
    <3> QED BY <2>5, <3>1 DEF WriteState
  <2>6. ASSUME NEW r \in Registrars, StopRegister(r) PROVE PairInvariant'
    BY <2>6 DEF StopRegister
  <2>7. ASSUME NEW s \in Readers, BeginRead(s) PROVE PairInvariant'
    BY <2>7 DEF BeginRead
  <2>8. ASSUME NEW s \in Readers, NEW f \in Files, ReadFile(s, f) PROVE PairInvariant'
    <3> USE DEF Files
    <3>1. Settled => policy \notin {Absent, Empty} /\ state \notin {Absent, Empty}
      BY SeparateAssumption, PolicyAssumption, MaxRunsAssumption DEF Policy, Runs
    <3>2. CASE (IF f = "policy" THEN policy ELSE state) \in {Absent, Empty}
      BY <2>8, <3>1, <3>2 DEF ReadFile
    <3>3. CASE (IF f = "policy" THEN policy ELSE state) \notin {Absent, Empty}
      <4>1. CASE f = "policy"
        BY <2>8, <3>3, <4>1 DEF ReadFile
      <4>2. CASE f = "state"
        BY <2>8, <3>3, <4>2 DEF ReadFile
      <4> QED BY <4>1, <4>2
    <3> QED BY <3>2, <3>3
  <2>9. CASE UNCHANGED shared
    BY <2>9 DEF shared
  <2> QED BY <2>1, <2>2, <2>3, <2>4, <2>5, <2>6, <2>7, <2>8, <2>9
          DEF SharedNext, ScriptNext
<1> QED BY <1>1, <1>2, SharedTypeCorrect, PTL DEF SharedSpec

(* A script that reads between two runs of register.py, the last of which   *)
(* finished alone, has the secrets of the issuers its policy trusts.        *)
THEOREM PairsMatch == SharedSpec => []LoadedPairMatches
<1>1. SharedTypeOK /\ PairInvariant => LoadedPairMatches
  BY DEF SharedTypeOK, PairInvariant, LoadedPairMatches, Files
<1> QED BY <1>1, SharedTypeCorrect, PairInvariance, PTL

(* A script fails to load the files only beside a save, or after a run that *)
(* was stopped or crossed another.                                          *)
THEOREM LoadFailuresHaveCause == SharedSpec => []LoadFailsOnlyForCause
<1>1. PairInvariant => LoadFailsOnlyForCause
  BY DEF PairInvariant, LoadFailsOnlyForCause
<1> QED BY <1>1, PairInvariance, PTL

(* Every policy, drafted, written or read, pins a key that some index has   *)
(* served with.                                                             *)
PinsServedKeys ==
    /\ \A p \in Processes : pc[p] = "serving" => key[p] \in pinned
    /\ \A r \in Registrars : draft[r] # Absent => draft[r].resolver \in pinned
    /\ policy \notin {Absent, Empty} => policy.resolver \in pinned
    /\ \A s \in Readers : gotPolicy[s] # Absent => gotPolicy[s].resolver \in pinned

(* register.py asks a serving index for the key it pins. *)
THEOREM PinsHold == SharedSpec => []PinsServedKeys
<1> USE DEF PinsServedKeys
<1>1. SharedInit => PinsServedKeys
  BY DEF SharedInit, Init
<1>2. ASSUME SharedTypeOK, PinsServedKeys, [SharedNext]_<<vars, shared>>
      PROVE  PinsServedKeys'
  <2> USE <1>2 DEF SharedTypeOK, saver, reader
  <2>1. CASE Next /\ UNCHANGED shared
    <3> SUFFICES /\ pinned \subseteq pinned'
                 /\ \A p \in Processes : pc'[p] = "serving" => key'[p] \in pinned'
      BY <2>1 DEF shared
    <3> USE DEF TypeOK
    <3>1. PICK p \in Processes :
             Launch(p) \/ Look(p) \/ Read(p) \/ Create(p) \/ Write(p) \/ End(p)
      BY <2>1 DEF Next
    <3>2. CASE Launch(p) \/ Look(p)
      BY <3>2 DEF Launch, Look
    <3>3. CASE Read(p)
      BY <3>3 DEF Read
    <3>4. CASE Create(p)
      BY <3>4 DEF Create
    <3>5. CASE Write(p)
      BY <3>5 DEF Write
    <3>6. CASE End(p)
      BY <3>6 DEF End
    <3> QED BY <3>1, <3>2, <3>3, <3>4, <3>5, <3>6
  <2>2. CASE UNCHANGED vars
    <3> USE <2>2 DEF vars
    <3>1. ASSUME NEW r \in Registrars, BeginRegister(r) PROVE PinsServedKeys'
      <4>1. PICK p \in Processes :
               /\ pc[p] = "serving"
               /\ draft' = [draft EXCEPT ![r] = [resolver |-> key[p], issuers |-> runs + 1]]
        BY <3>1 DEF BeginRegister
      <4>2. key[p] \in pinned
        BY <4>1
      <4> QED BY <3>1, <4>1, <4>2 DEF BeginRegister
    <3>2. ASSUME NEW r \in Registrars, OpenPolicy(r) PROVE PinsServedKeys'
      BY <3>2 DEF OpenPolicy
    <3>3. ASSUME NEW r \in Registrars, WritePolicy(r) PROVE PinsServedKeys'
      BY <3>3 DEF WritePolicy
    <3>4. ASSUME NEW r \in Registrars, OpenState(r) \/ WriteState(r) \/ StopRegister(r)
          PROVE  PinsServedKeys'
      BY <3>4 DEF OpenState, WriteState, StopRegister
    <3>5. ASSUME NEW s \in Readers, BeginRead(s) PROVE PinsServedKeys'
      BY <3>5 DEF BeginRead
    <3>6. ASSUME NEW s \in Readers, NEW f \in Files, ReadFile(s, f) PROVE PinsServedKeys'
      <4>1. CASE gotPolicy' = gotPolicy
        BY <3>6, <4>1 DEF ReadFile
      <4>2. CASE gotPolicy' # gotPolicy
        <5>1. /\ gotPolicy' = [gotPolicy EXCEPT ![s] = policy]
              /\ policy \notin {Absent, Empty}
          BY <3>6, <4>2 DEF ReadFile
        <5> QED BY <3>6, <5>1 DEF ReadFile
      <4> QED BY <4>1, <4>2
    <3>7. CASE UNCHANGED shared
      BY <3>7 DEF shared
    <3> QED BY <3>1, <3>2, <3>3, <3>4, <3>5, <3>6, <3>7 DEF SharedNext, ScriptNext
  <2> QED BY <2>1, <2>2 DEF SharedNext
<1> QED BY <1>1, <1>2, SharedTypeCorrect, PTL DEF SharedSpec

(* Unless two processes raced to create the key, a policy once loaded pins  *)
(* the identity of every index that serves, whatever was restarted.         *)
THEOREM PoliciesSurvive == SharedSpec => []PolicySurvivesRestarts
<1>1. PinsServedKeys /\ IdentityIsStable => PolicySurvivesRestarts
  BY DEF PinsServedKeys, IdentityIsStable, PolicySurvivesRestarts
<1> QED BY <1>1, PinsHold, KeepsKeyStore, StableIdentity, PTL
=============================================================================
