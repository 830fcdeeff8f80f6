--------------------------- MODULE KeyStore_proofs ---------------------------
(* For any number of processes and keys: the type invariant, that one       *)
(* identity is kept unless two processes raced, and that a start fails only *)
(* after a race or a torn creation.                                         *)
EXTENDS KeyStore, TLAPS

(* Every reachable state is well typed, and a process has a key exactly     *)
(* when it is about to write one or serves.                                 *)
THEOREM TypeCorrect == Spec => []TypeOK
<1> USE FilesAssumption DEF TypeOK
<1>1. Init => TypeOK
  <2>1. 0 \in 0..MaxKeys
    BY MaxKeysAssumption
  <2> QED BY <2>1 DEF Init
<1>2. TypeOK /\ [Next]_vars => TypeOK'
  <2> SUFFICES ASSUME TypeOK, [Next]_vars PROVE TypeOK'
    OBVIOUS
  <2>1. ASSUME NEW p \in Processes, Launch(p) PROVE TypeOK'
    BY <2>1 DEF Launch
  <2>2. ASSUME NEW p \in Processes, Look(p) PROVE TypeOK'
    BY <2>2 DEF Look
  <2>3. ASSUME NEW p \in Processes, Read(p) PROVE TypeOK'
    <3>1. CASE file = Empty
      BY <2>3, <3>1 DEF Read
    <3>2. CASE file # Empty
      <4>1. file \in Keys
        BY <2>3, <3>2 DEF Read
      <4> QED BY <2>3, <3>2, <4>1 DEF Read
    <3> QED BY <3>1, <3>2
  <2>4. ASSUME NEW p \in Processes, Create(p) PROVE TypeOK'
    <3>1. generated + 1 \in Keys /\ generated + 1 \in 0..MaxKeys
      BY <2>4, MaxKeysAssumption DEF Create, Keys
    <3> QED BY <2>4, <3>1 DEF Create
  <2>5. ASSUME NEW p \in Processes, Write(p) PROVE TypeOK'
    <3>1. key[p] \in Keys
      BY <2>5 DEF Write
    <3> QED BY <2>5, <3>1 DEF Write
  <2>6. ASSUME NEW p \in Processes, End(p) PROVE TypeOK'
    BY <2>6 DEF End
  <2>7. CASE UNCHANGED vars
    BY <2>7 DEF vars
  <2> QED BY <2>1, <2>2, <2>3, <2>4, <2>5, <2>6, <2>7 DEF Next
<1> QED BY <1>1, <1>2, PTL DEF Spec

(* Without a race there is one creator at a time; what it has done to the  *)
(* file so far is known, and an empty file has its creator still at work   *)
(* or lost.                                                                *)
Unraced ==
    /\ \A p, q \in Processes : pc[p] \in Creating /\ pc[q] \in Creating => p = q
    /\ \A p \in Processes : /\ pc[p] = "create" => file = Absent
                            /\ pc[p] = "write" => file = Empty
    /\ pinned \subseteq {file}

Untorn ==
    /\ file = Empty => \E p \in Processes : pc[p] = "write"
    /\ \A p \in Processes : /\ pc[p] = "read" => file \in Keys
                            /\ pc[p] # "failed"

CreationInvariant == ~ raced => Unraced /\ (~ torn => Untorn)

(* The invariant behind the two properties below holds in every reachable  *)
(* state.                                                                   *)
THEOREM Creation == Spec => []CreationInvariant
<1> USE FilesAssumption DEF TypeOK, CreationInvariant, Unraced, Untorn, Creating
<1>1. Init => CreationInvariant
  BY DEF Init
<1>2. TypeOK /\ CreationInvariant /\ [Next]_vars => CreationInvariant'
  <2> SUFFICES ASSUME TypeOK, CreationInvariant, [Next]_vars
               PROVE  CreationInvariant'
    OBVIOUS
  <2>1. ASSUME NEW p \in Processes, Launch(p) PROVE CreationInvariant'
    BY <2>1 DEF Launch
  <2>2. ASSUME NEW p \in Processes, Look(p) PROVE CreationInvariant'
    <3> SUFFICES ASSUME ~ raced' PROVE Unraced' /\ (~ torn' => Untorn')
      OBVIOUS
    <3>1. ~ raced /\ \A q \in Processes : pc[q] \notin Creating
      BY <2>2 DEF Look
    <3>2. CASE file = Absent
      BY <2>2, <3>1, <3>2 DEF Look
    <3>3. CASE file # Absent
      BY <2>2, <3>1, <3>3 DEF Look
    <3> QED BY <3>2, <3>3
  <2>3. ASSUME NEW p \in Processes, Read(p) PROVE CreationInvariant'
    <3>1. CASE file = Empty
      BY <2>3, <3>1 DEF Read
    <3>2. CASE file # Empty
      BY <2>3, <3>2 DEF Read
    <3> QED BY <3>1, <3>2
  <2>4. ASSUME NEW p \in Processes, Create(p) PROVE CreationInvariant'
    BY <2>4 DEF Create
  <2>5. ASSUME NEW p \in Processes, Write(p) PROVE CreationInvariant'
    <3>1. key[p] \in Keys
      BY <2>5 DEF Write
    <3> QED BY <2>5, <3>1 DEF Write
  <2>6. ASSUME NEW p \in Processes, End(p) PROVE CreationInvariant'
    BY <2>6 DEF End
  <2>7. CASE UNCHANGED vars
    BY <2>7 DEF vars
  <2> QED BY <2>1, <2>2, <2>3, <2>4, <2>5, <2>6, <2>7 DEF Next
<1> QED BY <1>1, <1>2, TypeCorrect, PTL DEF Spec

(* Whatever processes start, end and crash, the identity clients pinned is  *)
(* the one on disk, unless two of them raced to create it.                  *)
THEOREM StableIdentity == Spec => []IdentityIsStable
<1>1. CreationInvariant => IdentityIsStable
  BY DEF CreationInvariant, Unraced, IdentityIsStable
<1> QED BY <1>1, Creation, PTL

(* A start fails only after a race or a torn creation. *)
THEOREM FailuresHaveCause == Spec => []FailsOnlyForCause
<1>1. CreationInvariant => FailsOnlyForCause
  BY DEF CreationInvariant, Untorn, FailsOnlyForCause
<1> QED BY <1>1, Creation, PTL
=============================================================================
