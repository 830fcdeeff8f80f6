-------------------------- MODULE FactsHost_proofs --------------------------
(***************************************************************************)
(* Proofs about the facts host, for any agents, ids, contents and bodies.  *)
(***************************************************************************)
EXTENDS FactsHost, TLAPS

(* Merging a body into what is on file yields a bundle. *)
LEMMA MergedType ==
    ASSUME NEW prior \in Bundle \cup {NoBundle}, NEW b \in Body
    PROVE  Merged(prior, b) \in Bundle
<1> DEFINE existing == IF prior = NoBundle THEN [i \in Ids |-> <<>>]
                       ELSE prior.contestations
<1>1. existing \in [Ids -> Seq(Claims)]
  BY NoBundleAssumption DEF Bundle
<1>2. ASSUME NEW i \in Ids
      PROVE  KeptUnder(b.contestations[i], existing[i]) \in Seq(Claims)
  <2>1. b.contestations[i] \in Seq(Claims) /\ existing[i] \in Seq(Claims)
    BY <1>1 DEF Body
  <2> HIDE DEF existing
  <2>2. CASE b.contestations[i] # <<>>
    BY <2>1, <2>2 DEF KeptUnder
  <2>3. CASE b.contestations[i] = <<>> /\ existing[i] # <<>>
    <3>1. Head(existing[i]) \in Claims
      BY <2>1, <2>3
    <3> QED BY <2>3, <3>1 DEF KeptUnder
  <2>4. CASE b.contestations[i] = <<>> /\ existing[i] = <<>>
    BY <2>4 DEF KeptUnder
  <2> QED BY <2>2, <2>3, <2>4
<1>3. Merged(prior, b).contestations \in [Ids -> Seq(Claims)]
  BY <1>2 DEF Merged
<1>4. Merged(prior, b).severance \in Sevs \cup {NoSeverance}
  BY NoBundleAssumption DEF Merged, Bundle, Body
<1> QED BY <1>3, <1>4 DEF Merged, Bundle, Body

(* A merge takes no id off file and no severance: the two facts the ledger *)
(* rests on.                                                               *)
LEMMA MergedKeeps ==
    ASSUME NEW prior \in Bundle, NEW b \in Body
    PROVE  /\ \A i \in Ids : Merged(prior, b).contestations[i] = <<>> <=>
                   prior.contestations[i] = <<>> /\ b.contestations[i] = <<>>
           /\ Merged(prior, b).severance = NoSeverance <=>
                   prior.severance = NoSeverance /\ b.severance = NoSeverance
BY NoBundleAssumption, SMTT(30) DEF Merged, KeptUnder, Bundle, Body

(* Every answer of a handler is a reply. *)
LEMMA RepliesType == {Ok, Duplicate, NotFound, Unprocessable} \subseteq Reply
<1>1. Ok \in Reply /\ NotFound \in Reply /\ Unprocessable \in Reply
  BY DEF Reply, Ok, NotFound, Unprocessable
<1>2. Duplicate \in Reply
  <2>1. \A s \in {200, 404, 422}, d \in BOOLEAN : [status |-> s, duplicate |-> d] \in Reply
    BY DEF Reply
  <2>2. 200 \in {200, 404, 422} /\ TRUE \in BOOLEAN
    OBVIOUS
  <2> QED BY <2>1, <2>2, Zenon DEF Duplicate
<1> QED BY <1>1, <1>2

(* Every reachable state of the host is well typed. *)
THEOREM TypeCorrect == Spec => []TypeOK
<1>1. Init => TypeOK
  BY RepliesType DEF Init, TypeOK
<1>2. TypeOK /\ [Next]_vars => TypeOK'
  <2> SUFFICES ASSUME TypeOK, [Next]_vars PROVE TypeOK'
    OBVIOUS
  <2> USE RepliesType DEF TypeOK, history
  <2>1. ASSUME NEW a \in Agents, NEW b \in Bodies, PutFacts(a, b)
        PROVE  TypeOK'
    <3>1. Merged(store[a], b) \in Bundle
      BY MergedType, BodiesAssumption
    <3> QED BY <2>1, <3>1 DEF PutFacts, PutOver
  <2>2. ASSUME NEW a \in Agents, NEW b \in Bodies, PutRejected(a, b)
        PROVE  TypeOK'
    BY <2>2 DEF PutRejected
  <2>3. ASSUME NEW a \in Agents, GetFacts(a) PROVE TypeOK'
    BY <2>3 DEF GetFacts
  <2>4. ASSUME NEW a \in Agents, SeveranceNotSet(a) PROVE TypeOK'
    <3>1. reply' = NotFound \/ reply' = Duplicate
      BY <2>4 DEF SeveranceNotSet
    <3>2. store' = store /\ applied' = applied /\ posted' = posted
      BY <2>4 DEF SeveranceNotSet
    <3> QED BY <3>1, <3>2
  <2>5. ASSUME NEW a \in Agents, NEW i \in Ids, NEW c \in Claims,
               AddContestation(a, i, c)
        PROVE  TypeOK'
    <3>1. store[a] \in Bundle
      BY <2>5 DEF AddContestation, Hosted
    <3>2. Append(store[a].contestations[i], c) \in Seq(Claims)
      BY <3>1 DEF Bundle
    <3>3. [store[a] EXCEPT !.contestations[i] = Append(@, c)] \in Bundle
      BY <3>1, <3>2 DEF Bundle
    <3>4. store' = [store EXCEPT ![a] = [store[a] EXCEPT !.contestations[i] = Append(@, c)]]
      BY <2>5 DEF AddContestation
    <3>5. store' \in [Agents -> Bundle \cup {NoBundle}]
      BY <3>3, <3>4
    <3> QED BY <2>5, <3>5 DEF AddContestation
  <2>6. ASSUME NEW a \in Agents, NEW i \in Ids \cup {NoId},
               ContestationNotAdded(a, i)
        PROVE  TypeOK'
    <3>1. reply' \in {NotFound, Unprocessable, Duplicate}
      BY <2>6 DEF ContestationNotAdded
    <3>2. store' = store /\ applied' = applied /\ posted' = posted
      BY <2>6 DEF ContestationNotAdded
    <3> QED BY <3>1, <3>2
  <2>7. ASSUME NEW a \in Agents, NEW s \in Sevs \cup {NoSeverance},
               SetSeverance(a, s)
        PROVE  TypeOK'
    <3>1. [store[a] EXCEPT !.severance = s] \in Bundle
      BY <2>7 DEF SetSeverance, Hosted, Bundle
    <3> QED BY <2>7, <3>1 DEF SetSeverance
  <2>8. CASE Restart
    BY <2>8 DEF Restart
  <2>9. CASE UNCHANGED vars
    BY <2>9 DEF vars
  <2> QED BY <2>1, <2>2, <2>3, <2>4, <2>5, <2>6, <2>7, <2>8, <2>9 DEF Next, Put
<1> QED BY <1>1, <1>2, PTL DEF Spec
-----------------------------------------------------------------------------
(* What each handler does to the ledger, given well-typed state. *)
LEMMA PutOnLedger ==
    ASSUME TypeOK, NEW a \in Agents, NEW b \in Bodies, PutFacts(a, b)
    PROVE  /\ LedgerHosted' = LedgerHosted \cup {a}
           /\ LedgerFiled' = [LedgerFiled EXCEPT ![a] =
                                  @ \cup {i \in Ids : b.contestations[i] # <<>>}]
           /\ LedgerSevered' = LedgerSevered \cup
                                  (IF b.severance = NoSeverance THEN {} ELSE {a})
<1> DEFINE m == Merged(store[a], b)
<1>1. store \in [Agents -> Bundle \cup {NoBundle}] /\ b \in Body
  BY BodiesAssumption DEF TypeOK
<1>2. store' = [store EXCEPT ![a] = m]
  BY DEF PutFacts, PutOver
<1>3. m \in Bundle /\ m # NoBundle
  BY <1>1, MergedType, NoBundleAssumption
<1>4. \A i \in Ids : m.contestations[i] # <<>> <=>
                        OnFile(a, i) \/ b.contestations[i] # <<>>
  <2>1. CASE Hosted(a)
    BY <1>1, <2>1, MergedKeeps DEF Hosted, OnFile
  <2>2. CASE ~ Hosted(a)
    BY <1>1, <2>2 DEF Hosted, OnFile, Merged, KeptUnder
  <2> QED BY <2>1, <2>2
<1>5. m.severance # NoSeverance <=> Severed(a) \/ b.severance # NoSeverance
  <2>1. CASE Hosted(a)
    BY <1>1, <2>1, MergedKeeps DEF Hosted, Severed
  <2>2. CASE ~ Hosted(a)
    BY <1>1, <2>2 DEF Hosted, Severed, Merged
  <2> QED BY <2>1, <2>2
<1> HIDE DEF m
<1>6. LedgerHosted' = LedgerHosted \cup {a}
  BY <1>1, <1>2, <1>3 DEF LedgerHosted, Hosted
<1>7. LedgerFiled' = [LedgerFiled EXCEPT ![a] =
                         @ \cup {i \in Ids : b.contestations[i] # <<>>}]
  <2>1. ASSUME NEW x \in Agents, x # a
        PROVE  LedgerFiled'[x] = LedgerFiled[x]
    BY <1>1, <1>2, <2>1 DEF LedgerFiled, OnFile, Hosted
  <2>2. LedgerFiled'[a] = LedgerFiled[a] \cup {i \in Ids : b.contestations[i] # <<>>}
    <3>1. LedgerFiled'[a] = {i \in Ids : m.contestations[i] # <<>>}
      BY <1>1, <1>2, <1>3 DEF LedgerFiled, OnFile, Hosted
    <3>2. LedgerFiled[a] = {i \in Ids : OnFile(a, i)}
      BY DEF LedgerFiled
    <3> QED BY <3>1, <3>2, <1>4
  <2> QED BY <2>1, <2>2 DEF LedgerFiled
<1>8. LedgerSevered' = LedgerSevered \cup (IF b.severance = NoSeverance THEN {} ELSE {a})
  <2>1. \A x \in Agents \ {a} : Severed(x)' <=> Severed(x)
    BY <1>1, <1>2 DEF Severed, Hosted
  <2>2. Severed(a)' <=> m.severance # NoSeverance
    BY <1>1, <1>2, <1>3 DEF Severed, Hosted
  <2> QED BY <2>1, <2>2, <1>5 DEF LedgerSevered
<1> QED BY <1>6, <1>7, <1>8

(* A POST of a contestation adds its id. *)
LEMMA AddContestationOnLedger ==
    ASSUME TypeOK, NEW a \in Agents, NEW i \in Ids, NEW c \in Claims,
           AddContestation(a, i, c)
    PROVE  /\ a \in LedgerHosted
           /\ LedgerHosted' = LedgerHosted
           /\ LedgerFiled' = [LedgerFiled EXCEPT ![a] = @ \cup {i}]
           /\ LedgerSevered' = LedgerSevered
<1> DEFINE n == [store[a] EXCEPT !.contestations[i] = Append(@, c)]
<1>1. store \in [Agents -> Bundle \cup {NoBundle}] /\ store[a] \in Bundle
  BY DEF TypeOK, AddContestation, Hosted
<1>2. store' = [store EXCEPT ![a] = n]
  BY DEF AddContestation
<1>3. /\ n \in Bundle
      /\ n.severance = store[a].severance
      /\ \A j \in Ids \ {i} : n.contestations[j] = store[a].contestations[j]
      /\ n.contestations[i] # <<>>
  <2>1. Append(store[a].contestations[i], c) \in Seq(Claims) \ {<<>>}
    BY <1>1 DEF Bundle
  <2> QED BY <1>1, <2>1 DEF Bundle
<1>4. n # NoBundle
  BY <1>3, NoBundleAssumption
<1> HIDE DEF n
<1>5. LedgerHosted' = LedgerHosted /\ a \in LedgerHosted
  BY <1>1, <1>2, <1>4, NoBundleAssumption DEF LedgerHosted, Hosted
<1>6. LedgerSevered' = LedgerSevered
  BY <1>1, <1>2, <1>3, <1>4, NoBundleAssumption DEF LedgerSevered, Severed, Hosted
<1>7. LedgerFiled' = [LedgerFiled EXCEPT ![a] = @ \cup {i}]
  <2>1. ASSUME NEW x \in Agents, x # a
        PROVE  LedgerFiled'[x] = LedgerFiled[x]
    BY <1>1, <1>2, <2>1 DEF LedgerFiled, OnFile, Hosted
  <2>2. LedgerFiled'[a] = LedgerFiled[a] \cup {i}
    <3>1. LedgerFiled'[a] = {j \in Ids : n.contestations[j] # <<>>}
      BY <1>1, <1>2, <1>4 DEF LedgerFiled, OnFile, Hosted
    <3>2. LedgerFiled[a] = {j \in Ids : store[a].contestations[j] # <<>>}
      BY <1>1, NoBundleAssumption DEF LedgerFiled, OnFile, Hosted
    <3> QED BY <3>1, <3>2, <1>3
  <2> QED BY <2>1, <2>2 DEF LedgerFiled
<1> QED BY <1>5, <1>6, <1>7

(* A POST of a severance adds one, or changes nothing. *)
LEMMA SetSeveranceOnLedger ==
    ASSUME TypeOK, NEW a \in Agents, NEW s \in Sevs \cup {NoSeverance},
           SetSeverance(a, s)
    PROVE  /\ a \in LedgerHosted
           /\ LedgerHosted' = LedgerHosted
           /\ LedgerFiled' = LedgerFiled
           /\ LedgerSevered' = LedgerSevered \cup
                                  (IF s = NoSeverance THEN {} ELSE {a})
<1> DEFINE n == [store[a] EXCEPT !.severance = s]
<1>1. store \in [Agents -> Bundle \cup {NoBundle}] /\ store[a] \in Bundle
  BY DEF TypeOK, SetSeverance, Hosted
<1>2. store' = [store EXCEPT ![a] = n]
  BY DEF SetSeverance
<1>3. /\ n \in Bundle /\ n # NoBundle
      /\ n.severance = s
      /\ n.contestations = store[a].contestations
  BY <1>1, NoBundleAssumption DEF Bundle
<1> HIDE DEF n
<1>4. LedgerHosted' = LedgerHosted /\ a \in LedgerHosted
  BY <1>1, <1>2, <1>3, NoBundleAssumption DEF LedgerHosted, Hosted
<1>5. LedgerFiled' = LedgerFiled
  BY <1>1, <1>2, <1>3, NoBundleAssumption DEF LedgerFiled, OnFile, Hosted
<1>6. LedgerSevered' = LedgerSevered \cup (IF s = NoSeverance THEN {} ELSE {a})
  <2>1. ~ Severed(a)
    BY DEF SetSeverance
  <2>2. \A x \in Agents \ {a} : Severed(x)' <=> Severed(x)
    BY <1>1, <1>2 DEF Severed, Hosted
  <2>3. Severed(a)' <=> s # NoSeverance
    BY <1>1, <1>2, <1>3 DEF Severed, Hosted
  <2> QED BY <2>1, <2>2, <2>3 DEF LedgerSevered
<1> QED BY <1>4, <1>5, <1>6

(* The host keeps the ledger: every step of a handler is a step of the      *)
(* ledger or leaves it alone.                                               *)
THEOREM ImplementsLedger == Spec => LedgerSpec
<1>1. Init => Ledger!Init
  BY DEF Init, Ledger!Init, LedgerHosted, LedgerFiled, LedgerSevered,
         Hosted, OnFile, Severed
<1>2. TypeOK /\ [Next]_vars => [Ledger!Next]_(Ledger!vars)
  <2> SUFFICES ASSUME TypeOK, [Next]_vars
               PROVE  Ledger!Next \/ UNCHANGED <<LedgerHosted, LedgerFiled, LedgerSevered>>
    BY DEF Ledger!vars
  <2>1. ASSUME NEW a \in Agents, NEW b \in Bodies, PutFacts(a, b)
        PROVE  Ledger!Next
    <3>1. {i \in Ids : b.contestations[i] # <<>>} \in SUBSET Ids
      OBVIOUS
    <3>2. Ledger!Host(a)
      BY <2>1, <3>1, PutOnLedger DEF Ledger!Host
    <3> QED BY <3>2 DEF Ledger!Next
  <2>2. ASSUME NEW a \in Agents, NEW i \in Ids, NEW c \in Claims,
               AddContestation(a, i, c)
        PROVE  Ledger!Next
    <3>1. Ledger!File(a, i)
      BY <2>2, AddContestationOnLedger DEF Ledger!File
    <3> QED BY <3>1 DEF Ledger!Next
  <2>3. ASSUME NEW a \in Agents, NEW s \in Sevs \cup {NoSeverance},
               SetSeverance(a, s)
        PROVE  Ledger!Next \/ UNCHANGED <<LedgerHosted, LedgerFiled, LedgerSevered>>
    <3>1. CASE s = NoSeverance
      BY <2>3, <3>1, SetSeveranceOnLedger
    <3>2. CASE s # NoSeverance
      <4>1. Ledger!Sever(a)
        BY <2>3, <3>2, SetSeveranceOnLedger DEF Ledger!Sever
      <4> QED BY <4>1 DEF Ledger!Next
    <3> QED BY <3>1, <3>2
  <2>4. CASE Restart
    <3>1. Ledger!LoseAll
      BY <2>4 DEF Restart, Ledger!LoseAll, LedgerHosted, LedgerFiled,
                  LedgerSevered, Hosted, OnFile, Severed
    <3> QED BY <3>1 DEF Ledger!Next
  <2>5. ASSUME store' = store
        PROVE  UNCHANGED <<LedgerHosted, LedgerFiled, LedgerSevered>>
    BY <2>5 DEF LedgerHosted, LedgerFiled, LedgerSevered, Hosted, OnFile, Severed
  <2>6. ASSUME NEW a \in Agents, NEW b \in Bodies, PutRejected(a, b)
        PROVE  store' = store
    BY <2>6 DEF PutRejected
  <2>7. ASSUME NEW a \in Agents, GetFacts(a) \/ SeveranceNotSet(a)
        PROVE  store' = store
    BY <2>7 DEF GetFacts, SeveranceNotSet
  <2>8. ASSUME NEW a \in Agents, NEW i \in Ids \cup {NoId},
               ContestationNotAdded(a, i)
        PROVE  store' = store
    BY <2>8 DEF ContestationNotAdded
  <2>9. CASE UNCHANGED vars
    BY <2>5, <2>9 DEF vars
  <2> QED
    BY <2>1, <2>2, <2>3, <2>4, <2>5, <2>6, <2>7, <2>8, <2>9 DEF Next, Put
<1> QED BY <1>1, <1>2, TypeCorrect, PTL DEF Spec, LedgerSpec, Ledger!Spec
-----------------------------------------------------------------------------
(* The steps of the host seen from the ledger and the history: all that the *)
(* invariant below needs of them.                                           *)
LEMMA StepCases ==
    ASSUME [Next]_vars
    PROVE  \/ \E a \in Agents, b \in Bodies : PutFacts(a, b)
           \/ \E a \in Agents, i \in Ids, c \in Claims : AddContestation(a, i, c)
           \/ \E a \in Agents, s \in Sevs \cup {NoSeverance} : SetSeverance(a, s)
           \/ Restart
           \/ store' = store /\ applied' = applied /\ posted' = posted
<1>1. ASSUME NEW a \in Agents, NEW b \in Bodies, PutRejected(a, b)
      PROVE  store' = store /\ applied' = applied /\ posted' = posted
  BY <1>1 DEF PutRejected, history
<1>2. ASSUME NEW a \in Agents, GetFacts(a) \/ SeveranceNotSet(a)
      PROVE  store' = store /\ applied' = applied /\ posted' = posted
  BY <1>2 DEF GetFacts, SeveranceNotSet, history
<1>3. ASSUME NEW a \in Agents, NEW i \in Ids \cup {NoId}, ContestationNotAdded(a, i)
      PROVE  store' = store /\ applied' = applied /\ posted' = posted
  BY <1>3 DEF ContestationNotAdded, history
<1>4. CASE UNCHANGED vars
  BY <1>4 DEF vars
<1> QED BY <1>1, <1>2, <1>3, <1>4 DEF Next, Put

(* Whatever the host accepted is still on file. *)
THEOREM AcceptedOnFile == Spec => []AcceptedStaysOnFile
<1> DEFINE Kept(a) ==
      /\ \A b \in applied[a] :
            /\ a \in LedgerHosted
            /\ \A i \in Ids : b.contestations[i] # <<>> => i \in LedgerFiled[a]
            /\ b.severance # NoSeverance => a \in LedgerSevered
      /\ \A p \in posted[a] : p[1] \in LedgerFiled[a]
<1> DEFINE KeptAll == \A a \in Agents : Kept(a)
<1>1. ASSUME TypeOK PROVE KeptAll <=> AcceptedStaysOnFile
  BY <1>1 DEF AcceptedStaysOnFile, LedgerHosted, LedgerFiled, LedgerSevered, TypeOK
<1>2. Init => KeptAll
  BY DEF Init
<1>3. ASSUME TypeOK, TypeOK', [Next]_vars, KeptAll
      PROVE  KeptAll'
  <2>1. ASSUME NEW a \in Agents, NEW b \in Bodies, PutFacts(a, b)
        PROVE  KeptAll'
    <3>1. /\ applied' = [applied EXCEPT ![a] = @ \cup {b}] /\ posted' = posted
          /\ applied \in [Agents -> SUBSET Bodies]
      BY <1>3, <2>1 DEF PutFacts, PutOver, TypeOK
    <3>2. LedgerFiled \in [Agents -> SUBSET Ids]
      BY DEF LedgerFiled
    <3>3. ASSUME NEW x \in Agents PROVE Kept(x)'
      <4>1. CASE x = a
        <5>1. /\ a \in LedgerHosted'
              /\ LedgerFiled'[a] = LedgerFiled[a] \cup {i \in Ids : b.contestations[i] # <<>>}
              /\ LedgerSevered \subseteq LedgerSevered'
              /\ b.severance # NoSeverance => a \in LedgerSevered'
          BY <1>3, <2>1, <3>2, PutOnLedger
        <5>2. applied'[a] = applied[a] \cup {b} /\ posted'[a] = posted[a]
          BY <3>1
        <5>3. Kept(a)
          BY <1>3
        <5>4. Kept(a)'
          BY <5>1, <5>2, <5>3
        <5> QED BY <4>1, <5>4
      <4>2. CASE x # a
        BY <1>3, <2>1, <3>1, <3>2, <4>2, PutOnLedger
      <4> QED BY <4>1, <4>2
    <3> QED BY <3>3
  <2>2. ASSUME NEW a \in Agents, NEW i \in Ids, NEW c \in Claims,
               AddContestation(a, i, c)
        PROVE  KeptAll'
    <3>1. /\ applied' = applied
          /\ posted' = [posted EXCEPT ![a] = @ \cup {<<i, c>>}]
          /\ posted \in [Agents -> SUBSET (Ids \X Claims)]
      BY <1>3, <2>2 DEF AddContestation, TypeOK
    <3>2. LedgerFiled \in [Agents -> SUBSET Ids]
      BY DEF LedgerFiled
    <3>3. ASSUME NEW x \in Agents PROVE Kept(x)'
      <4>1. /\ LedgerHosted' = LedgerHosted /\ LedgerSevered' = LedgerSevered
            /\ LedgerFiled'[x] = IF x = a THEN LedgerFiled[a] \cup {i}
                                 ELSE LedgerFiled[x]
        BY <1>3, <2>2, <3>2, AddContestationOnLedger
      <4>2. /\ applied'[x] = applied[x]
            /\ posted'[x] = IF x = a THEN posted[a] \cup {<<i, c>>} ELSE posted[x]
        BY <3>1
      <4>3. Kept(x)
        BY <1>3
      <4> QED BY <4>1, <4>2, <4>3
    <3> QED BY <3>3
  <2>3. ASSUME NEW a \in Agents, NEW s \in Sevs \cup {NoSeverance},
               SetSeverance(a, s)
        PROVE  KeptAll'
    <3>1. applied' = applied /\ posted' = posted
      BY <2>3 DEF SetSeverance, history
    <3> QED BY <1>3, <2>3, <3>1, SetSeveranceOnLedger
  <2>4. CASE Restart
    BY <2>4 DEF Restart
  <2>5. CASE store' = store /\ applied' = applied /\ posted' = posted
    BY <1>3, <2>5 DEF LedgerHosted, LedgerFiled, LedgerSevered,
                      Hosted, OnFile, Severed
  <2> QED BY <1>3, <2>1, <2>2, <2>3, <2>4, <2>5, StepCases
<1> HIDE DEF KeptAll
<1>4. Spec => []KeptAll
  BY <1>2, <1>3, TypeCorrect, PTL DEF Spec
<1> QED BY <1>1, <1>4, TypeCorrect, PTL

(* A late duplicate of a PUT leaves the ledger as it found it. *)
THEOREM LateDuplicateHarmless == Spec => LateDuplicatePutKeepsLedger
<1> DEFINE D == \A a \in Agents, b \in Bodies :
                   PutFacts(a, b) /\ b \in applied[a]
                     => LedgerFiled' = LedgerFiled /\ LedgerSevered' = LedgerSevered
<1>1. ASSUME TypeOK, AcceptedStaysOnFile, [Next]_vars
      PROVE  [D]_vars
  <2>1. ASSUME NEW a \in Agents, NEW b \in Bodies, PutFacts(a, b), b \in applied[a]
        PROVE  LedgerFiled' = LedgerFiled /\ LedgerSevered' = LedgerSevered
    <3>1. LedgerFiled \in [Agents -> SUBSET Ids]
      BY DEF LedgerFiled
    <3>2. {i \in Ids : b.contestations[i] # <<>>} \subseteq LedgerFiled[a]
      BY <1>1, <2>1 DEF AcceptedStaysOnFile, LedgerFiled
    <3>3. b.severance # NoSeverance => a \in LedgerSevered
      BY <1>1, <2>1 DEF AcceptedStaysOnFile, LedgerSevered
    <3>4. /\ LedgerFiled' = [LedgerFiled EXCEPT ![a] =
                                 @ \cup {i \in Ids : b.contestations[i] # <<>>}]
          /\ LedgerSevered' = LedgerSevered \cup
                                 (IF b.severance = NoSeverance THEN {} ELSE {a})
      BY <1>1, <2>1, PutOnLedger
    <3>5. LedgerFiled[a] \cup {i \in Ids : b.contestations[i] # <<>>} = LedgerFiled[a]
      BY <3>2
    <3>6. LedgerFiled' = LedgerFiled
      BY <3>1, <3>4, <3>5
    <3>7. LedgerSevered' = LedgerSevered
      BY <3>3, <3>4
    <3> QED BY <3>6, <3>7
  <2> QED BY <2>1
<1> QED BY <1>1, TypeCorrect, AcceptedOnFile, PTL DEF Spec, LateDuplicatePutKeepsLedger
-----------------------------------------------------------------------------
(* What a merge serves under an id: the entries of the body, or else at     *)
(* most the first of those on file.                                         *)
LEMMA MergedEntries ==
    ASSUME NEW prior \in Bundle \cup {NoBundle}, NEW b \in Body, NEW i \in Ids
    PROVE  LET m == Merged(prior, b).contestations[i]
           IN  \/ m = b.contestations[i]
               \/ /\ prior # NoBundle /\ prior.contestations[i] # <<>>
                  /\ m = <<Head(prior.contestations[i])>>
<1>1. CASE b.contestations[i] # <<>>
  BY <1>1 DEF Merged, KeptUnder
<1>2. CASE b.contestations[i] = <<>> /\ prior = NoBundle
  BY <1>2 DEF Merged, KeptUnder
<1>3. CASE b.contestations[i] = <<>> /\ prior # NoBundle
  BY <1>3 DEF Merged, KeptUnder
<1> QED BY <1>1, <1>2, <1>3

(* What is on file under an id has been submitted for the agent, and is     *)
(* more than one entry only if one body had more than one.                  *)
FiledBySomeone(a, i) ==
    OnFile(a, i) =>
        /\ Len(store[a].contestations[i]) > 1
              => \E b \in applied[a] : Len(b.contestations[i]) > 1
        /\ \A n \in DOMAIN store[a].contestations[i] :
              \/ <<i, store[a].contestations[i][n]>> \in posted[a]
              \/ \E b \in applied[a] :
                    \E k \in DOMAIN b.contestations[i] :
                        b.contestations[i][k] = store[a].contestations[i][n]
Origin == \A a \in Agents, i \in Ids : FiledBySomeone(a, i)

(* Both are inductive: each handler that adds an entry adds its origin, and *)
(* what it keeps was there before.                                          *)
THEOREM OriginHolds == Spec => []Origin
<1>1. Init => Origin
  BY DEF Init, Origin, FiledBySomeone, OnFile, Hosted
<1>2. ASSUME TypeOK, [Next]_vars, Origin PROVE Origin'
  <2> SUFFICES ASSUME NEW x \in Agents, NEW i \in Ids PROVE FiledBySomeone(x, i)'
    BY DEF Origin
  <2>0. FiledBySomeone(x, i) /\ store \in [Agents -> Bundle \cup {NoBundle}]
    BY <1>2 DEF Origin, TypeOK
  <2>1. ASSUME NEW a \in Agents, NEW b \in Bodies, PutFacts(a, b)
        PROVE  FiledBySomeone(x, i)'
    <3>1. /\ applied' = [applied EXCEPT ![a] = @ \cup {b}] /\ posted' = posted
          /\ applied \in [Agents -> SUBSET Bodies]
      BY <1>2, <2>1 DEF PutFacts, PutOver, TypeOK
    <3>2. CASE x # a
      <4>1. store'[x] = store[x] /\ applied'[x] = applied[x] /\ posted'[x] = posted[x]
        BY <2>1, <3>1, <3>2 DEF PutFacts, PutOver
      <4> QED BY <2>0, <4>1 DEF FiledBySomeone, OnFile, Hosted
    <3>3. CASE x = a
      <4> DEFINE m == store'[a].contestations[i]
      <4>1. store'[a] = Merged(store[a], b)
        BY <2>0, <2>1 DEF PutFacts, PutOver
      <4>2. b \in applied'[a] /\ applied[a] \subseteq applied'[a] /\ posted'[a] = posted[a]
        BY <3>1
      <4>3. CASE m = b.contestations[i]
        BY <3>3, <4>2, <4>3 DEF FiledBySomeone
      <4>4. CASE /\ store[a] # NoBundle /\ store[a].contestations[i] # <<>>
                 /\ m = <<Head(store[a].contestations[i])>>
        <5> DEFINE c == store[a].contestations[i]
        <5>1. c \in Seq(Claims) /\ c # <<>>
          BY <2>0, <4>4 DEF Bundle
        <5>2. 1 \in DOMAIN c /\ Head(c) = c[1]
          BY <5>1
        <5>3. OnFile(a, i)
          BY <4>4 DEF OnFile, Hosted
        <5>4. \/ <<i, c[1]>> \in posted[a]
              \/ \E e \in applied[a] : \E k \in DOMAIN e.contestations[i] :
                     e.contestations[i][k] = c[1]
          BY <2>0, <3>3, <5>2, <5>3 DEF FiledBySomeone
        <5> HIDE DEF c
        <5>5. m = <<c[1]>>
          BY <4>4, <5>2 DEF c
        <5>6. Len(m) = 1 /\ \A n \in DOMAIN m : m[n] = c[1]
          BY <5>5
        <5> HIDE DEF m
        <5>7. \A n \in DOMAIN m :
                  \/ <<i, m[n]>> \in posted'[a]
                  \/ \E e \in applied'[a] : \E k \in DOMAIN e.contestations[i] :
                         e.contestations[i][k] = m[n]
          BY <4>2, <5>4, <5>6
        <5> QED BY <3>3, <5>6, <5>7 DEF FiledBySomeone, m
      <4> QED BY <2>0, <4>1, <4>3, <4>4, MergedEntries, BodiesAssumption
    <3> QED BY <3>2, <3>3
  <2>2. ASSUME NEW a \in Agents, NEW j \in Ids, NEW c \in Claims,
               AddContestation(a, j, c)
        PROVE  FiledBySomeone(x, i)'
    <3>1. /\ posted' = [posted EXCEPT ![a] = @ \cup {<<j, c>>}] /\ applied' = applied
          /\ posted \in [Agents -> SUBSET (Ids \X Claims)]
      BY <1>2, <2>2 DEF AddContestation, TypeOK
    <3>2. posted[x] \subseteq posted'[x] /\ applied'[x] = applied[x]
      BY <3>1
    <3>3. store[a] \in Bundle /\ store[a].contestations[j] = <<>>
      BY <2>0, <2>2 DEF AddContestation, OnFile, Hosted
    <3>4. store' = [store EXCEPT ![a].contestations[j] = Append(@, c)]
      BY <2>2 DEF AddContestation
    <3>5. CASE x = a /\ i = j
      <4>1. store'[x].contestations[i] = <<c>>
        BY <2>0, <3>3, <3>4, <3>5 DEF Bundle
      <4>2. <<i, c>> \in posted'[x]
        BY <3>1, <3>5
      <4> QED BY <4>1, <4>2 DEF FiledBySomeone
    <3>6. CASE ~ (x = a /\ i = j)
      <4>1. store[x] # NoBundle => store'[x].contestations[i] = store[x].contestations[i]
        BY <2>0, <3>3, <3>4, <3>6 DEF Bundle
      <4>2. store'[x] # NoBundle => store[x] # NoBundle
        BY <2>0, <3>3, <3>4, NoBundleAssumption
      <4> QED BY <2>0, <3>2, <4>1, <4>2 DEF FiledBySomeone, OnFile, Hosted
    <3> QED BY <3>5, <3>6
  <2>3. ASSUME NEW a \in Agents, NEW s \in Sevs \cup {NoSeverance}, SetSeverance(a, s)
        PROVE  FiledBySomeone(x, i)'
    <3>1. posted' = posted /\ applied' = applied
      BY <2>3 DEF SetSeverance, history
    <3>2. store[a] \in Bundle /\ store' = [store EXCEPT ![a].severance = s]
      BY <2>0, <2>3 DEF SetSeverance, Hosted
    <3>3. store[x] # NoBundle => store'[x].contestations[i] = store[x].contestations[i]
      BY <2>0, <3>2 DEF Bundle
    <3>4. store'[x] # NoBundle => store[x] # NoBundle
      BY <2>0, <3>2, NoBundleAssumption
    <3> QED BY <2>0, <3>1, <3>3, <3>4 DEF FiledBySomeone, OnFile, Hosted
  <2>4. CASE Restart
    BY <2>4 DEF Restart, FiledBySomeone, OnFile, Hosted
  <2>5. CASE store' = store /\ applied' = applied /\ posted' = posted
    BY <2>0, <2>5 DEF FiledBySomeone, OnFile, Hosted
  <2> QED BY <1>2, <2>1, <2>2, <2>3, <2>4, <2>5, StepCases
<1> QED BY <1>1, <1>2, TypeCorrect, PTL DEF Spec

(* Only the provider's own body can repeat an id. *)
THEOREM Unamplified == Spec => []AmplifiedOnlyByProvider
<1>1. Origin => AmplifiedOnlyByProvider
  BY DEF Origin, FiledBySomeone, AmplifiedOnlyByProvider
<1> QED BY <1>1, OriginHolds, PTL

(* Nothing is served for an agent that was not submitted for it. *)
THEOREM ServedSubmitted == Spec => []ServedWasSubmitted
<1>1. Origin => ServedWasSubmitted
  BY DEF Origin, FiledBySomeone, ServedWasSubmitted
<1> QED BY <1>1, OriginHolds, PTL

(* Appending to a list that is not empty leaves its first entry. *)
LEMMA AppendKeepsHead ==
    ASSUME NEW list \in Seq(Claims), list # <<>>, NEW c \in Claims
    PROVE  Append(list, c) # <<>> /\ Head(Append(list, c)) = Head(list)
OBVIOUS

(* What clients are shown, first entries and severances, is displaced only *)
(* by a body that has another.                                             *)
THEOREM Displacements == Spec => DisplacedOnlyByBody
<1> DEFINE Changed(old, new) == old # <<>> /\ (new = <<>> \/ Head(new) # Head(old))
           ByBody(a, i) ==
              \E b \in Bodies : /\ PutFacts(a, b)
                                /\ b.contestations[i] # <<>>
                                /\ store'[a].contestations[i] = b.contestations[i]
           Exchanged(a) == Severed(a) /\ store'[a].severance # store[a].severance
           BySeverance(a) ==
              \E b \in Bodies : /\ PutFacts(a, b)
                                /\ b.severance # NoSeverance
                                /\ b.severance = store'[a].severance
           D == \A a \in Agents :
                   Hosted(a) /\ Hosted(a)' =>
                      /\ \A i \in Ids :
                            Changed(store[a].contestations[i], store'[a].contestations[i])
                               => ByBody(a, i)
                      /\ Exchanged(a) => BySeverance(a)
<1>1. ASSUME TypeOK, [Next]_vars PROVE [D]_vars
  <2> SUFFICES ASSUME NEW x \in Agents, Hosted(x), Hosted(x)'
               PROVE  /\ \A i \in Ids :
                            Changed(store[x].contestations[i], store'[x].contestations[i])
                               => ByBody(x, i)
                      /\ Exchanged(x) => BySeverance(x)
    BY Zenon
  <2>0. store \in [Agents -> Bundle \cup {NoBundle}] /\ store[x] \in Bundle
    BY <1>1 DEF TypeOK, Hosted
  <2>x. \A i \in Ids : store[x].contestations[i] \in Seq(Claims)
    BY <2>0 DEF Bundle
  <2>0a. ASSUME store'[x] = store[x]
         PROVE  /\ \A i \in Ids :
                      ~ Changed(store[x].contestations[i], store'[x].contestations[i])
                /\ ~ Exchanged(x)
    BY <2>0a
  <2>1. ASSUME NEW a \in Agents, NEW b \in Bodies, PutFacts(a, b), x = a
        PROVE  /\ \A i \in Ids :
                      Changed(store[x].contestations[i], store'[x].contestations[i])
                         => ByBody(x, i)
               /\ Exchanged(x) => BySeverance(x)
    <3>1. store'[x] = Merged(store[x], b)
      BY <2>0, <2>1 DEF PutFacts, PutOver
    <3>2. ASSUME NEW i \in Ids,
                 Changed(store[x].contestations[i], store'[x].contestations[i])
          PROVE  ByBody(x, i)
      <4>1. store'[x].contestations[i]
               = KeptUnder(b.contestations[i], store[x].contestations[i])
        BY <2>0, <3>1, NoBundleAssumption DEF Merged
      <4>2. b.contestations[i] # <<>>
        <5> SUFFICES ASSUME b.contestations[i] = <<>> PROVE FALSE
          OBVIOUS
        <5>1. store'[x].contestations[i] = <<Head(store[x].contestations[i])>>
          BY <3>2, <4>1 DEF KeptUnder
        <5>2. Head(store[x].contestations[i]) \in Claims
          BY <2>x, <3>2
        <5>3. Head(<<Head(store[x].contestations[i])>>) = Head(store[x].contestations[i])
          BY <5>2
        <5> QED BY <3>2, <5>1, <5>3
      <4>3. store'[x].contestations[i] = b.contestations[i]
        BY <4>1, <4>2 DEF KeptUnder
      <4> QED BY <2>1, <4>2, <4>3
    <3>3. ASSUME Exchanged(x) PROVE BySeverance(x)
      <4>1. b.severance # NoSeverance /\ b.severance = store'[x].severance
        BY <2>0, <3>1, <3>3, NoBundleAssumption DEF Merged
      <4> QED BY <2>1, <4>1
    <3> QED BY <3>2, <3>3
  <2>2. ASSUME NEW a \in Agents, NEW j \in Ids, NEW c \in Claims, AddContestation(a, j, c)
        PROVE  /\ \A i \in Ids :
                      ~ Changed(store[x].contestations[i], store'[x].contestations[i])
               /\ ~ Exchanged(x)
    <3>1. store[a] \in Bundle /\ store' = [store EXCEPT ![a].contestations[j] = Append(@, c)]
      BY <2>0, <2>2 DEF AddContestation, Hosted
    <3>2. store'[x].severance = store[x].severance
      BY <2>0, <3>1 DEF Bundle
    <3>3. ASSUME NEW i \in Ids
          PROVE  store'[x].contestations[i] \in {store[x].contestations[i],
                                                 Append(store[x].contestations[i], c)}
      BY <2>0, <3>1 DEF Bundle
    <3> QED BY <2>x, <3>2, <3>3, AppendKeepsHead
  <2>3. ASSUME NEW a \in Agents, NEW s \in Sevs \cup {NoSeverance}, SetSeverance(a, s)
        PROVE  /\ \A i \in Ids :
                      ~ Changed(store[x].contestations[i], store'[x].contestations[i])
               /\ ~ Exchanged(x)
    <3>1. store' = [store EXCEPT ![a].severance = s] /\ store[a] \in Bundle
      BY <2>0, <2>3 DEF SetSeverance, Hosted
    <3>2. store'[x].contestations = store[x].contestations
      BY <2>0, <3>1 DEF Bundle
    <3>3. Severed(x) => store'[x] = store[x]
      BY <2>0, <2>3, <3>1 DEF SetSeverance
    <3> QED BY <3>2, <3>3
  <2>4. CASE Restart
    BY <2>4 DEF Restart, Hosted
  <2>5. CASE store' = store /\ applied' = applied /\ posted' = posted
    BY <2>0a, <2>5
  <2>6. ASSUME NEW a \in Agents, NEW b \in Bodies, PutFacts(a, b), x # a
        PROVE  store'[x] = store[x]
    BY <2>0, <2>6 DEF PutFacts, PutOver
  <2> QED BY <1>1, <2>0a, <2>1, <2>2, <2>3, <2>4, <2>5, <2>6, StepCases
<1> QED BY <1>1, TypeCorrect, PTL DEF Spec, DisplacedOnlyByBody
=============================================================================
