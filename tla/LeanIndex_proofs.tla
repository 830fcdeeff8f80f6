-------------------------- MODULE LeanIndex_proofs --------------------------
(***************************************************************************)
(* Proofs about the lean index, for any names, ids, identities and         *)
(* requests, and any number of threads.                                    *)
(***************************************************************************)
EXTENDS LeanIndex, FiniteSetTheorems, SequenceTheorems, TLAPS

(* A table has one entry per name. *)
Distinct(table) ==
    \A k, l \in DOMAIN table : table[k].agent_name = table[l].agent_name => k = l

(* The names of a table are names. *)
LEMMA NamesAreNames ==
    ASSUME NEW table \in Seq(AgentAddr)
    PROVE  NamesOf(table) \subseteq Names
<1>1. \A n \in DOMAIN table : table[n] \in AgentAddr
  OBVIOUS
<1> QED BY <1>1 DEF NamesOf, AgentAddr

(* So it has as many names as entries. *)
LEMMA DistinctCount ==
    ASSUME NEW table \in Seq(AgentAddr), Distinct(table)
    PROVE  Cardinality(NamesOf(table)) = Len(table)
<1> DEFINE f == [k \in 1..Len(table) |-> table[k].agent_name]
<1>1. Len(table) \in Nat /\ DOMAIN table = 1..Len(table)
  OBVIOUS
<1>2. f \in Injection(1..Len(table), NamesOf(table))
  BY <1>1 DEF Injection, IsInjective, Distinct, NamesOf
<1>3. f \in Surjection(1..Len(table), NamesOf(table))
  BY <1>1, <1>2 DEF Injection, Surjection, NamesOf
<1>4. ExistsBijection(1..Len(table), NamesOf(table))
  BY <1>2, <1>3 DEF ExistsBijection, Bijection
<1> QED BY <1>1, <1>4, FS_CountingElements

(* What storing an address does to a table: the entry of its name becomes   *)
(* the address, or the address is added at the end.                         *)
StoredAs(table, a, s) ==
    /\ s \in Seq(AgentAddr) /\ Distinct(s)
    /\ NamesOf(s) = NamesOf(table) \cup {a.agent_name}
    /\ Len(s) >= Len(table)
    /\ a.agent_name \in NamesOf(table) => Len(s) = Len(table)
    /\ \A k \in DOMAIN table : k \in DOMAIN s /\ s[k].agent_name = table[k].agent_name
    /\ \A k \in DOMAIN s : IF s[k].agent_name = a.agent_name THEN s[k] = a
                           ELSE k \in DOMAIN table /\ s[k] = table[k]

(* _by_name[...] = a does that. *)
LEMMA StoredShape ==
    ASSUME NEW table \in Seq(AgentAddr), NEW a \in AgentAddr, Distinct(table)
    PROVE  StoredAs(table, a, Stored(table, a))
<1> DEFINE s == Stored(table, a)
           n == Len(table)
<1>1. n \in Nat /\ DOMAIN table = 1..n /\ \A k \in 1..n : table[k] \in AgentAddr
  OBVIOUS
<1>2. CASE a.agent_name \in NamesOf(table)
  <2> DEFINE e(k) == IF table[k].agent_name = a.agent_name THEN a ELSE table[k]
  <2>1. s = [k \in 1..n |-> e(k)]
    BY <1>1, <1>2 DEF Stored
  <2>2. \A k \in 1..n : e(k) \in AgentAddr
    BY <1>1
  <2>3. s \in Seq(AgentAddr)
    <3> HIDE DEF e, s
    <3> QED BY <1>1, <2>1, <2>2, IsASeq
  <2>4. DOMAIN s = 1..n /\ Len(s) = n
    BY <1>1, <2>1, <2>3
  <2>5. \A k \in 1..n : /\ s[k] = e(k)
                        /\ s[k].agent_name = table[k].agent_name
    BY <2>1
  <2>6. NamesOf(s) = NamesOf(table) \cup {a.agent_name}
    BY <1>1, <1>2, <2>4, <2>5 DEF NamesOf
  <2>7. Distinct(s)
    BY <1>1, <2>4, <2>5 DEF Distinct
  <2> HIDE DEF s
  <2> QED BY <1>1, <2>3, <2>4, <2>5, <2>6, <2>7 DEF s, StoredAs
<1>3. CASE a.agent_name \notin NamesOf(table)
  <2>1. s = Append(table, a)
    BY <1>3 DEF Stored
  <2>2. /\ s \in Seq(AgentAddr) /\ Len(s) = n + 1 /\ DOMAIN s = 1..(n + 1)
        /\ s[n + 1] = a /\ \A k \in 1..n : s[k] = table[k]
    BY <1>1, <2>1
  <2>3. \A k \in 1..n : table[k].agent_name # a.agent_name
    BY <1>1, <1>3 DEF NamesOf
  <2> HIDE DEF s
  <2>4. \A k \in 1..(n + 1) : k \in 1..n \/ k = n + 1
    BY <1>1
  <2>5. NamesOf(s) = NamesOf(table) \cup {a.agent_name}
    BY <1>1, <2>2, <2>4 DEF NamesOf
  <2>6. Distinct(s)
    BY <1>1, <2>2, <2>3, <2>4 DEF Distinct
  <2>7. \A k \in DOMAIN s : IF s[k].agent_name = a.agent_name THEN s[k] = a
                            ELSE k \in DOMAIN table /\ s[k] = table[k]
    BY <1>1, <2>2, <2>3, <2>4
  <2>8. \A k \in DOMAIN table : k \in DOMAIN s /\ s[k].agent_name = table[k].agent_name
    BY <1>1, <2>2
  <2>9. Len(s) >= Len(table)
    BY <1>1, <2>2
  <2>10. StoredAs(table, a, s)
    BY <1>3, <2>2, <2>5, <2>6, <2>7, <2>8, <2>9 DEF StoredAs
  <2> QED BY <2>10 DEF s
<1> QED BY <1>2, <1>3
(* A handler has a request of its kind, and a listing gathers agents only   *)
(* while it walks.                                                          *)
Ready ==
    \A t \in Threads :
        /\ pc[t] = "register" => req[t] \in RegisterRequest
        /\ pc[t] = "revoke" => req[t] \in RevokeRequest
        /\ pc[t] # "list_next" => listing[t].agents = <<>>

TypeInvariant == TypeOK /\ Distinct(byName) /\ Ready

(* The three ways a listing is updated, field by field. *)
ListingType == [count : Nat, size : Nat, agents : Seq(AgentAddr)]

Updated(f, g, t, c, n, a) ==
    /\ g \in [Threads -> ListingType]
    /\ g[t].count = c /\ g[t].size = n /\ g[t].agents = a
    /\ \A u \in Threads \ {t} : g[u] = f[u]

(* list_agents counts. *)
LEMMA CountUpdated ==
    ASSUME NEW f \in [Threads -> ListingType], NEW t \in Threads, NEW x \in Nat
    PROVE  Updated(f, [f EXCEPT ![t].count = x], t, x, f[t].size, f[t].agents)
<1> DEFINE g == [f EXCEPT ![t].count = x]
           l == [count |-> x, size |-> f[t].size, agents |-> f[t].agents]
<1>1. \A u \in Threads : g[u] = IF u = t THEN l ELSE f[u]
  BY DEF ListingType
<1>2. g \in [Threads -> ListingType]
  BY <1>1 DEF ListingType
<1> QED BY <1>1, <1>2 DEF Updated

(* list_agents starts to walk. *)
LEMMA SizeUpdated ==
    ASSUME NEW f \in [Threads -> ListingType], NEW t \in Threads, NEW x \in Nat
    PROVE  Updated(f, [f EXCEPT ![t].size = x], t, f[t].count, x, f[t].agents)
<1> DEFINE g == [f EXCEPT ![t].size = x]
           l == [count |-> f[t].count, size |-> x, agents |-> f[t].agents]
<1>1. \A u \in Threads : g[u] = IF u = t THEN l ELSE f[u]
  BY DEF ListingType
<1>2. g \in [Threads -> ListingType]
  BY <1>1 DEF ListingType
<1> QED BY <1>1, <1>2 DEF Updated

(* list_agents gathers an entry. *)
LEMMA AgentsUpdated ==
    ASSUME NEW f \in [Threads -> ListingType], NEW t \in Threads, NEW x \in Seq(AgentAddr)
    PROVE  Updated(f, [f EXCEPT ![t].agents = x], t, f[t].count, f[t].size, x)
<1> DEFINE g == [f EXCEPT ![t].agents = x]
           l == [count |-> f[t].count, size |-> f[t].size, agents |-> x]
<1>1. \A u \in Threads : g[u] = IF u = t THEN l ELSE f[u]
  BY DEF ListingType
<1>2. g \in [Threads -> ListingType]
  BY <1>1 DEF ListingType
<1> QED BY <1>1, <1>2 DEF Updated

(* A sequence and one more entry. *)
LEMMA Appended ==
    ASSUME NEW seq \in Seq(AgentAddr), NEW e \in AgentAddr
    PROVE  /\ Append(seq, e) \in Seq(AgentAddr)
           /\ Len(Append(seq, e)) = Len(seq) + 1
           /\ Append(seq, e)[Len(seq) + 1] = e
           /\ \A k \in 1..Len(seq) : Append(seq, e)[k] = seq[k]
OBVIOUS

(* A handler that answers leaves its thread idle. *)
LEMMA AnswerKeepsTypes ==
    ASSUME TypeInvariant, NEW t \in Threads, NEW answer, Answer(t, answer),
           UNCHANGED byName,
           byId' \in [AgentIds \cup NewIds -> AgentAddr \cup {NoAddr}],
           \A i \in AgentIds \cup NewIds : byId'[i] # NoAddr => byId'[i].agent_id = i,
           revoked' \in [CredIds -> Revocation \cup {NoRevocation}],
           shared' = shared, accepted' \subseteq CredIds \X Dids
    PROVE  TypeInvariant'
<1> USE DEF TypeInvariant, TypeOK, Ready, Locations
<1>1. NoListing \in [count : Nat, size : Nat, agents : Seq(AgentAddr)]
  BY DEF NoListing
<1>2. Len(NoListing.agents) <= NoListing.size /\ NoListing.agents = <<>>
  BY DEF NoListing
<1>3. /\ listing' \in [Threads -> [count : Nat, size : Nat, agents : Seq(AgentAddr)]]
      /\ \A u \in Threads : listing'[u] = IF u = t THEN NoListing ELSE listing[u]
  BY <1>1 DEF Answer
<1>4. /\ pc' \in [Threads -> Locations] /\ req' \in [Threads -> Requests \cup {NoRequest}]
      /\ addr' \in [Threads -> AgentAddr \cup {NoAddr}]
      /\ known' \in [Threads -> SUBSET Names] /\ grew' \in [Threads -> BOOLEAN]
      /\ \A u \in Threads :
            /\ pc'[u] = IF u = t THEN "idle" ELSE pc[u]
            /\ req'[u] = IF u = t THEN NoRequest ELSE req[u]
            /\ addr'[u] = IF u = t THEN NoAddr ELSE addr[u]
  BY DEF Answer
<1>5. minted' = minted /\ begun' = begun
  BY DEF Answer
<1> HIDE DEF Locations
<1>6. Ready'
  BY <1>2, <1>3, <1>4
<1>7. \A u \in Threads : /\ pc'[u] = "idle" <=> req'[u] = NoRequest
                         /\ pc'[u] \in {"register_name", "register_id"} <=> addr'[u] # NoAddr
                         /\ Len(listing'[u].agents) <= listing'[u].size
  BY <1>2, <1>3, <1>4
<1> QED BY <1>3, <1>4, <1>5, <1>6, <1>7

(* Every reachable state is well typed, and a thread has what its handler   *)
(* reads.                                                                   *)
THEOREM TypeInvariance == Spec => []TypeInvariant
<1> DEFINE Inv == TypeInvariant
<1> USE NothingAssumption DEF TypeInvariant, Locations, NoRequest, NoListing
<1>1. Init => Inv
  <2> SUFFICES ASSUME Init PROVE Inv
    OBVIOUS
  <2>1. byName = <<>> /\ <<>> \in Seq(AgentAddr) /\ DOMAIN byName = {}
    BY DEF Init
  <2>2. Distinct(byName)
    BY <2>1 DEF Distinct
  <2>3. Cardinality(NamesOf(byName)) = Len(byName)
    BY <2>1, <2>2, DistinctCount
  <2>4. NoListing \in [count : Nat, size : Nat, agents : Seq(AgentAddr)]
    OBVIOUS
  <2>5. 0 \in 0..MaxRequests
    BY MaxRequestsAssumption
  <2> QED BY <2>1, <2>2, <2>3, <2>4, <2>5 DEF Init, TypeOK, Ready
<1>2. ASSUME Inv, [Next]_vars PROVE Inv'
  <2> USE <1>2 DEF TypeOK, Ready, tables, threads, history
  <2>1. ASSUME NEW t \in Threads, NEW r \in Requests, Begin(t, r) PROVE Inv'
    <3>1. /\ r.op = "register" => r \in RegisterRequest
          /\ r.op = "revoke" => r \in RevokeRequest
          /\ r.op \in {"register", "resolve", "list", "revoke", "revocations"}
      BY RequestsAssumption DEF RegisterRequest, ResolveRequest, ListRequest,
                                RevokeRequest, RevocationsRequest
    <3>2. begun + 1 \in 0..MaxRequests
      BY <2>1, MaxRequestsAssumption DEF Begin
    <3>4. NamesOf(byName) \in SUBSET Names
      BY NamesAreNames
    <3> QED BY <2>1, <3>1, <3>2, <3>4 DEF Begin
  <2>2. ASSUME NEW t \in Threads, RegisterSign(t) PROVE Inv'
    <3>1. PICK id \in IF req[t].agent_id = NoId THEN NewIds \ minted ELSE {req[t].agent_id} :
             LET a == [agent_name |-> req[t].agent_name, agent_id |-> id,
                       pointer |-> req[t].pointer]
             IN  /\ addr' = [addr EXCEPT ![t] = a]
                 /\ minted' = minted \cup (NewIds \cap {id})
                 /\ shared' = IF SharedBy(t, a) THEN shared \cup {id} ELSE shared
      BY <2>2 DEF RegisterSign
    <3>2. req[t] \in RegisterRequest /\ id \in AgentIds \cup NewIds
      BY <2>2, <3>1 DEF RegisterSign, RegisterRequest
    <3>3. [agent_name |-> req[t].agent_name, agent_id |-> id,
           pointer |-> req[t].pointer] \in AgentAddr
      BY <3>2 DEF RegisterRequest, AgentAddr
    <3> QED BY <2>2, <3>1, <3>2, <3>3 DEF RegisterSign
  <2>3. ASSUME NEW t \in Threads, RegisterName(t) PROVE Inv'
    <3>1. addr[t] \in AgentAddr
      BY <2>3 DEF RegisterName
    <3>2. byName' \in Seq(AgentAddr) /\ Distinct(byName')
      BY <2>3, <3>1, StoredShape DEF RegisterName, StoredAs
    <3>3. Cardinality(NamesOf(byName')) = Len(byName')
      BY <3>2, DistinctCount
    <3> QED BY <2>3, <3>1, <3>2, <3>3 DEF RegisterName
  <2>4. ASSUME NEW t \in Threads, RegisterId(t) PROVE Inv'
    <3>1. addr[t] \in AgentAddr /\ addr[t].agent_id \in AgentIds \cup NewIds
      BY <2>4 DEF RegisterId, AgentAddr
    <3> QED BY <2>4, <3>1, AnswerKeepsTypes DEF RegisterId
  <2>5. ASSUME NEW t \in Threads, Resolve(t) \/ Revocations(t) PROVE Inv'
    <3>1. PICK answer : Answer(t, answer)
      BY <2>5 DEF Resolve, Revocations
    <3>2. UNCHANGED <<byName, byId, revoked, shared, accepted>>
      BY <2>5 DEF Resolve, Revocations
    <3> QED BY <3>1, <3>2, AnswerKeepsTypes
  <2>6. ASSUME NEW t \in Threads, ListCount(t) \/ ListWalk(t) PROVE Inv'
    <3>1. Len(byName) \in Nat /\ Len(<<>>) = 0 /\ 0 <= Len(byName)
      OBVIOUS
    <3>2. listing \in [Threads -> ListingType] /\ <<>> \in Seq(AgentAddr)
      BY DEF ListingType
    <3>3. /\ listing' \in [Threads -> ListingType]
          /\ listing'[t].agents = <<>> /\ Len(listing'[t].agents) <= listing'[t].size
          /\ \A u \in Threads \ {t} : listing'[u] = listing[u]
      <4>1. listing[t].agents = <<>> /\ Len(listing[t].agents) <= listing[t].size
        BY <2>6 DEF ListCount, ListWalk
      <4>2. CASE listing' = [listing EXCEPT ![t].count = Len(byName)]
        <5>1. Updated(listing, listing', t, Len(byName), listing[t].size, listing[t].agents)
          BY <3>1, <3>2, <4>2, CountUpdated, Zenon
        <5> QED BY <4>1, <5>1 DEF Updated
      <4>3. CASE listing' = [listing EXCEPT ![t].size = Len(byName)]
        <5>1. Updated(listing, listing', t, listing[t].count, Len(byName), listing[t].agents)
          BY <3>1, <3>2, <4>3, SizeUpdated, Zenon
        <5> QED BY <3>1, <4>1, <5>1 DEF Updated
      <4> QED BY <2>6, <4>2, <4>3 DEF ListCount, ListWalk
    <3>4. /\ pc' \in [Threads -> Locations] /\ pc'[t] \in {"list_walk", "list_next"}
          /\ pc[t] \in {"list", "list_walk"}
          /\ \A u \in Threads \ {t} : pc'[u] = pc[u]
      BY <2>6 DEF ListCount, ListWalk
    <3>5. UNCHANGED <<tables, req, addr, begun, minted, reply, history>>
      BY <2>6 DEF ListCount, ListWalk
    <3>6. Ready'
      BY <3>3, <3>4, <3>5
    <3> HIDE DEF Ready
    <3> QED BY <3>3, <3>4, <3>5, <3>6 DEF ListingType
  <2>7. ASSUME NEW t \in Threads, ListNext(t) PROVE Inv'
    <3>1. ASSUME NEW answer, Answer(t, answer), UNCHANGED <<shared, accepted>>
          PROVE  Inv'
      BY <2>7, <3>1, AnswerKeepsTypes DEF ListNext
    <3>2. CASE /\ Len(byName) = listing[t].size /\ Len(listing[t].agents) < listing[t].size
               /\ listing' = [listing EXCEPT
                                 ![t].agents = Append(@, byName[Len(listing[t].agents) + 1])]
               /\ UNCHANGED <<pc, req, addr, begun, minted, reply, history>>
      <4> DEFINE a == Append(listing[t].agents, byName[Len(listing[t].agents) + 1])
      <4>1. byName[Len(listing[t].agents) + 1] \in AgentAddr
        BY <3>2
      <4>2. listing \in [Threads -> ListingType] /\ listing[t].agents \in Seq(AgentAddr)
        BY DEF ListingType
      <4>3. a \in Seq(AgentAddr) /\ Len(a) <= listing[t].size
        BY <3>2, <4>1, <4>2, Appended
      <4>4. /\ listing' \in [Threads -> ListingType]
            /\ Len(listing'[t].agents) <= listing'[t].size
            /\ \A u \in Threads \ {t} : listing'[u] = listing[u]
        <5>1. Updated(listing, listing', t, listing[t].count, listing[t].size, a)
          BY <3>2, <4>2, <4>3, AgentsUpdated, Zenon
        <5> QED BY <4>3, <5>1 DEF Updated
      <4>5. pc[t] = "list_next" /\ UNCHANGED tables
        BY <2>7 DEF ListNext
      <4>6. Ready'
        BY <3>2, <4>4, <4>5
      <4> HIDE DEF Ready, a
      <4> QED BY <3>2, <4>4, <4>5, <4>6 DEF ListingType
    <3> QED BY <2>7, <3>1, <3>2 DEF ListNext
  <2>8. ASSUME NEW t \in Threads, Revoke(t) PROVE Inv'
    <3> DEFINE r == req[t].revocation
    <3>1. r \in Revocation
      BY <2>8 DEF Revoke, RevokeRequest
    <3>2. PICK answer : Answer(t, answer)
      BY <2>8 DEF Revoke
    <3>3. /\ UNCHANGED <<byName, byId, shared>>
          /\ \/ UNCHANGED <<revoked, accepted>>
             \/ /\ revoked' = [revoked EXCEPT ![r.credential_id] = r]
                /\ accepted' = accepted \cup {<<r.credential_id, r.issuer_did>>}
      BY <2>8 DEF Revoke
    <3> HIDE DEF r
    <3>4. r.credential_id \in CredIds /\ r.issuer_did \in Dids
      BY <3>1 DEF Revocation
    <3>5. revoked' \in [CredIds -> Revocation \cup {NoRevocation}]
      BY <3>1, <3>3
    <3>6. accepted' \subseteq CredIds \X Dids
      BY <3>3, <3>4
    <3> QED BY <3>2, <3>3, <3>5, <3>6, AnswerKeepsTypes
  <2>9. CASE Restart
    <3>1. byName' = <<>> /\ <<>> \in Seq(AgentAddr) /\ DOMAIN byName' = {}
      BY <2>9 DEF Restart
    <3>2. Distinct(byName')
      BY <3>1 DEF Distinct
    <3>3. Cardinality(NamesOf(byName')) = Len(byName')
      BY <3>1, <3>2, DistinctCount
    <3>4. NoListing \in [count : Nat, size : Nat, agents : Seq(AgentAddr)]
      OBVIOUS
    <3> QED BY <2>9, <3>1, <3>2, <3>3, <3>4 DEF Restart
  <2>10. CASE UNCHANGED vars
    BY <2>10 DEF vars
  <2> QED BY <2>1, <2>2, <2>3, <2>4, <2>5, <2>6, <2>7, <2>8, <2>9, <2>10 DEF Next, Step
<1> QED BY <1>1, <1>2, PTL DEF Spec

(* Every reachable state of the index is well typed. *)
THEOREM TypeCorrect == Spec => []TypeOK
<1>1. TypeInvariant => TypeOK
  BY DEF TypeInvariant
<1> QED BY <1>1, TypeInvariance, PTL
(* Only three steps of a handler write a table.  Every other step, and an   *)
(* answer, leaves the tables and the registrations in progress alone.       *)
SameRegistration(u) ==
    /\ addr'[u] = addr[u]
    /\ pc'[u] = "register_id" <=> pc[u] = "register_id"
Aside ==
    /\ UNCHANGED <<byName, byId, shared>>
    /\ \A u \in Threads : SameRegistration(u)

(* Every step writes a table, is a restart, or stands aside. *)
LEMMA OtherSteps ==
    ASSUME TypeInvariant, [Next]_vars
    PROVE  \/ \E t \in Threads : RegisterSign(t) \/ RegisterName(t) \/ RegisterId(t)
           \/ Aside /\ \E t \in Threads : Revoke(t)
           \/ Restart
           \/ Aside /\ UNCHANGED <<revoked, accepted>>
           \/ UNCHANGED vars
<1> USE DEF TypeInvariant, TypeOK, Locations, Aside, SameRegistration, tables, threads, history
<1>1. ASSUME NEW t \in Threads, NEW r \in Requests, Begin(t, r)
      PROVE  Aside /\ UNCHANGED <<revoked, accepted>>
  <2>1. r.op # "register_id"
    BY RequestsAssumption DEF RegisterRequest, ResolveRequest, ListRequest,
                              RevokeRequest, RevocationsRequest
  <2> QED BY <1>1, <2>1 DEF Begin
<1>2. ASSUME NEW t \in Threads, NEW answer, Answer(t, answer), pc[t] \in Locations,
             pc[t] \notin {"register_name", "register_id"}
      PROVE  \A u \in Threads : SameRegistration(u)
  BY <1>2 DEF Answer
<1>3. ASSUME NEW t \in Threads, Resolve(t) \/ Revocations(t)
      PROVE  Aside /\ UNCHANGED <<revoked, accepted>>
  BY <1>2, <1>3 DEF Resolve, Revocations
<1>4. ASSUME NEW t \in Threads, ListCount(t) \/ ListWalk(t)
      PROVE  Aside /\ UNCHANGED <<revoked, accepted>>
  BY <1>4 DEF ListCount, ListWalk
<1>5. ASSUME NEW t \in Threads, ListNext(t)
      PROVE  Aside /\ UNCHANGED <<revoked, accepted>>
  BY <1>2, <1>5 DEF ListNext
<1>6. ASSUME NEW t \in Threads, Revoke(t)
      PROVE  Aside
  <2>1. PICK answer : Answer(t, answer)
    BY <1>6 DEF Revoke
  <2> QED BY <1>2, <1>6, <2>1 DEF Revoke
<1> HIDE DEF Aside
<1> QED BY <1>1, <1>3, <1>4, <1>5, <1>6 DEF Next, Step

(* Every revocation that was answered 200 is accounted for, and every entry *)
(* of the list is its issuer's.                                             *)
THEOREM Accountable == Spec => []RevocationsAccountable
<1>1. Init => RevocationsAccountable
  BY DEF Init, RevocationsAccountable
<1>2. ASSUME TypeInvariant, RevocationsAccountable, [Next]_vars
      PROVE  RevocationsAccountable'
  <2> USE <1>2 DEF RevocationsAccountable
  <2>0. revoked \in [CredIds -> Revocation \cup {NoRevocation}]
    BY DEF TypeInvariant, TypeOK
  <2>1. ASSUME NEW t \in Threads, Revoke(t) PROVE RevocationsAccountable'
    <3> DEFINE r == req[t].revocation
    <3>1. r \in Revocation
      BY <2>1 DEF TypeInvariant, Ready, Revoke, RevokeRequest
    <3>2. \/ UNCHANGED <<revoked, accepted>>
          \/ /\ r.by = r.issuer_did
             /\ revoked' = [revoked EXCEPT ![r.credential_id] = r]
             /\ accepted' = accepted \cup {<<r.credential_id, r.issuer_did>>}
      BY <2>1 DEF Revoke
    <3>3. r # NoRevocation /\ r.credential_id \in CredIds
      BY <3>1, NothingAssumption DEF Revocation
    <3> HIDE DEF r
    <3>4. CASE UNCHANGED <<revoked, accepted>>
      BY <3>4
    <3>5. CASE /\ r.by = r.issuer_did
               /\ revoked' = [revoked EXCEPT ![r.credential_id] = r]
               /\ accepted' = accepted \cup {<<r.credential_id, r.issuer_did>>}
      <4>1. \A c \in CredIds : revoked'[c] = IF c = r.credential_id THEN r ELSE revoked[c]
        BY <2>0, <3>5
      <4>2. \A p \in accepted' : \/ p \in accepted
                                 \/ p = <<r.credential_id, r.issuer_did>>
        BY <3>5
      <4>3. accepted \subseteq CredIds \X Dids
        BY DEF TypeInvariant, TypeOK
      <4>4. \A p \in accepted' : revoked'[p[1]] # NoRevocation
        BY <3>3, <4>1, <4>2, <4>3
      <4>5. \A c \in CredIds :
               revoked'[c] # NoRevocation =>
                   /\ revoked'[c].by = revoked'[c].issuer_did
                   /\ <<c, revoked'[c].issuer_did>> \in accepted'
        BY <3>5, <4>1
      <4> QED BY <4>4, <4>5
    <3> QED BY <3>2, <3>4, <3>5
  <2>2. CASE Restart
    BY <2>2 DEF Restart
  <2>3. CASE UNCHANGED <<revoked, accepted>>
    BY <2>3
  <2>4. ASSUME NEW t \in Threads, RegisterSign(t) \/ RegisterName(t) \/ RegisterId(t)
        PROVE  UNCHANGED <<revoked, accepted>>
    BY <2>4 DEF RegisterSign, RegisterName, RegisterId, tables
  <2> QED BY <2>1, <2>2, <2>3, <2>4, OtherSteps DEF vars, tables, history
<1> QED BY <1>1, <1>2, TypeInvariance, PTL DEF Spec

(* The service's table, as a function of the index's.                       *)
Served(table) ==
    [n \in Names |->
        IF n \in NamesOf(table)
        THEN table[CHOOSE k \in DOMAIN table : table[k].agent_name = n] ELSE NoAddr]

(* With one entry per name, the CHOOSE finds that entry. *)
LEMMA ServedEntry ==
    ASSUME NEW table \in Seq(AgentAddr), Distinct(table), NEW k \in DOMAIN table
    PROVE  /\ table[k].agent_name \in Names /\ table[k].agent_name \in NamesOf(table)
           /\ Served(table)[table[k].agent_name] = table[k]
<1>1. table[k] \in AgentAddr
  OBVIOUS
<1>2. table[k].agent_name \in Names /\ table[k].agent_name \in NamesOf(table)
  BY <1>1 DEF AgentAddr, NamesOf
<1>3. (CHOOSE l \in DOMAIN table : table[l].agent_name = table[k].agent_name) = k
  BY DEF Distinct
<1> QED BY <1>2, <1>3 DEF Served

(* Storing an address changes one entry of the service. *)
LEMMA ServedStored ==
    ASSUME NEW table \in Seq(AgentAddr), NEW a \in AgentAddr, Distinct(table)
    PROVE  Served(Stored(table, a)) = [Served(table) EXCEPT ![a.agent_name] = a]
<1> DEFINE s == Stored(table, a)
<1>1. StoredAs(table, a, s)
  BY StoredShape
<1> HIDE DEF s
<1>2. a.agent_name \in Names
  BY DEF AgentAddr
<1>3. ASSUME NEW n \in Names
      PROVE  Served(s)[n] = IF n = a.agent_name THEN a ELSE Served(table)[n]
  <2>1. CASE n \notin NamesOf(s)
    <3>1. n # a.agent_name /\ n \notin NamesOf(table)
      BY <1>1, <2>1 DEF StoredAs
    <3> QED BY <2>1, <3>1 DEF Served
  <2>2. CASE n \in NamesOf(s)
    <3>1. PICK k \in DOMAIN s : s[k].agent_name = n
      BY <2>2 DEF NamesOf
    <3>2. Served(s)[n] = s[k]
      BY <1>1, <3>1, ServedEntry DEF StoredAs
    <3>3. CASE n = a.agent_name
      BY <1>1, <3>1, <3>2, <3>3 DEF StoredAs
    <3>4. CASE n # a.agent_name
      <4>1. k \in DOMAIN table /\ s[k] = table[k]
        BY <1>1, <3>1, <3>4 DEF StoredAs
      <4> QED BY <3>1, <3>2, <3>4, <4>1, ServedEntry
    <3> QED BY <3>3, <3>4
  <2> QED BY <2>1, <2>2
<1>4. Served(s) = [n \in Names |-> Served(s)[n]]
  BY DEF Served
<1>5. Served(table) = [n \in Names |-> Served(table)[n]]
  BY DEF Served
<1>6. Served(s) = [Served(table) EXCEPT ![a.agent_name] = a]
  BY <1>2, <1>3, <1>4, <1>5
<1> QED BY <1>6 DEF s

(* The threads of the index, in any interleaving, are the service.          *)
THEOREM Implements == Spec => ImplementsService
<1> USE DEF ServedEntries, Served
<1>1. Init => Service!Init
  BY DEF Init, Service!Init, NamesOf
<1>2. ASSUME TypeInvariant, [Next]_vars
      PROVE  Service!Next \/ UNCHANGED <<ServedEntries, revoked>>
  <2>0. ServedEntries = Served(byName) /\ ServedEntries' = Served(byName')
    OBVIOUS
  <2> HIDE DEF ServedEntries, Served
  <2>1. ASSUME NEW t \in Threads, RegisterName(t) PROVE Service!Next
    <3>1. /\ byName \in Seq(AgentAddr) /\ Distinct(byName) /\ addr[t] \in AgentAddr
          /\ byName' = Stored(byName, addr[t]) /\ revoked' = revoked
      BY <1>2, <2>1 DEF RegisterName, TypeInvariant, TypeOK
    <3>2. ServedEntries' = [ServedEntries EXCEPT ![addr[t].agent_name] = addr[t]]
      BY <2>0, <3>1, ServedStored
    <3>3. addr[t].agent_name \in Names
      BY <3>1 DEF AgentAddr
    <3> QED BY <3>1, <3>2, <3>3 DEF Service!Next, Service!Register
  <2>2. ASSUME NEW t \in Threads, Aside, Revoke(t)
        PROVE  Service!Next \/ UNCHANGED <<ServedEntries, revoked>>
    <3> DEFINE r == req[t].revocation
    <3>1. r \in Revocation
      BY <1>2, <2>2 DEF TypeInvariant, Ready, Revoke, RevokeRequest
    <3>2. \/ revoked' = revoked
          \/ /\ r.issuer_did \in WellFormed /\ r.by = r.issuer_did
             /\ revoked' = [revoked EXCEPT ![r.credential_id] = r]
      BY <2>2 DEF Revoke
    <3>3. ServedEntries' = ServedEntries
      BY <2>0, <2>2 DEF Aside
    <3> HIDE DEF r
    <3> QED BY <3>1, <3>2, <3>3 DEF Service!Next, Service!Revoke, Service!Genuine
  <2>3. CASE Restart
    <3>1. ServedEntries' = [n \in Names |-> NoAddr]
      BY <2>0, <2>3 DEF Restart, Served, NamesOf
    <3> QED BY <2>3, <3>1 DEF Restart, Service!Next, Service!Restart
  <2>4. CASE UNCHANGED <<byName, revoked>>
    BY <2>0, <2>4
  <2>5. ASSUME NEW t \in Threads, RegisterSign(t) \/ RegisterId(t)
        PROVE  UNCHANGED <<byName, revoked>>
    BY <2>5 DEF RegisterSign, RegisterId, tables
  <2> QED BY <1>2, <2>1, <2>2, <2>3, <2>4, <2>5, OtherSteps DEF vars, tables, Aside
<1>3. TypeInvariant /\ [Next]_vars => [Service!Next]_(Service!service)
  BY <1>2 DEF Service!service
<1> QED BY <1>1, <1>3, TypeInvariance, PTL DEF Spec, ImplementsService, Service!Spec
(* Between its two writes a registration is the only one with its id, and   *)
(* no other name has that id, unless the id is a shared one.                *)
Alone(t) ==
    LET a == addr[t]
    IN  a # NoAddr /\ a.agent_id \notin shared =>
            /\ \A u \in Threads \ {t} : addr[u] # NoAddr => addr[u].agent_id # a.agent_id
            /\ \A n \in DOMAIN byName :
                  byName[n].agent_id = a.agent_id =>
                      /\ byName[n].agent_name = a.agent_name
                      /\ pc[t] = "register_id" => byName[n] = a

WritesPaired == TablesAgree /\ \A t \in Threads : Alone(t)

(* register's two writes stay paired, whatever other threads do (98-114).    *)
THEOREM WritesArePaired == Spec => []WritesPaired
<1> USE DEF WritesPaired, Alone, TablesAgree
<1>1. Init => WritesPaired
  BY DEF Init
<1>2. ASSUME TypeInvariant, WritesPaired, [Next]_vars PROVE WritesPaired'
  <2> USE <1>2
  <2>0. /\ byName \in Seq(AgentAddr) /\ Distinct(byName)
        /\ byId \in [AgentIds \cup NewIds -> AgentAddr \cup {NoAddr}]
        /\ addr \in [Threads -> AgentAddr \cup {NoAddr}]
        /\ pc \in [Threads -> Locations]
        /\ \A t \in Threads : pc[t] \in {"register_name", "register_id"} <=> addr[t] # NoAddr
    BY DEF TypeInvariant, TypeOK
  <2>1. ASSUME NEW t \in Threads, RegisterSign(t) PROVE WritesPaired'
    <3>1. PICK id \in IF req[t].agent_id = NoId THEN NewIds \ minted ELSE {req[t].agent_id} :
             LET a == [agent_name |-> req[t].agent_name, agent_id |-> id,
                       pointer |-> req[t].pointer]
             IN  /\ addr' = [addr EXCEPT ![t] = a]
                 /\ minted' = minted \cup (NewIds \cap {id})
                 /\ shared' = IF SharedBy(t, a) THEN shared \cup {id} ELSE shared
      BY <2>1 DEF RegisterSign
    <3> DEFINE a == [agent_name |-> req[t].agent_name, agent_id |-> id,
                     pointer |-> req[t].pointer]
    <3>2. /\ pc[t] = "register" /\ pc' = [pc EXCEPT ![t] = "register_name"]
          /\ UNCHANGED <<byName, byId>>
      BY <2>1 DEF RegisterSign, tables
    <3>3. a.agent_id = id /\ addr' = [addr EXCEPT ![t] = a] /\ addr[t] = NoAddr
      BY <2>0, <3>1, <3>2
    <3>4. /\ shared \subseteq shared'
          /\ id \in shared' \/ ~ SharedBy(t, a)
      BY <3>1
    <3> HIDE DEF a
    <3>5. \A u \in Threads \ {t} : addr'[u] = addr[u] /\ pc'[u] = pc[u]
      BY <2>0, <3>2, <3>3
    <3>6. addr'[t] = a /\ pc'[t] = "register_name"
      BY <2>0, <3>2, <3>3
    <3>7. TablesAgree'
      BY <3>2, <3>4, <3>5
    <3>8. ASSUME NEW u \in Threads \ {t} PROVE Alone(u)'
      <4>1. addr'[u] # NoAddr /\ addr'[u].agent_id = id => id \in shared'
        BY <3>3, <3>4, <3>5 DEF SharedBy, Storing
      <4> QED BY <3>2, <3>3, <3>4, <3>5, <3>6, <4>1
    <3>9. Alone(t)'
      <4> SUFFICES ASSUME id \notin shared'
                   PROVE  /\ \A u \in Threads \ {t} : addr[u] # NoAddr => addr[u].agent_id # id
                          /\ \A n \in DOMAIN byName :
                                byName[n].agent_id = id => byName[n].agent_name = a.agent_name
        BY <3>2, <3>3, <3>5, <3>6
      <4>1. /\ \A u \in Threads \ {t} : addr[u] # NoAddr => addr[u].agent_id # id
            /\ byId[id] # NoAddr => byId[id].agent_name = a.agent_name
        BY <3>3, <3>4 DEF SharedBy, Storing
      <4>2. ASSUME NEW n \in DOMAIN byName, byName[n].agent_id = id
            PROVE  byName[n].agent_name = a.agent_name
        <5>1. byName[n] \in AgentAddr
          BY <2>0
        <5>2. CASE byId[id] = byName[n]
          BY <4>1, <5>1, <5>2, NothingAssumption
        <5>3. ASSUME NEW u \in Threads, pc[u] = "register_id", addr[u] = byName[n]
              PROVE  FALSE
          BY <3>2, <4>1, <4>2, <5>1, <5>3, NothingAssumption
        <5> QED BY <3>4, <4>2, <5>2, <5>3
      <4> QED BY <4>1, <4>2
    <3> QED BY <3>7, <3>8, <3>9
  <2>2. ASSUME NEW t \in Threads, RegisterName(t) PROVE WritesPaired'
    <3>1. /\ pc[t] = "register_name" /\ pc' = [pc EXCEPT ![t] = "register_id"]
          /\ UNCHANGED <<byId, addr, shared>>
          /\ addr[t] \in AgentAddr /\ byName' = Stored(byName, addr[t])
      BY <2>0, <2>2 DEF RegisterName
    <3>2. StoredAs(byName, addr[t], byName')
      BY <2>0, <3>1, StoredShape
    <3>3. /\ pc'[t] = "register_id"
          /\ \A u \in Threads \ {t} : pc'[u] = pc[u]
      BY <2>0, <3>1
    <3>4. \A n \in DOMAIN byName' :
             \/ byName'[n] = addr[t]
             \/ /\ n \in DOMAIN byName /\ byName'[n] = byName[n]
                /\ byName'[n].agent_name # addr[t].agent_name
      BY <3>2 DEF StoredAs
    <3>5. TablesAgree'
      BY <3>1, <3>3, <3>4
    <3>6. ASSUME NEW u \in Threads \ {t} PROVE Alone(u)'
      BY <3>1, <3>3, <3>4, <3>6, NothingAssumption
    <3>7. Alone(t)'
      BY <3>1, <3>3, <3>4
    <3> QED BY <3>5, <3>6, <3>7
  <2>3. ASSUME NEW t \in Threads, RegisterId(t) PROVE WritesPaired'
    <3>1. /\ pc[t] = "register_id" /\ pc' = [pc EXCEPT ![t] = "idle"]
          /\ byId' = [byId EXCEPT ![addr[t].agent_id] = addr[t]]
          /\ addr' = [addr EXCEPT ![t] = NoAddr]
          /\ UNCHANGED <<byName, shared>>
      BY <2>3 DEF RegisterId, Answer
    <3>2. addr[t] \in AgentAddr /\ addr[t].agent_id \in AgentIds \cup NewIds
      BY <2>0, <3>1 DEF AgentAddr
    <3>3. /\ addr'[t] = NoAddr
          /\ \A u \in Threads \ {t} : addr'[u] = addr[u] /\ pc'[u] = pc[u]
          /\ \A i \in AgentIds \cup NewIds :
                byId'[i] = IF i = addr[t].agent_id THEN addr[t] ELSE byId[i]
      BY <2>0, <3>1, <3>2
    <3>4. ASSUME NEW n \in DOMAIN byName, byName[n].agent_id \notin shared,
                 ~ \E u \in Threads : pc'[u] = "register_id" /\ addr'[u] = byName[n]
          PROVE  byId'[byName[n].agent_id] = byName[n]
      <4>0. byName[n] \in AgentAddr
        BY <2>0
      <4>1. byName[n].agent_id \in AgentIds \cup NewIds
        BY <4>0 DEF AgentAddr
      <4>2. CASE byName[n].agent_id = addr[t].agent_id
        BY <3>1, <3>2, <3>3, <3>4, <4>1, <4>2, NothingAssumption
      <4>3. CASE byName[n].agent_id # addr[t].agent_id
        BY <3>1, <3>3, <3>4, <4>1, <4>3
      <4> QED BY <4>2, <4>3
    <3>5. TablesAgree'
      BY <3>1, <3>4
    <3> QED BY <3>1, <3>3, <3>5
  <2>4. CASE Aside
    BY <2>4 DEF Aside, SameRegistration
  <2>5. CASE Restart
    BY <2>5 DEF Restart
  <2>6. CASE UNCHANGED vars
    BY <2>6 DEF vars, tables, threads, history
  <2> QED BY <2>1, <2>2, <2>3, <2>4, <2>5, <2>6, OtherSteps
<1> QED BY <1>1, <1>2, TypeInvariance, PTL DEF Spec

(* What a name resolves to is what is on file under its id, up to the       *)
(* registration between its two writes and the ids two registrations share. *)
THEOREM TablesAgreeAlways == Spec => []TablesAgree
<1>1. WritesPaired => TablesAgree
  BY DEF WritesPaired
<1> QED BY <1>1, WritesArePaired, PTL
(* A walk has the names of the first entries, whatever else was written,    *)
(* and its count and its size are out of date only if a name was added.     *)
Walking(t) ==
    /\ known[t] \subseteq NamesOf(byName)
    /\ pc[t] \in {"list_walk", "list_next"} /\ ~ grew[t] => listing[t].count = Len(byName)
    /\ pc[t] = "list_next" =>
          /\ listing[t].size <= Len(byName)
          /\ ~ grew[t] => listing[t].size = Len(byName)
          /\ \A k \in 1..Len(listing[t].agents) :
                listing[t].agents[k].agent_name = byName[k].agent_name

WalksFollow == ListingIsWhole /\ \A t \in Threads : Walking(t)

(* The rest of the state when a thread other than u takes a step. *)
LEMMA WalkUntouched ==
    ASSUME NEW u \in Threads, Walking(u), UNCHANGED byName,
           pc'[u] = pc[u], known'[u] = known[u], grew'[u] = grew[u], listing'[u] = listing[u]
    PROVE  Walking(u)'
BY DEF Walking

(* list_agents keeps this up beside any registrations (130-139). *)
THEOREM ListingsFollow == Spec => []WalksFollow
<1> USE DEF WalksFollow
<1>1. Init => WalksFollow
  BY DEF Init, ListingIsWhole, Walking, Plain
<1>2. ASSUME TypeInvariant, WalksFollow, [Next]_vars PROVE WalksFollow'
  <2> USE <1>2
  <2>0. /\ byName \in Seq(AgentAddr) /\ Distinct(byName)
        /\ Cardinality(NamesOf(byName)) = Len(byName)
        /\ pc \in [Threads -> Locations]
        /\ addr \in [Threads -> AgentAddr \cup {NoAddr}]
        /\ listing \in [Threads -> ListingType]
        /\ known \in [Threads -> SUBSET Names] /\ grew \in [Threads -> BOOLEAN]
        /\ \A t \in Threads :
              /\ pc[t] \in {"register_name", "register_id"} <=> addr[t] # NoAddr
              /\ Len(listing[t].agents) <= listing[t].size
              /\ pc[t] # "list_next" => listing[t].agents = <<>>
    BY DEF TypeInvariant, TypeOK, Ready, ListingType
  <2>1. ASSUME NEW t \in Threads, NEW answer, Answer(t, answer), UNCHANGED byName
        PROVE  \A u \in Threads : Walking(u)'
    <3>1. /\ known'[t] = {} /\ pc'[t] = "idle"
          /\ \A u \in Threads \ {t} : /\ pc'[u] = pc[u] /\ known'[u] = known[u]
                                      /\ grew'[u] = grew[u] /\ listing'[u] = listing[u]
      BY <2>0, <2>1 DEF Answer
    <3>2. Walking(t)'
      BY <3>1 DEF Walking
    <3> QED BY <2>1, <3>1, <3>2, WalkUntouched
  <2>2. ASSUME NEW t \in Threads, NEW r \in Requests, Begin(t, r) PROVE WalksFollow'
    <3>1. r.op \in {"register", "resolve", "list", "revoke", "revocations"}
      BY RequestsAssumption DEF RegisterRequest, ResolveRequest, ListRequest,
                                RevokeRequest, RevocationsRequest
    <3>2. /\ known'[t] = NamesOf(byName) /\ pc'[t] = r.op /\ UNCHANGED <<byName, reply>>
          /\ \A u \in Threads \ {t} : /\ pc'[u] = pc[u] /\ known'[u] = known[u]
                                      /\ grew'[u] = grew[u] /\ listing'[u] = listing[u]
      BY <2>0, <2>2 DEF Begin, tables
    <3>3. Walking(t)'
      BY <3>1, <3>2 DEF Walking
    <3> QED BY <3>2, <3>3, WalkUntouched DEF ListingIsWhole
  <2>3. ASSUME NEW t \in Threads, RegisterSign(t) PROVE WalksFollow'
    <3>1. /\ UNCHANGED <<byName, reply, known, grew, listing>> /\ pc'[t] = "register_name"
          /\ \A u \in Threads \ {t} : pc'[u] = pc[u]
      BY <2>0, <2>3 DEF RegisterSign, tables
    <3>2. Walking(t)'
      BY <3>1 DEF Walking
    <3> QED BY <3>1, <3>2, WalkUntouched DEF ListingIsWhole
  <2>4. ASSUME NEW t \in Threads, RegisterName(t) PROVE WalksFollow'
    <3>1. /\ UNCHANGED <<reply, known, listing>> /\ addr[t] \in AgentAddr
          /\ byName' = Stored(byName, addr[t]) /\ pc'[t] = "register_id"
          /\ \A u \in Threads \ {t} : pc'[u] = pc[u]
          /\ addr[t].agent_name \in NamesOf(byName) => grew' = grew
          /\ addr[t].agent_name \notin NamesOf(byName) => \A u \in Threads : grew'[u]
      BY <2>0, <2>4 DEF RegisterName
    <3>2. StoredAs(byName, addr[t], byName')
      BY <2>0, <3>1, StoredShape
    <3>3. /\ NamesOf(byName) \subseteq NamesOf(byName')
          /\ Len(byName) \in Nat /\ Len(byName') \in Nat /\ Len(byName') >= Len(byName)
          /\ addr[t].agent_name \in NamesOf(byName) => Len(byName') = Len(byName)
          /\ \A k \in 1..Len(byName) : byName'[k].agent_name = byName[k].agent_name
      BY <2>0, <3>2 DEF StoredAs
    <3>4. ASSUME NEW u \in Threads PROVE Walking(u)'
      <4>1. /\ Walking(u) /\ listing[u] \in ListingType
            /\ Len(listing[u].agents) <= listing[u].size
        BY <2>0
      <4>2. pc'[u] \in {"list_walk", "list_next"} => pc'[u] = pc[u]
        BY <3>1
      <4>3. grew[u] => grew'[u]
        BY <2>0, <3>1
      <4>4. ~ grew'[u] => Len(byName') = Len(byName)
        BY <3>1, <3>3
      <4>5. pc[u] = "list_next" =>
                \A k \in 1..Len(listing[u].agents) :
                    listing[u].agents[k].agent_name = byName'[k].agent_name
        <5>1. Len(listing[u].agents) \in Nat /\ listing[u].size \in Nat
          BY <4>1 DEF ListingType
        <5> QED BY <3>3, <4>1, <5>1 DEF Walking
      <4>6. listing[u].size \in Nat
        BY <4>1 DEF ListingType
      <4> QED BY <3>1, <3>3, <4>1, <4>2, <4>3, <4>4, <4>5, <4>6 DEF Walking
    <3> QED BY <3>1, <3>4 DEF ListingIsWhole
  <2>5. ASSUME NEW t \in Threads, RegisterId(t) \/ Resolve(t) \/ Revocations(t) \/ Revoke(t)
        PROVE  WalksFollow'
    <3>1. PICK status : Answer(t, Plain(status))
      BY <2>5 DEF RegisterId, Resolve, Revocations, Revoke
    <3>2. UNCHANGED byName
      BY <2>5 DEF RegisterId, Resolve, Revocations, Revoke, tables
    <3>3. reply'.op # "list"
      BY <3>1 DEF Answer, Plain
    <3> QED BY <2>1, <3>1, <3>2, <3>3 DEF ListingIsWhole
  <2>6. ASSUME NEW t \in Threads, ListCount(t) PROVE WalksFollow'
    <3>1. /\ UNCHANGED <<byName, reply, known, grew>> /\ pc'[t] = "list_walk"
          /\ \A u \in Threads \ {t} : pc'[u] = pc[u]
          /\ listing' = [listing EXCEPT ![t].count = Len(byName)]
      BY <2>0, <2>6 DEF ListCount, tables, history
    <3>2. Len(byName) \in Nat
      BY <2>0
    <3>3. Updated(listing, listing', t, Len(byName), listing[t].size, listing[t].agents)
      BY <2>0, <3>1, <3>2, CountUpdated, Zenon
    <3>4. Walking(t)'
      BY <3>1, <3>3 DEF Walking, Updated
    <3> QED BY <3>1, <3>3, <3>4, WalkUntouched DEF ListingIsWhole, Updated
  <2>7. ASSUME NEW t \in Threads, ListWalk(t) PROVE WalksFollow'
    <3>1. /\ UNCHANGED <<byName, reply, known, grew>>
          /\ pc[t] = "list_walk" /\ pc'[t] = "list_next"
          /\ \A u \in Threads \ {t} : pc'[u] = pc[u]
          /\ listing' = [listing EXCEPT ![t].size = Len(byName)]
      BY <2>0, <2>7 DEF ListWalk, tables, history
    <3>2. Len(byName) \in Nat /\ listing[t].agents = <<>>
      BY <2>0, <3>1
    <3>3. Updated(listing, listing', t, listing[t].count, Len(byName), listing[t].agents)
      BY <2>0, <3>1, <3>2, SizeUpdated, Zenon
    <3>4. Walking(t)'
      BY <3>1, <3>2, <3>3 DEF Walking, Updated
    <3> QED BY <3>1, <3>3, <3>4, WalkUntouched DEF ListingIsWhole, Updated
  <2>8. ASSUME NEW t \in Threads, ListNext(t) PROVE WalksFollow'
    <3> DEFINE l == listing[t]
               done == Len(l.agents)
               answer(status) == [op |-> "list", status |-> status, count |-> l.count,
                                  agents |-> l.agents, known |-> known[t],
                                  grew |-> grew[t], names |-> NamesOf(byName)]
    <3>1. pc[t] = "list_next" /\ UNCHANGED byName
      BY <2>8 DEF ListNext, tables
    <3>2. /\ l.count \in Nat /\ l.size \in Nat /\ l.agents \in Seq(AgentAddr)
          /\ done \in Nat /\ done <= l.size /\ Walking(t)
          /\ Len(byName) \in Nat /\ DOMAIN byName = 1..Len(byName)
          /\ DOMAIN l.agents = 1..done
      BY <2>0 DEF ListingType
    <3>3. CASE Len(byName) # l.size /\ Answer(t, answer(500))
      <4>1. grew[t]
        BY <3>1, <3>2, <3>3 DEF Walking
      <4>2. reply' = answer(500)
        BY <3>3 DEF Answer
      <4>3. ListingIsWhole'
        BY <4>1, <4>2 DEF ListingIsWhole
      <4> QED BY <2>1, <3>1, <3>3, <4>3
    <3>4. CASE Len(byName) = l.size /\ done = l.size /\ Answer(t, answer(200))
      <4> DEFINE listed == {l.agents[n].agent_name : n \in DOMAIN l.agents}
      <4>1. listed = NamesOf(byName)
        BY <3>1, <3>2, <3>4 DEF Walking, NamesOf
      <4>2. known[t] \subseteq listed /\ Cardinality(listed) = done
        BY <2>0, <3>2, <3>4, <4>1 DEF Walking
      <4>3. l.count = done \/ grew[t]
        BY <3>1, <3>2, <3>4 DEF Walking
      <4>4. reply' = answer(200)
        BY <3>4 DEF Answer
      <4>5. /\ reply'.status = 200 /\ reply'.known = known[t] /\ reply'.names = NamesOf(byName)
            /\ reply'.count = l.count /\ reply'.grew = grew[t] /\ reply'.agents = l.agents
        BY <4>4
      <4>6. ListingIsWhole'
        BY <4>1, <4>2, <4>3, <4>5 DEF ListingIsWhole
      <4> QED BY <2>1, <3>1, <3>4, <4>6
    <3>5. CASE /\ Len(byName) = l.size /\ done < l.size
               /\ listing' = [listing EXCEPT ![t].agents = Append(@, byName[done + 1])]
               /\ UNCHANGED <<pc, req, addr, begun, minted, reply, history>>
      <4> DEFINE a == Append(l.agents, byName[done + 1])
      <4>1. byName[done + 1] \in AgentAddr
        BY <2>0, <3>2, <3>5
      <4>2. /\ a \in Seq(AgentAddr) /\ Len(a) = done + 1 /\ a[done + 1] = byName[done + 1]
            /\ \A k \in 1..done : a[k] = l.agents[k]
        BY <3>2, <4>1, Appended
      <4>3. Updated(listing, listing', t, l.count, l.size, a)
        BY <2>0, <3>5, <4>2, AgentsUpdated, Zenon
      <4> HIDE DEF a
      <4>4. \A k \in 1..Len(a) : a[k].agent_name = byName[k].agent_name
        <5>1. \A k \in 1..Len(a) : k \in 1..done \/ k = done + 1
          BY <3>2, <4>2
        <5> QED BY <3>1, <3>2, <4>2, <5>1 DEF Walking
      <4>5. UNCHANGED <<pc, known, grew, reply>>
        BY <3>5 DEF history
      <4>6. Walking(t)'
        BY <3>1, <3>2, <4>3, <4>4, <4>5 DEF Walking, Updated
      <4> QED BY <3>1, <4>3, <4>5, <4>6, WalkUntouched DEF ListingIsWhole, Updated
    <3> QED BY <2>8, <3>3, <3>4, <3>5 DEF ListNext
  <2>9. CASE Restart
    BY <2>9 DEF Restart, ListingIsWhole, Walking, Plain
  <2>10. CASE UNCHANGED vars
    <3>1. UNCHANGED <<byName, pc, known, grew, listing, reply>>
      BY <2>10 DEF vars, tables, threads, history
    <3> QED BY <3>1 DEF ListingIsWhole, Walking
  <2> QED BY <2>2, <2>3, <2>4, <2>5, <2>6, <2>7, <2>8, <2>9, <2>10 DEF Next, Step
<1> QED BY <1>1, <1>2, TypeInvariance, PTL DEF Spec

(* A listing that is answered is the whole table, however many              *)
(* registrations ran beside it.                                             *)
THEOREM ListingsWhole == Spec => []ListingIsWhole
<1>1. WalksFollow => ListingIsWhole
  BY DEF WalksFollow
<1> QED BY <1>1, ListingsFollow, PTL
=============================================================================
