----------------------------- MODULE Nanda_proofs -----------------------------
(***************************************************************************)
(* Proofs about the system, for any terminals, any scripts that keep to    *)
(* the assumptions of Nanda, any identities and objects, and any number of *)
(* faults.                                                                 *)
(***************************************************************************)
EXTENDS Nanda, Resolver_proofs, FiniteSetTheorems

Plan == Plans[plan]
Early == {"idle", "refresh", "lookup", "select", "fetch"}

(* The client that walks keeps what Resolver's theorems say. *)
ClientOK == /\ TypeOK /\ WalkInvariant /\ SourceInvariant
            /\ SurfacedHaveStanding /\ FirstSurfaced

(* A client that may be parked: between walks, or about to ask a server. *)
Parkable(c) ==
    /\ c.configured \in BOOLEAN
    /\ c.lastList \in RevocationLists \cup {<<>>} /\ c.live = LiveOf(c.lastList)
    /\ c.pc \in Early
    /\ c.path \in {"primary", "private"} /\ c.act \in BOOLEAN
    /\ c.addr \in Opt(Addrs) /\ c.url \in Opt(Urls)
    /\ c.role \in Opt({"primary", "neutral", "enterprise"})
    /\ c.pc \in {"idle", "refresh", "lookup"} => c.addr = None
    /\ c.pc \in {"select", "fetch"} => c.addr # None /\ AddrVerified(c.addr)
    /\ c.pc # "fetch" => c.url = None /\ c.role = None
    /\ c.pc = "fetch" => c.url # None
    /\ c.bundle = None /\ c.provider \in Opt(Credential) /\ c.auditor = None
    /\ c.surfaced = {} /\ c.acted = None

(* Where the scripts are, and that a walk is the business of the script     *)
(* that is at it.                                                           *)
Places ==
    /\ plan \in DOMAIN Plans /\ active \in Terminals
    /\ at \in [Terminals -> Nat \ {0}] /\ outcome \in [Terminals -> Outcomes]
    /\ \A t \in Terminals : Running(t) => at[t] \in DOMAIN Text(t)
    /\ pc # "idle" => Doing(active, "walk")
    /\ DOMAIN parked = Terminals
    /\ \A t \in Terminals : Parkable(parked[t]) /\ (parked[t].pc # "idle" => Doing(t, "walk"))
    /\ parked[active] = NewClient(FALSE)
    /\ spent \in 0..Plan.faults

(* The credentials of scripts are under their issuers' ids. *)
OwnCredential(p) ==
    {c \in Opt(Credential) : \A r \in Written(p, "revoke") :
        c # None /\ c.id = ProviderVC(r.agent).id => c.issuer = ProviderIssuer}

(* What the hosts hold of an agent: credentials that a script hosts, and    *)
(* whatever else was published or filed.                                    *)
Stored(p, a) ==
    [creds : CredsOf(p, a), contestations : Filings(ContestationIds), severance : Opt(Severance)]

(* Some script has come to the instruction that this severance is from. *)
Sourced(p, places, a, sev) ==
    sev # None =>
        \E t \in Terminals : \E k \in DOMAIN p.texts[t] :
            /\ k <= places[t]
            /\ \/ /\ p.texts[t][k].op = "sever" /\ p.texts[t][k].agent = a
                  /\ sev = ExitOf(a)
               \/ /\ p.texts[t][k].op = "host" /\ p.texts[t][k].body.agent_id = a
                  /\ sev = p.texts[t][k].body.severance

(* What is found stored for an agent. *)
Found(p, places, a, b) ==
    /\ b = Nothing \/ b \in Stored(p, a)
    /\ Sourced(p, places, a, Stands(b, "severed"))

(* What a host acknowledged stands there. *)
Marks == {"severed", "contested"}
Vouched(p, a, what) == IF what = "severed" THEN a \in Severing(p) ELSE a = Summarizer
Honours(p, h, s, ack) ==
    \A a \in AgentIds, what \in Marks :
        <<h, a, what>> \in ack => Stands(s[a], what) = Genuine(a, what) /\ Vouched(p, a, what)

HostOK(p, h, s, ack, places) ==
    /\ DOMAIN s = AgentIds /\ Honours(p, h, s, ack)
    /\ \A a \in AgentIds : Found(p, places, a, s[a])
HostsOK == \A h \in Hosts : HostOK(Plan, h, StoreOf(h), acked, at)

(* A PUT in progress is that of a script that is at it. *)
PutsOK ==
    /\ DOMAIN prior = Terminals
    /\ \A t \in Terminals : prior[t] # None =>
          Doing(t, "host") /\ Found(Plan, at, Op(t).body.agent_id, prior[t])

(* Some script has come to an instruction to register this under the name. *)
RegisteredBy(p, places, n, a) ==
    \E t \in Terminals : \E k \in DOMAIN p.texts[t] :
        /\ k <= places[t]
        /\ p.texts[t][k].op = "register" /\ p.texts[t][k].name = n
        /\ Signed(p.texts[t][k].addr) = a

ProvidersEntry(c) == [credential_id |-> c, issuer_did |-> ProviderIssuer, by |-> ProviderIssuer]
RevokedMark(c) == <<"index", c, "revoked">>

(* Every entry was registered, and is kept under its own id.                *)
EntriesOK ==
    /\ entries \in [Names -> Addrs \cup {Nothing}]
    /\ \A n \in Names : entries[n] # Nothing => RegisteredBy(Plan, at, n, entries[n])
ListOK(r) ==
    /\ DOMAIN r = CredIds /\ IsFiniteSet({r[c] : c \in CredIds})
    /\ \A c \in CredIds : r[c] # Nothing =>
          r[c] \in Revocation /\ Index!Genuine(r[c]) /\ r[c].credential_id = c

(* A revocation that was acknowledged is on the list. *)
Marked(p, r, c) ==
    /\ c \in CredIds /\ r[c] = ProvidersEntry(c)
    /\ \E o \in Written(p, "revoke") : c = ProviderVC(o.agent).id
MarksOK ==
    \A c \in Opt(CredIds), t \in Terminals :
        RevokedMark(c) \in acked \cup seen[t] => Marked(Plan, revocations, c)
IndexOK == EntriesOK /\ ListOK(revocations) /\ MarksOK

(* What a script has been through is done, unless a restart undid it. *)
Progress ==
    \A t \in Terminals : \A k \in DOMAIN Text(t) : k < at[t] =>
        /\ Text(t)[k].op = "host" =>
              \/ Text(t)[k].host \in outages
              \/ StoreOf(Text(t)[k].host)[Text(t)[k].body.agent_id] # Nothing
        /\ Text(t)[k].op = "register" =>
              "index" \in outages \/ entries[Text(t)[k].name] # Nothing

(* A walk can be held to what is acknowledged still. *)
SeenAcked ==
    /\ DOMAIN seen = Terminals
    /\ \A t \in Terminals : \A k \in seen[t] : k[3] # "revoked" => k \in acked

(* Where a walk goes: to the facts of the address it was given, and with    *)
(* the list of what was revoked when it began.                              *)
Lists(list, c) ==
    OneEntryPerId(list) /\ \E n \in DOMAIN list : list[n] = ProvidersEntry(c)
Led(p, c, s) ==
    /\ c.addr # None => \E o \in Written(p, "register") : c.addr = Signed(o.addr)
    /\ c.url # None => /\ c.addr # None
                       /\ \E h \in Hosts : c.url = Url(h, c.addr.agent_id)
    /\ c.role = "neutral" =>
          /\ c.addr # None
          /\ ~ (c.addr.registration_type = "enterprise" /\ c.addr.registry_url # None)
          /\ c.url = Url("neutral", c.addr.agent_id)
    /\ c.configured /\ c.pc \in {"lookup"} \cup Bound =>
          \A i \in Opt(CredIds) : RevokedMark(i) \in s => Lists(c.lastList, i)
AllLed ==
    /\ Led(Plan, Client, seen[active])
    /\ \A t \in Terminals : t # active => Led(Plan, parked[t], seen[t])

(* What the facts of this walk must have. *)
CredsServed == [provider_vc |-> bundle.provider_vc, auditor_vc |-> bundle.auditor_vc]
FactsOK ==
    bundle # None =>
        /\ addr # None /\ CredsServed \in CredsOf(Plan, addr.agent_id)
        /\ Sourced(Plan, at, addr.agent_id, bundle.severance)
        /\ <<url[1], addr.agent_id, "severed">> \in seen[active] =>
              addr.agent_id \in Severing(Plan) /\ bundle.severance = ExitOf(addr.agent_id)
        /\ <<url[1], addr.agent_id, "contested">> \in seen[active] =>
              /\ addr.agent_id = Summarizer
              /\ \E n \in FirstOfId(bundle.contestations) : bundle.contestations[n] = Complaint

Inv == /\ ClientOK /\ Places /\ HostsOK /\ PutsOK /\ IndexOK /\ Progress /\ SeenAcked
       /\ AllLed /\ FactsOK
-----------------------------------------------------------------------------
(* What the assumptions say of the plan that was chosen. *)
LEMMA ThePlan ==
    ASSUME plan \in DOMAIN Plans
    PROVE  /\ Plan \in ThePlans /\ Plan.faults \in Nat
           /\ \A t \in Terminals : Text(t) \in Seq(Instruction)
<1>1. Plan \in ThePlans
  BY DEF Plan, ThePlans
<1>2. Plan.texts \in [Terminals -> Seq(Instruction)] /\ Plan.faults \in Nat
  BY <1>1, ScriptsAssumption
<1> QED BY <1>1, <1>2 DEF Plan, Text

(* The arguments of an instruction. *)
LEMMA Arguments ==
    ASSUME NEW o \in Instruction
    PROVE  /\ o.op = "load" => o.configured \subseteq BOOLEAN
           /\ o.op = "host" => o.host \in Hosts /\ o.body \in FactsBundle
           /\ o.op = "register" => o.name \in Names /\ o.addr \in AgentAddr
           /\ o.op = "file" => o.host \in Hosts /\ o = File(o.host)
           /\ o.op = "sever" => /\ o.host \in Hosts /\ o.agent \in AgentIds
                                /\ o = Sever(o.host, o.agent)
           /\ o.op = "revoke" => o.agent \in AgentIds /\ o.issuer \in Dids
           /\ o.op \in {"tamper", "read"} => o.name \in Names
           /\ o.op = "walk" => /\ o.name \in Names /\ o.act \in BOOLEAN
                               /\ o.paths \subseteq {"primary", "private"}
BY DEF Instruction, File, Sever

(* The credentials that scripts host. *)
LEMMA TheCreds ==
    ASSUME NEW p \in ThePlans, NEW a, NEW creds \in CredsOf(p, a)
    PROVE  /\ creds \in [provider_vc : OwnCredential(p), auditor_vc : OwnCredential(p)]
           /\ \A c \in Shown(creds) : {c.validFrom, c.validUntil} \subseteq Times
<1>1. PICK o \in Written(p, "host") : creds = o.body.creds
  BY DEF CredsOf
<1>2. o \in Instruction /\ o.op = "host"
  BY ScriptsAssumption DEF Written
<1>3. creds \in [provider_vc : Opt(Credential), auditor_vc : Opt(Credential)]
  BY <1>1, <1>2, Arguments DEF FactsBundle
<1>4. \A c \in {creds.provider_vc, creds.auditor_vc} : c \in OwnCredential(p)
  BY <1>1, <1>3, IssuerAssumption DEF OwnCredential
<1>5. \A c \in Shown(creds) : {c.validFrom, c.validUntil} \subseteq Times
  BY <1>1, SigningAssumption
<1> QED BY <1>3, <1>4, <1>5

(* The instruction a script is at. *)
LEMMA TheInstruction ==
    ASSUME Places, NEW t \in Terminals, Running(t)
    PROVE  /\ at[t] \in DOMAIN Text(t) /\ at[t] \in Nat \ {0}
           /\ Text(t) \in Seq(Instruction) /\ Op(t) \in Instruction
           /\ Op(t) \in Written(Plan, Op(t).op)
<1>1. at[t] \in DOMAIN Text(t) /\ at[t] \in Nat \ {0}
  BY DEF Places
<1>2. Text(t) \in Seq(Instruction)
  BY ThePlan DEF Places
<1>3. Op(t) \in Instruction
  BY <1>1, <1>2 DEF Op
<1>4. Op(t) \in Written(Plan, Op(t).op)
  BY <1>1 DEF Op, Text, Plan, Written
<1> QED BY <1>1, <1>2, <1>3, <1>4
-----------------------------------------------------------------------------
(* A new client is between walks. *)
LEMMA NewParkable ==
    ASSUME NEW b \in BOOLEAN
    PROVE  Parkable(NewClient(b))
<1>1. LiveOf(<<>>) = {}
  BY DEF LiveOf, Named
<1> QED BY <1>1 DEF Parkable, NewClient, Early, Opt

(* The client of a terminal that is about to ask a server may be parked. *)
LEMMA ClientParkable ==
    ASSUME ClientOK, pc \in Early
    PROVE  Parkable(Client)
<1> USE DEF Early, Final, Bound, Fetched, NotSevered, Attested, Corroborated, Accepted
<1>1. /\ configured \in BOOLEAN /\ lastList \in RevocationLists \cup {<<>>}
      /\ path \in {"primary", "private"} /\ act \in BOOLEAN
      /\ addr \in Opt(Addrs) /\ url \in Opt(Urls)
      /\ role \in Opt({"primary", "neutral", "enterprise"})
      /\ provider \in Opt(Credential) /\ surfaced = {}
      /\ pc \in {"select", "fetch"} => addr # None
  BY DEF ClientOK, TypeOK
<1>2. /\ live = LiveOf(lastList) /\ auditor = None /\ acted = None
      /\ pc \in {"select", "fetch"} => AddrVerified(addr)
  BY DEF ClientOK, WalkInvariant
<1>3. /\ bundle = None /\ (pc \in {"idle", "refresh", "lookup"} => addr = None)
      /\ pc # "fetch" => url = None /\ role = None
      /\ pc = "fetch" => url # None
  BY DEF ClientOK, SourceInvariant
<1> HIDE DEF Bound, Fetched, NotSevered, Attested, Corroborated, Accepted
<1> QED BY <1>1, <1>2, <1>3 DEF Parkable, Client, Opt

(* Another terminal's client takes the place of the active one. *)
LEMMA BecomeOK ==
    ASSUME ClientOK, NEW c, Parkable(c), Become(c)
    PROVE  ClientOK'
<1> USE DEF Early, Final, Bound, Fetched, NotSevered, Attested, Corroborated, Accepted,
            Parkable, Become, Opt
<1>1. TypeOK'
  <2>1. now \in Times /\ since \in 0..now /\ walks \in 0..MaxWalks
        /\ UNCHANGED <<now, since, walks>>
    BY DEF ClientOK, TypeOK, clock
  <2>2. live' \subseteq CredIds \X TrustedIssuers
    BY DEF LiveOf
  <2> QED BY <2>1, <2>2 DEF TypeOK, Stages
<1>2. WalkInvariant'
  BY DEF WalkInvariant
<1>3. SourceInvariant'
  BY DEF SourceInvariant
<1>4. SurfacedHaveStanding' /\ FirstSurfaced'
  BY DEF SurfacedHaveStanding, FirstSurfaced
<1> QED BY <1>1, <1>2, <1>3, <1>4 DEF ClientOK

(* A walk of the system is a walk of the client alone. *)
LEMMA WalkStepOK ==
    ASSUME ClientOK, [Next]_vars
    PROVE  ClientOK'
BY TypeStep, WalkInvariantStep, SourceStep, StandingStep, FirstStep DEF ClientOK

(* Whatever a server answers, a hop that takes it is a step of Resolver.    *)
LEMMA HopIsStep ==
    ASSUME NEW x,
           \/ RefreshRevocations(x) \/ LookupAddr(x) \/ FollowRegistry(x) \/ FetchFacts(x)
    PROVE  Next
<1>1. CASE RefreshRevocations(x)
  <2>1. CASE x \in RevocationLists \cup Failures
    BY <1>1, <2>1 DEF Next, Step
  <2>2. CASE ~ configured
    <3>1. RefreshRevocations(Unreachable)
      BY <1>1, <2>2 DEF RefreshRevocations
    <3> QED BY <3>1 DEF Next, Step, Failures
  <2> QED BY <1>1, <2>1, <2>2 DEF RefreshRevocations, Failures
<1>2. CASE LookupAddr(x)
  BY <1>2 DEF LookupAddr, Next, Step, Failures
<1>3. CASE FollowRegistry(x)
  BY <1>3 DEF FollowRegistry, Next, Step, Failures
<1>4. CASE FetchFacts(x)
  BY <1>4 DEF FetchFacts, Next, Step, Failures
<1> QED BY <1>1, <1>2, <1>3, <1>4

(* What the system does in a walk, the client may do whatever the servers   *)
(* are: it is a step of Resolver.                                           *)
LEMMA WalksAreSteps ==
    ASSUME Places, BeginWalk \/ WalkStep \/ FetchFails
    PROVE  Next
<1>1. CASE BeginWalk
  <2>1. /\ Doing(active, "walk")
        /\ \E p \in Op(active).paths : Start(p, Op(active).act)
    BY <1>1 DEF BeginWalk
  <2>2. Op(active).paths \subseteq {"primary", "private"} /\ Op(active).act \in BOOLEAN
    BY <2>1, TheInstruction, Arguments DEF Places, Doing
  <2> QED BY <2>1, <2>2 DEF Next
<1>2. CASE WalkStep
  <2>1. SelectFactsUrl \/ CheckSeverance \/ VerifyProvider \/ VerifyAuditor
        \/ EnforceThreshold \/ SurfaceContestations \/ Act(FALSE) => Next
    BY DEF Next, Step
  <2> QED BY <1>2, <2>1, HopIsStep DEF WalkStep
<1>3. CASE FetchFails
  BY <1>3, HopIsStep DEF FetchFails
<1> QED BY <1>1, <1>2, <1>3
-----------------------------------------------------------------------------
(* What a step of a script makes of its place in the text. *)
Moves(t) ==
    \/ Advance(t)
    \/ \E o \in {"stopped", "failed"} : End(t, o)
    \/ /\ at[t] + 1 \in DOMAIN Text(t)
       /\ at' = [at EXCEPT ![t] = @ + 1]
       /\ outcome' = [outcome EXCEPT ![t] = "spoiled"]

(* A script that saw something wrong has its verdict before it. *)
LEMMA VerdictAhead ==
    ASSUME Places, NEW t \in Terminals, Running(t),
           Op(t).op = "tamper" \/ (Op(t).op = "walk" /\ Op(t).end = "rejected")
    PROVE  at[t] + 1 \in DOMAIN Text(t)
<1>1. /\ at[t] \in DOMAIN Text(t) /\ at[t] \in Nat \ {0}
      /\ Text(t) \in Seq(Instruction) /\ Plan \in ThePlans
  BY TheInstruction, ThePlan DEF Places
<1>2. \E n \in (at[t] + 1)..Len(Text(t)) : Text(t)[n].op = "verdict"
  BY <1>1, VerdictAssumption DEF Op, Text, Plan
<1> QED BY <1>1, <1>2

(* What every step of a script other than a walk does besides its work.     *)
LEMMA ScriptMoves ==
    ASSUME Places, NEW t \in Terminals, ScriptStep(t) \/ RequestLost(t)
    PROVE  /\ Running(t) /\ Op(t).op # "walk" /\ Quiet /\ Moves(t)
           /\ plan' = plan /\ spent' \in 0..Plan.faults
           /\ UNCHANGED clients \/ LoadFiles(t)
<1> USE DEF Doing
<1>1. spent \in 0..Plan.faults /\ Plan.faults \in Nat
  BY ThePlan DEF Places
<1>2. FaultLeft /\ spent' = spent + 1 => spent' \in 0..Plan.faults
  BY <1>1 DEF FaultLeft, Plan
<1>3. ASSUME NEW sets, NEW undoes, NEW affects, Answered(t, sets, undoes, affects)
      PROVE  Moves(t) /\ spent' \in 0..Plan.faults
  BY <1>1, <1>2, <1>3 DEF Answered, Moves
<1>4. ASSUME Refused(t) PROVE Moves(t) /\ spent' \in 0..Plan.faults
  BY <1>1, <1>4 DEF Refused, Moves
<1>5. CASE LoadFiles(t)
  BY <1>1, <1>5 DEF LoadFiles, Moves
<1>6. CASE SaveFiles(t)
  BY <1>1, <1>6 DEF SaveFiles, Moves
<1>7. CASE HostFacts(t)
  BY <1>3, <1>7 DEF HostFacts
<1>8. CASE RegisterAddr(t)
  BY <1>1, <1>2, <1>8 DEF RegisterAddr, Moves
<1>9. CASE FileComplaint(t)
  BY <1>3, <1>4, <1>9 DEF FileComplaint, Filed
<1>10. CASE FileSeverance(t)
  BY <1>3, <1>4, <1>10 DEF FileSeverance, Filed
<1>11. CASE RevokeCredential(t)
  BY <1>1, <1>2, <1>11 DEF RevokeCredential, Moves
<1>12. CASE TamperAddr(t)
  <2>1. at[t] + 1 \in DOMAIN Text(t)
    BY <1>12, VerdictAhead DEF TamperAddr
  <2> QED BY <1>1, <1>12, <2>1 DEF TamperAddr, Moves
<1>13. CASE ReadFacts(t)
  BY <1>1, <1>13 DEF ReadFacts, Moves
<1>14. CASE GiveVerdict(t)
  BY <1>1, <1>14 DEF GiveVerdict, Moves
<1>15. CASE RequestLost(t)
  BY <1>1, <1>2, <1>15 DEF RequestLost, Moves
<1> QED BY <1>5, <1>6, <1>7, <1>8, <1>9, <1>10, <1>11, <1>12, <1>13, <1>14, <1>15
           DEF ScriptStep

(* A PUT that begins has read, and that is all. *)
LEMMA BeginReads ==
    ASSUME NEW t, BeginPut(t)
    PROVE  /\ Quiet /\ Doing(t, "host")
           /\ UNCHANGED <<entries, revocations, pstore, nstore, clients, saved, plan, at,
                          outcome, spent, outages, acked, seen, disturbed>>
BY DEF BeginPut, index, phost, nhost, notes

(* The end of a walk moves its script, too. *)
LEMMA EndWalkMoves ==
    ASSUME ClientOK, Places, EndWalk
    PROVE  Moves(active) /\ Op(active).op = "walk"
<1>1. active \in Terminals /\ Running(active) /\ Op(active).op = "walk"
  BY DEF Places, EndWalk, Final, Doing
<1>2. Op(active).end = "rejected" => at[active] + 1 \in DOMAIN Text(active)
  BY <1>1, VerdictAhead
<1>3. CASE Advance(active)
  BY <1>1, <1>3 DEF Moves
<1>4. CASE End(active, "failed") \/ End(active, "stopped")
  BY <1>1, <1>4 DEF Moves
<1>5. CASE /\ Op(active).end = "rejected"
           /\ at' = [at EXCEPT ![active] = @ + 1]
           /\ outcome' = [outcome EXCEPT ![active] = "spoiled"]
  BY <1>1, <1>2, <1>5 DEF Moves
<1> QED BY <1>3, <1>4, <1>5 DEF EndWalk

(* The others stay where they are, and nobody goes back. *)
LEMMA MovesPlace ==
    ASSUME Places, NEW t \in Terminals, Running(t), Moves(t), plan' = plan
    PROVE  /\ at' \in [Terminals -> Nat \ {0}] /\ outcome' \in [Terminals -> Outcomes]
           /\ \A u \in Terminals : Running(u)' => at'[u] \in DOMAIN Text(u)'
           /\ \A u \in Terminals : at[u] <= at'[u] /\ at'[u] <= at[u] + 1
           /\ \A u \in Terminals \ {t} : at'[u] = at[u] /\ outcome'[u] = outcome[u]
<1>1. /\ at \in [Terminals -> Nat \ {0}] /\ outcome \in [Terminals -> Outcomes]
      /\ \A u \in Terminals : Running(u) => at[u] \in DOMAIN Text(u)
      /\ at[t] \in DOMAIN Text(t) /\ Text(t) \in Seq(Instruction)
  BY TheInstruction DEF Places
<1>2. \A u \in Terminals : Text(u)' = Text(u)
  BY DEF Text
<1>3. CASE Advance(t)
  <2>1. CASE at[t] = Len(Text(t))
    BY <1>1, <1>2, <1>3, <2>1 DEF Advance, Running, Outcomes
  <2>2. CASE at[t] # Len(Text(t))
    <3>1. at[t] + 1 \in DOMAIN Text(t)
      BY <1>1, <2>2
    <3> QED BY <1>1, <1>2, <1>3, <2>2, <3>1 DEF Advance, Running, Outcomes
  <2> QED BY <2>1, <2>2
<1>4. CASE \E o \in {"stopped", "failed"} : End(t, o)
  BY <1>1, <1>2, <1>4 DEF End, Running, Outcomes
<1>5. CASE /\ at[t] + 1 \in DOMAIN Text(t)
           /\ at' = [at EXCEPT ![t] = @ + 1]
           /\ outcome' = [outcome EXCEPT ![t] = "spoiled"]
  BY <1>1, <1>2, <1>5 DEF Running, Outcomes
<1> QED BY <1>3, <1>4, <1>5 DEF Moves
-----------------------------------------------------------------------------
(* A terminal takes over: the client that walked is parked, and a walk it   *)
(* has begun stays the business of its script.                              *)
LEMMA ActivatePlaces ==
    ASSUME ClientOK, Places, Quiet, NEW t \in Terminals, NEW c, Parkable(c), Activate(t, c)
    PROVE  /\ ClientOK'
           /\ active' = t /\ DOMAIN parked' = Terminals
           /\ parked'[t] = NewClient(FALSE)
           /\ \A u \in Terminals : Parkable(parked'[u])
           /\ \A u \in Terminals : parked'[u].pc # "idle" =>
                 u # t /\ (parked[u].pc # "idle" \/ (u = active /\ pc # "idle"))
           /\ pc' = c.pc
<1>1. Become(c) /\ ClientOK'
  BY BecomeOK DEF Activate
<1>2. Parkable(Client)
  BY ClientParkable DEF Quiet, Early
<1>3. Parkable(NewClient(FALSE)) /\ NewClient(FALSE).pc = "idle"
  BY NewParkable DEF NewClient
<1>4. /\ active' = t /\ active \in Terminals /\ DOMAIN parked = Terminals
      /\ parked' = [parked EXCEPT ![active] = Client, ![t] = NewClient(FALSE)]
      /\ \A u \in Terminals : Parkable(parked[u])
  BY DEF Activate, Places
<1>5. Client.pc = pc
  BY DEF Client
<1> HIDE DEF Parkable, Client, NewClient
<1>6. \A u \in Terminals : parked'[u] = IF u = t THEN NewClient(FALSE)
                                        ELSE IF u = active THEN Client ELSE parked[u]
  BY <1>4
<1> QED BY <1>1, <1>2, <1>3, <1>4, <1>5, <1>6 DEF Become

(* Every script is at an instruction of its own, and whoever walks has a    *)
(* script that is at a walk.                                                *)
LEMMA PlacesStep ==
    ASSUME ClientOK, Places, PutsOK, [SystemNext]_system
    PROVE  ClientOK' /\ Places'
<1>1. /\ plan \in DOMAIN Plans /\ active \in Terminals
      /\ at \in [Terminals -> Nat \ {0}] /\ outcome \in [Terminals -> Outcomes]
      /\ \A t \in Terminals : Running(t) => at[t] \in DOMAIN Text(t)
      /\ pc # "idle" => Doing(active, "walk")
      /\ DOMAIN parked = Terminals
      /\ \A t \in Terminals : Parkable(parked[t])
      /\ \A t \in Terminals : parked[t].pc # "idle" => Doing(t, "walk")
      /\ parked[active] = NewClient(FALSE)
      /\ spent \in 0..Plan.faults
  BY DEF Places
<1>2. ASSUME UNCHANGED <<plan, at, outcome>>
      PROVE  \A t \in Terminals : /\ Text(t)' = Text(t) /\ Running(t)' = Running(t)
                                  /\ Doing(t, "walk")' = Doing(t, "walk")
  BY <1>2 DEF Text, Running, Doing, Op
<1>3. ASSUME NEW t \in Terminals, Running(t), Moves(t), plan' = plan
      PROVE  /\ at' \in [Terminals -> Nat \ {0}] /\ outcome' \in [Terminals -> Outcomes]
             /\ \A u \in Terminals : Running(u)' => at'[u] \in DOMAIN Text(u)'
             /\ \A u \in Terminals \ {t} : Doing(u, "walk")' = Doing(u, "walk")
  BY <1>3, MovesPlace DEF Text, Running, Doing, Op
<1>4. ASSUME NEW t \in Terminals, ScriptStep(t) \/ RequestLost(t) PROVE ClientOK' /\ Places'
  <2>1. /\ Running(t) /\ Op(t).op # "walk" /\ Quiet /\ Moves(t)
        /\ plan' = plan /\ spent' \in 0..Plan'.faults
    BY <1>4, ScriptMoves DEF Plan
  <2>2. ~ Doing(t, "walk")
    BY <2>1 DEF Doing
  <2>3. /\ at' \in [Terminals -> Nat \ {0}] /\ outcome' \in [Terminals -> Outcomes]
        /\ \A u \in Terminals : Running(u)' => at'[u] \in DOMAIN Text(u)'
        /\ \A u \in Terminals \ {t} : Doing(u, "walk")' = Doing(u, "walk")
    BY <1>3, <2>1
  <2>4. CASE UNCHANGED clients
    <3>1. ClientOK'
      BY <2>4, WalkStepOK DEF clients, vars
    <3>2. UNCHANGED <<pc, active, parked>>
      BY <2>4 DEF clients
    <3>3. /\ pc' # "idle" => Doing(active, "walk")'
          /\ \A u \in Terminals : parked'[u].pc # "idle" => Doing(u, "walk")'
      BY <1>1, <2>2, <2>3, <3>2
    <3> QED BY <1>1, <2>1, <2>3, <3>1, <3>2, <3>3 DEF Places
  <2>5. CASE LoadFiles(t)
    <3>1. PICK b \in Op(t).configured : Activate(t, NewClient(b))
      BY <2>5 DEF LoadFiles
    <3>2. b \in BOOLEAN
      BY <2>1, <2>5, <3>1, TheInstruction, Arguments DEF LoadFiles, Doing
    <3>3. Parkable(NewClient(b)) /\ NewClient(b).pc = "idle"
      BY <3>2, NewParkable DEF NewClient
    <3> DEFINE c == NewClient(b)
    <3> HIDE DEF c
    <3>4. Activate(t, c) /\ Parkable(c) /\ c.pc = "idle"
      BY <3>1, <3>3 DEF c
    <3>5. /\ ClientOK'
          /\ active' = t /\ DOMAIN parked' = Terminals
          /\ parked'[t] = NewClient(FALSE)
          /\ \A u \in Terminals : Parkable(parked'[u])
          /\ \A u \in Terminals : parked'[u].pc # "idle" =>
                u # t /\ (parked[u].pc # "idle" \/ (u = active /\ pc # "idle"))
          /\ pc' = "idle"
      BY <2>1, <3>4, ActivatePlaces
    <3>6. \A u \in Terminals : parked'[u].pc # "idle" => Doing(u, "walk")'
      BY <1>1, <2>3, <3>5
    <3> QED BY <1>1, <2>1, <2>3, <3>5, <3>6 DEF Places
  <2> QED BY <1>4, <2>4, <2>5, ScriptMoves
<1>5. ASSUME NEW t \in Terminals, Switch(t) PROVE ClientOK' /\ Places'
  <2>1. /\ Quiet /\ Doing(t, "walk") /\ Activate(t, parked[t])
        /\ UNCHANGED <<plan, at, outcome, spent>>
    BY <1>5 DEF Switch
  <2>2. /\ ClientOK'
        /\ active' = t /\ DOMAIN parked' = Terminals
        /\ parked'[t] = NewClient(FALSE)
        /\ \A u \in Terminals : Parkable(parked'[u])
        /\ \A u \in Terminals : parked'[u].pc # "idle" =>
              u # t /\ (parked[u].pc # "idle" \/ (u = active /\ pc # "idle"))
    BY <1>1, <2>1, ActivatePlaces
  <2>3. \A u \in Terminals : parked'[u].pc # "idle" => Doing(u, "walk")'
    BY <1>1, <1>2, <2>1, <2>2
  <2>4. Plan' = Plan
    BY <2>1 DEF Plan
  <2> QED BY <1>1, <1>2, <2>1, <2>2, <2>3, <2>4 DEF Places
<1>6. CASE BeginWalk \/ WalkStep \/ FetchFails
  <2>1. ClientOK'
    BY <1>6, WalksAreSteps, WalkStepOK
  <2>2. UNCHANGED <<plan, at, outcome, active, parked>> /\ Doing(active, "walk")
    <3>1. WalkStep \/ FetchFails => pc # "idle"
      BY DEF WalkStep, FetchFails, RefreshRevocations, LookupAddr, SelectFactsUrl,
             FollowRegistry, FetchFacts, CheckSeverance, VerifyProvider, VerifyAuditor,
             EnforceThreshold, SurfaceContestations, Act
    <3> QED BY <1>1, <1>6, <3>1 DEF BeginWalk, WalkStep, FetchFails
  <2>3. spent' \in 0..Plan'.faults
    <3>1. Plan' = Plan /\ Plan.faults \in Nat /\ spent \in 0..Plan.faults
      BY <1>1, <2>2, ThePlan DEF Plan
    <3>2. spent' = spent \/ (spent < Plan.faults /\ spent' = spent + 1)
      BY <1>6 DEF BeginWalk, WalkStep, FetchFails, FaultLeft, Plan
    <3> QED BY <3>1, <3>2
  <2> QED BY <1>1, <1>2, <2>1, <2>2, <2>3 DEF Places
<1>7. CASE EndWalk
  <2> DEFINE c == [NewClient(configured) EXCEPT !.live = live, !.lastList = lastList]
  <2>1. Parkable(c) /\ c.pc = "idle"
    <3>1. configured \in BOOLEAN /\ lastList \in RevocationLists \cup {<<>>}
          /\ live = LiveOf(lastList)
      BY DEF ClientOK, TypeOK, WalkInvariant
    <3> QED BY <3>1, NewParkable DEF Parkable, NewClient, Early, Opt
  <2>2. Become(c) /\ UNCHANGED <<active, parked, plan, spent>> /\ Running(active)
    BY <1>7 DEF EndWalk
  <2> HIDE DEF c
  <2>3. ClientOK' /\ pc' = "idle"
    BY <2>1, <2>2, BecomeOK DEF Become
  <2>4. NewClient(FALSE).pc = "idle" /\ Plan' = Plan
    BY <2>2 DEF NewClient, Plan
  <2>5. /\ at' \in [Terminals -> Nat \ {0}] /\ outcome' \in [Terminals -> Outcomes]
        /\ \A u \in Terminals : Running(u)' => at'[u] \in DOMAIN Text(u)'
        /\ \A u \in Terminals \ {active} : Doing(u, "walk")' = Doing(u, "walk")
    BY <1>1, <1>7, <1>3, <2>2, EndWalkMoves
  <2>6. \A u \in Terminals : parked'[u].pc # "idle" => Doing(u, "walk")'
    BY <1>1, <2>2, <2>4, <2>5
  <2> QED BY <1>1, <2>2, <2>3, <2>4, <2>5, <2>6 DEF Places
<1>8. ASSUME NEW s \in {"index", "primary", "neutral"}, Restart(s) PROVE ClientOK' /\ Places'
  <2>1. UNCHANGED <<plan, at>> /\ UNCHANGED clients
    BY <1>8 DEF Restart
  <2>2. ClientOK' /\ UNCHANGED <<pc, active, parked>>
    BY <2>1, WalkStepOK DEF clients, vars
  <2>3. spent' \in 0..Plan'.faults
    BY <1>1, <1>8, <2>1, ThePlan DEF Restart, FaultLeft, Plan
  <2>4. outcome' = [t \in Terminals |-> IF InFlight(t, s) THEN "stopped" ELSE outcome[t]]
    BY <1>8 DEF Restart
  <2>5. \A t \in Terminals : InFlight(t, s) => ~ Doing(t, "walk")
    BY DEF InFlight, PutsOK, Doing
  <2>6. \A t \in Terminals : Text(t)' = Text(t) /\ Op(t)' = Op(t)
    BY <2>1 DEF Text, Op
  <2>7. \A t \in Terminals : /\ outcome'[t] \in Outcomes
                             /\ Running(t)' => Running(t)
                             /\ Doing(t, "walk") => Doing(t, "walk")'
    BY <1>1, <2>4, <2>5, <2>6 DEF Running, Outcomes, Doing
  <2>8. /\ \A t \in Terminals : Running(t)' => at'[t] \in DOMAIN Text(t)'
        /\ (pc # "idle" => Doing(active, "walk"))'
        /\ \A t \in Terminals : parked'[t].pc # "idle" => Doing(t, "walk")'
    BY <1>1, <2>1, <2>2, <2>6, <2>7
  <2>9. outcome' \in [Terminals -> Outcomes]
    BY <2>4, <2>7
  <2> QED BY <1>1, <2>1, <2>2, <2>3, <2>8, <2>9 DEF Places
<1>9. CASE (\E t \in Terminals : BeginPut(t)) \/ UNCHANGED system
  <2>1. UNCHANGED <<plan, at, outcome, spent>> /\ UNCHANGED clients
    BY <1>9 DEF BeginPut, system
  <2>2. ClientOK' /\ UNCHANGED <<pc, active, parked>> /\ Plan' = Plan
    BY <2>1, WalkStepOK DEF clients, vars, Plan
  <2> QED BY <1>1, <1>2, <2>1, <2>2 DEF Places
<1> QED BY <1>4, <1>5, <1>6, <1>7, <1>8, <1>9 DEF SystemNext, Finished
-----------------------------------------------------------------------------
(* Every step leaves the plan, and no script goes back in its text. *)
LEMMA PlacesGrow ==
    ASSUME ClientOK, Places, [SystemNext]_system
    PROVE  /\ plan' = plan
           /\ at \in [Terminals -> Nat \ {0}] /\ at' \in [Terminals -> Nat \ {0}]
           /\ \A t \in Terminals : at[t] <= at'[t]
<1>1. at \in [Terminals -> Nat \ {0}] /\ active \in Terminals
  BY DEF Places
<1>2. ASSUME NEW t \in Terminals, ScriptStep(t) \/ RequestLost(t)
      PROVE  Running(t) /\ Moves(t) /\ plan' = plan
  BY <1>2, ScriptMoves
<1>3. EndWalk => Running(active) /\ Moves(active) /\ plan' = plan
  BY EndWalkMoves DEF EndWalk
<1>4. ASSUME NEW t \in Terminals, Running(t), Moves(t), plan' = plan
      PROVE  at' \in [Terminals -> Nat \ {0}] /\ \A u \in Terminals : at[u] <= at'[u]
  BY <1>4, MovesPlace
<1>5. ASSUME UNCHANGED <<plan, at>>
      PROVE  at' \in [Terminals -> Nat \ {0}] /\ \A u \in Terminals : at[u] <= at'[u]
  BY <1>1, <1>5
<1>6. ASSUME \/ \E t \in Terminals : BeginPut(t) \/ Switch(t)
             \/ BeginWalk \/ WalkStep \/ FetchFails
             \/ \E s \in {"index", "primary", "neutral"} : Restart(s)
             \/ UNCHANGED system
      PROVE  UNCHANGED <<plan, at>>
  BY <1>6 DEF BeginPut, Switch, BeginWalk, WalkStep, FetchFails, Restart, system
<1> QED BY <1>1, <1>2, <1>3, <1>4, <1>5, <1>6 DEF SystemNext, Finished
-----------------------------------------------------------------------------
(* An exit, and the complaint, are objects of their kinds, and something. *)
LEMMA Objects ==
    ASSUME NEW p \in ThePlans
    PROVE  /\ \A a \in Severing(p) \cap AgentIds : ExitOf(a) \in Severance
           /\ Complaint \in Contestation
           /\ None \notin Severance \cup Contestation
<1>1. ASSUME NEW a \in Severing(p) \cap AgentIds PROVE ExitOf(a) \in Severance
  <2>1. a \in WellFormed /\ a \in Dids
    BY IdentityAssumption, WellFormedAssumption
  <2> QED BY <2>1 DEF ExitOf, Severance, Opt
<1>2. Complaint \in Contestation
  <2>1. /\ Summarizer \in WellFormed /\ Summarizer \in Dids /\ Summarizer \in AgentIds
        /\ AffectedParty \in WellFormed /\ AffectedParty \in Dids
        /\ ComplaintId \in ContestationIds /\ InteractionId \in InteractionIds
    BY IdentityAssumption, WellFormedAssumption, ComplaintAssumption
  <2>2. Receipt \in InteractionReceipt
    BY <2>1 DEF Receipt, InteractionReceipt, Opt
  <2> HIDE DEF Receipt
  <2> QED BY <2>1, <2>2 DEF Complaint, Contestation, Opt
<1> QED BY <1>1, <1>2, NoObjectAssumption, NothingAssumption

(* What a host holds is a bundle. *)
LEMMA StoredIsBundle ==
    ASSUME NEW p \in ThePlans, NEW a, NEW b \in Stored(p, a)
    PROVE  b \in P!Bundle /\ b # Nothing /\ b # None
<1>1. /\ b = [creds |-> b.creds, contestations |-> b.contestations, severance |-> b.severance]
      /\ b.creds \in CredsOf(p, a)
      /\ b.contestations \in [ContestationIds -> Seq(Contestation)]
      /\ b.severance \in Severance \cup {None}
  BY DEF Stored, Filings, Opt
<1>2. b.creds \in [provider_vc : Opt(Credential), auditor_vc : Opt(Credential)]
  BY <1>1, TheCreds DEF OwnCredential
<1>3. b \in P!Bundle
  BY <1>1, <1>2 DEF P!Bundle
<1> QED BY <1>3, NothingAssumption

(* What stands in a bundle, by its fields. *)
LEMMA StandsIn ==
    ASSUME NEW b, b # Nothing, b.contestations[ComplaintId] \in Seq(Contestation)
    PROVE  /\ Stands(b, "severed") = b.severance
           /\ b.contestations[ComplaintId] = <<>> => Stands(b, "contested") = None
           /\ b.contestations[ComplaintId] # <<>> =>
                 /\ Stands(b, "contested") = Head(b.contestations[ComplaintId])
                 /\ Stands(b, "contested") \in Contestation
BY DEF Stands

(* What a script has come to, it has still. *)
LEMMA FoundMore ==
    ASSUME NEW p \in ThePlans, NEW places \in [Terminals -> Nat \ {0}],
           NEW places2 \in [Terminals -> Nat \ {0}],
           \A t \in Terminals : places[t] <= places2[t],
           NEW a, NEW b, Found(p, places, a, b)
    PROVE  Found(p, places2, a, b)
<1>1. \A t \in Terminals : DOMAIN p.texts[t] \subseteq Nat
  BY ScriptsAssumption
<1>2. \A t \in Terminals : \A k \in DOMAIN p.texts[t] : k <= places[t] => k <= places2[t]
  BY <1>1
<1> QED BY <1>2 DEF Found, Sourced

(* Some script has come to this instruction. *)
Come(p, places, o) ==
    \E t \in Terminals : \E k \in DOMAIN p.texts[t] : k <= places[t] /\ p.texts[t][k] = o

(* The bundle a PUT stores has what the body carries, and what the PUT found *)
(* stored where the body is silent.                                          *)
LEMMA MergedFound ==
    ASSUME NEW p \in ThePlans, NEW places, NEW o \in Written(p, "host"), o \in Instruction,
           Come(p, places, o), NEW r, Found(p, places, o.body.agent_id, r)
    PROVE  LET m == P!Merged(r, o.body)
           IN  /\ m # Nothing /\ Found(p, places, o.body.agent_id, m)
               /\ \A what \in Marks :
                     Stands(m, what) =
                        Stands(IF Stands(o.body, what) # None THEN o.body ELSE r, what)
<1> DEFINE a == o.body.agent_id
           d == o.body
           m == P!Merged(r, d)
           kept == IF r = Nothing THEN [i \in ContestationIds |-> <<>>] ELSE r.contestations
           exit == IF r = Nothing THEN None ELSE r.severance
<1>1. o.op = "host" /\ d \in FactsBundle
  BY Arguments DEF Written
<1>2. /\ d.severance \in Opt(Severance)
      /\ d.contestations \in Filings(Opt(ContestationIds))
      /\ d.contestations \in [Opt(ContestationIds) -> Seq(Contestation)]
      /\ d.creds \in CredsOf(p, a)
  BY <1>1 DEF FactsBundle, CredsOf, Filings
<1>3. d # Nothing
  <2>1. d \in P!Body
    BY <1>1 DEF FactsBundle, P!Body, Filings, Opt
  <2> QED BY <2>1, NothingAssumption
<1>4. ComplaintId \in ContestationIds /\ ContestationIds \subseteq Opt(ContestationIds)
  BY ComplaintAssumption DEF Opt
<1>5. r = Nothing \/ r \in Stored(p, a)
  BY DEF Found
<1>6. /\ kept \in Filings(ContestationIds)
      /\ kept \in [ContestationIds -> Seq(Contestation)]
      /\ exit \in Opt(Severance)
  <2>1. \A x : x \notin DOMAIN <<>>
    OBVIOUS
  <2> QED BY <1>5, <2>1 DEF Stored, Filings, Opt
<1> DEFINE list == [i \in ContestationIds |-> P!KeptUnder(d.contestations[i], kept[i])]
           sev == IF d.severance = None THEN exit ELSE d.severance
<1>7. m = [creds |-> d.creds, contestations |-> list, severance |-> sev]
  BY DEF P!Merged
<1>8. list \in Filings(ContestationIds)
  <2> SUFFICES ASSUME NEW i \in ContestationIds
               PROVE  LET l == P!KeptUnder(d.contestations[i], kept[i])
                      IN  /\ l \in Seq(Contestation)
                          /\ \A n \in DOMAIN l : l[n].contestation_id = i
    BY DEF Filings
  <2> DEFINE sent == d.contestations[i]
             had == kept[i]
  <2>1. /\ sent \in Seq(Contestation) /\ \A n \in DOMAIN sent : sent[n].contestation_id = i
        /\ had \in Seq(Contestation) /\ \A n \in DOMAIN had : had[n].contestation_id = i
    BY <1>2, <1>4, <1>6 DEF Filings
  <2> HIDE DEF sent, had
  <2>2. had # <<>> => /\ <<Head(had)>> \in Seq(Contestation)
                      /\ \A n \in DOMAIN <<Head(had)>> : <<Head(had)>>[n].contestation_id = i
    BY <2>1
  <2> QED BY <2>1, <2>2 DEF P!KeptUnder, sent, had
<1> HIDE DEF m, list, sev
<1>9. m \in Stored(p, a)
  BY <1>2, <1>6, <1>7, <1>8 DEF Stored, sev
<1>10. m # Nothing
  BY <1>9, StoredIsBundle
<1>11. m.severance = sev /\ m.contestations[ComplaintId] = list[ComplaintId]
  BY <1>7
<1>12. Stands(d, "severed") = d.severance /\ Stands(r, "severed") = exit
       /\ Stands(m, "severed") = sev
  BY <1>3, <1>10, <1>11 DEF Stands
<1>13. Stands(m, "severed") = Stands(IF Stands(d, "severed") # None THEN d ELSE r, "severed")
  BY <1>12 DEF sev
<1>14. Stands(m, "contested")
          = Stands(IF Stands(d, "contested") # None THEN d ELSE r, "contested")
  <2> DEFINE sent == d.contestations[ComplaintId]
             had == kept[ComplaintId]
  <2>1. sent \in Seq(Contestation) /\ had \in Seq(Contestation)
    BY <1>2, <1>4, <1>6
  <2>2. m.contestations[ComplaintId] = P!KeptUnder(sent, had)
    BY <1>4, <1>11 DEF list
  <2>3. Stands(r, "contested") = IF had = <<>> THEN None ELSE Head(had)
    BY <1>4 DEF Stands
  <2>4. Stands(d, "contested") = IF sent = <<>> THEN None ELSE Head(sent)
    BY <1>3 DEF Stands
  <2>5. Stands(m, "contested") = IF P!KeptUnder(sent, had) = <<>> THEN None
                                 ELSE Head(P!KeptUnder(sent, had))
    BY <1>10, <2>2 DEF Stands
  <2> HIDE DEF d, kept, sent, had
  <2>6. CASE sent # <<>>
    <3>1. Head(sent) # None
      BY <2>1, <2>6, Objects
    <3> QED BY <2>4, <2>5, <2>6, <3>1 DEF P!KeptUnder
  <2>7. CASE sent = <<>>
    <3>1. Stands(d, "contested") = None
      BY <2>4, <2>7
    <3>2. had # <<>> => <<Head(had)>> # <<>> /\ Head(<<Head(had)>>) = Head(had)
      OBVIOUS
    <3> QED BY <2>3, <2>5, <2>7, <3>1, <3>2 DEF P!KeptUnder
  <2> QED BY <2>6, <2>7
<1>15. Sourced(p, places, a, sev)
  <2>1. CASE d.severance = None
    BY <1>12, <2>1 DEF Found, sev
  <2>2. CASE d.severance # None
    BY <1>1, <2>2 DEF Come, Sourced, sev
  <2> QED BY <2>1, <2>2
<1>16. Found(p, places, a, m)
  BY <1>9, <1>12, <1>15 DEF Found
<1> QED BY <1>10, <1>13, <1>14, <1>16 DEF Marks, m
-----------------------------------------------------------------------------
(* What a later moment has to have of a host. *)
GoesOn(p, h, s, s2, ack, ack2, places) ==
    /\ DOMAIN s2 = AgentIds
    /\ \A a \in AgentIds :
          /\ s2[a] = s[a] \/ Found(p, places, a, s2[a])
          /\ s[a] # Nothing => s2[a] # Nothing
    /\ \A a \in AgentIds, what \in Marks : <<h, a, what>> \in ack2 =>
          \/ <<h, a, what>> \in ack /\ s2[a] = s[a]
          \/ Stands(s2[a], what) = Genuine(a, what) /\ Vouched(p, a, what)

(* A host that goes on has what it must. *)
LEMMA HostGoesOn ==
    ASSUME NEW p \in ThePlans, NEW h \in Hosts, NEW s, NEW s2, NEW ack, NEW ack2,
           NEW places \in [Terminals -> Nat \ {0}], NEW places2 \in [Terminals -> Nat \ {0}],
           \A t \in Terminals : places[t] <= places2[t],
           HostOK(p, h, s, ack, places), GoesOn(p, h, s, s2, ack, ack2, places2)
    PROVE  HostOK(p, h, s2, ack2, places2)
<1>1. Honours(p, h, s2, ack2)
  BY DEF HostOK, GoesOn, Honours
<1>2. ASSUME NEW a \in AgentIds PROVE Found(p, places2, a, s2[a])
  BY FoundMore DEF HostOK, GoesOn
<1> QED BY <1>1, <1>2 DEF HostOK, GoesOn

(* The host is not asked, and acknowledges nothing of this kind. *)
LEMMA HostStays ==
    ASSUME NEW p, NEW h, NEW s, NEW ack, NEW ack2, NEW places, NEW places2,
           HostOK(p, h, s, ack, places),
           \A a \in AgentIds, what \in Marks : <<h, a, what>> \in ack2 => <<h, a, what>> \in ack
    PROVE  GoesOn(p, h, s, s, ack, ack2, places2)
BY DEF HostOK, GoesOn

(* The bundle of one agent is replaced, and only that. *)
LEMMA HostChanges ==
    ASSUME NEW p, NEW h, NEW s, NEW ack, NEW ack2, NEW places, NEW places2,
           HostOK(p, h, s, ack, places),
           NEW a \in AgentIds, NEW b, b # Nothing, Found(p, places2, a, b),
           \A x \in AgentIds \ {a}, what \in Marks :
              <<h, x, what>> \in ack2 => <<h, x, what>> \in ack,
           \A what \in Marks : <<h, a, what>> \in ack2 =>
              Stands(b, what) = Genuine(a, what) /\ Vouched(p, a, what)
    PROVE  GoesOn(p, h, s, [s EXCEPT ![a] = b], ack, ack2, places2)
<1> DEFINE s2 == [s EXCEPT ![a] = b]
<1>1. DOMAIN s = AgentIds
  BY DEF HostOK
<1>2. DOMAIN s2 = AgentIds /\ s2[a] = b /\ \A x \in AgentIds \ {a} : s2[x] = s[x]
  BY <1>1
<1> HIDE DEF s2
<1>3. GoesOn(p, h, s, s2, ack, ack2, places2)
  BY <1>2 DEF GoesOn
<1> QED BY <1>3 DEF s2

(* The two hosts run the same program. *)
LEMMA SameHost ==
    /\ \A found, body : N!Merged(found, body) = P!Merged(found, body)
    /\ P!Ok = [status |-> 200, duplicate |-> FALSE]
    /\ N!Ok = P!Ok /\ N!Duplicate = P!Duplicate /\ N!NotFound = P!NotFound
BY DEF P!Merged, N!Merged, P!KeptUnder, N!KeptUnder, P!Ok, N!Ok, P!Duplicate, N!Duplicate,
       P!NotFound, N!NotFound

(* The instruction a script is at is one that a script has come to. *)
LEMMA IsCome ==
    ASSUME Places, NEW t \in Terminals, Running(t)
    PROVE  Come(Plan, at, Op(t))
<1>1. at[t] \in DOMAIN Text(t) /\ at[t] \in Nat \ {0}
  BY TheInstruction
<1>2. at[t] <= at[t]
  BY <1>1
<1> QED BY <1>1, <1>2 DEF Come, Op, Text, Plan

(* A PUT hosts its agent, and what is acknowledged still stands there, on   *)
(* its host and on the other.                                               *)
LEMMA HostFactsKeeps ==
    ASSUME Places, HostsOK, PutsOK, NEW t \in Terminals, HostFacts(t), NEW h \in Hosts
    PROVE  /\ GoesOn(Plan, h, StoreOf(h), StoreOf(h)', acked, acked', at)
           /\ h = Op(t).host => StoreOf(h)'[Op(t).body.agent_id] # Nothing
<1> DEFINE o == Op(t)
           a == o.body.agent_id
           s == StoreOf(h)
           r == prior[t]
<1>1. /\ o \in Instruction /\ o \in Written(Plan, "host") /\ Plan \in ThePlans
      /\ o.host \in Hosts /\ a \in AgentIds /\ Running(t)
  BY TheInstruction, ThePlan, Arguments DEF HostFacts, Doing, Places, FactsBundle
<1>2. HostOK(Plan, h, s, acked, at)
  BY DEF HostsOK
<1>3. \A k \in acked' : k = <<o.host, a, "hosted">> \/ (k \in acked /\ k \notin Undone(t))
  BY DEF HostFacts, Answered
<1>4. \A x \in AgentIds, what \in Marks : <<h, x, what>> \in acked' =>
         <<h, x, what>> \in acked /\ <<h, x, what>> \notin Undone(t)
  BY <1>3 DEF Marks
<1>5. CASE h # o.host
  <2>1. StoreOf(h)' = s
    BY <1>1, <1>5 DEF HostFacts, Hosts, StoreOf, phost, nhost
  <2> QED BY <1>2, <1>4, <1>5, <2>1, HostStays
<1>6. CASE h = o.host
  <2> DEFINE m == P!Merged(r, o.body)
  <2>1. StoreOf(h)' = [s EXCEPT ![a] = m]
    BY <1>1, <1>6, SameHost DEF HostFacts, Hosts, StoreOf, P!PutOver, N!PutOver
  <2>2. Found(Plan, at, a, r) /\ Come(Plan, at, o)
    BY <1>1, IsCome DEF PutsOK, HostFacts
  <2>3. /\ m # Nothing /\ Found(Plan, at, a, m)
        /\ \A what \in Marks :
              Stands(m, what) = Stands(IF Stands(o.body, what) # None THEN o.body ELSE r, what)
    <3> HIDE DEF o, r
    <3> QED BY <1>1, <2>2, MergedFound
  <2>4. ASSUME NEW what \in Marks, <<h, a, what>> \in acked'
        PROVE  Stands(m, what) = Genuine(a, what) /\ Vouched(Plan, a, what)
    <3>1. <<h, a, what>> \in acked /\ <<h, a, what>> \notin Undone(t)
      BY <1>1, <1>4, <2>4
    <3>2. Vouched(Plan, a, what)
      BY <1>1, <1>2, <3>1 DEF HostOK, Honours
    <3>3. ~ Undoes(o.body, r, what)
      BY <1>6, <2>4, <3>1 DEF Undone, Marks
    <3> QED BY <2>3, <3>2, <3>3 DEF Undoes
  <2>5. StoreOf(h)'[a] # Nothing
    BY <1>1, <1>2, <2>1, <2>3 DEF HostOK
  <2>6. \A x \in AgentIds \ {a}, what \in Marks :
           <<h, x, what>> \in acked' => <<h, x, what>> \in acked
    BY <1>4
  <2> HIDE DEF m, s, a
  <2>7. GoesOn(Plan, h, s, [s EXCEPT ![a] = m], acked, acked', at)
    BY <1>1, <1>2, <2>3, <2>4, <2>6, HostChanges
  <2> QED BY <2>1, <2>5, <2>7 DEF s, a
<1> QED BY <1>5, <1>6

(* What a POST that is answered 200 acknowledges. *)
LEMMA FiledMarks ==
    ASSUME NEW t, NEW h, NEW a, NEW what, Filed(t, h, a, what)
    PROVE  /\ \A k \in acked' : \/ k \in acked
                                \/ /\ k = <<h, a, what>> /\ reply'.status = 200
                                   /\ Stands(StoreOf(h)[a], what) \in {None, Genuine(a, what)}
           /\ acked \subseteq acked'
BY DEF Filed, Answered, Refused

(* Filing the complaint puts it on file, if it is acknowledged. *)
LEMMA FileComplaintKeeps ==
    ASSUME Places, HostsOK, NEW t \in Terminals, FileComplaint(t), NEW h \in Hosts
    PROVE  GoesOn(Plan, h, StoreOf(h), StoreOf(h)', acked, acked', at)
<1> DEFINE o == Op(t)
           s == StoreOf(h)
           a == Summarizer
           d == s[a]
<1>1. Plan \in ThePlans /\ o.host \in Hosts /\ a \in AgentIds /\ ComplaintId \in ContestationIds
  BY TheInstruction, ThePlan, Arguments, IdentityAssumption, ComplaintAssumption
     DEF FileComplaint, Doing, Places
<1>2. HostOK(Plan, h, s, acked, at)
  BY DEF HostsOK
<1>3. \A k \in acked' : \/ k \in acked
                        \/ /\ k = <<o.host, a, "contested">> /\ reply'.status = 200
                           /\ Stands(StoreOf(o.host)[a], "contested") \in {None, Complaint}
  <2>1. Filed(t, o.host, a, "contested")
    BY DEF FileComplaint, Complaint
  <2>2. Genuine(a, "contested") = Complaint
    BY DEF Genuine
  <2> QED BY <2>1, <2>2, FiledMarks
<1>4. CASE h # o.host
  <2>1. StoreOf(h)' = s
    BY <1>1, <1>4 DEF FileComplaint, Hosts, StoreOf, phost, nhost
  <2>2. \A x \in AgentIds, what \in Marks : <<h, x, what>> \in acked' => <<h, x, what>> \in acked
    BY <1>3, <1>4
  <2> QED BY <1>2, <2>1, <2>2, HostStays
<1>5. CASE h = o.host
  <2> DEFINE b == [d EXCEPT !.contestations[ComplaintId] = Append(@, Complaint)]
  <2>1. \/ /\ d # Nothing /\ d.contestations[ComplaintId] = <<>>
           /\ StoreOf(h)' = [s EXCEPT ![a] = b]
        \/ /\ StoreOf(h)' = s
           /\ reply'.status = 200 => d # Nothing /\ d.contestations[ComplaintId] # <<>>
    <3>1. ComplaintId # None /\ Complaint.agent_id = Summarizer
          /\ Complaint.contestation_id = ComplaintId
      BY ComplaintAssumption DEF Complaint
    <3>2. \/ o.host = "primary" /\ (\/ P!AddContestation(Summarizer, ComplaintId, Complaint)
                                   \/ P!ContestationNotAdded(Summarizer, ComplaintId))
          \/ o.host = "neutral" /\ (\/ N!AddContestation(Summarizer, ComplaintId, Complaint)
                                   \/ N!ContestationNotAdded(Summarizer, ComplaintId))
      BY <3>1 DEF FileComplaint
    <3>3. CASE o.host = "primary"
      BY <1>5, <3>1, <3>2, <3>3
         DEF P!AddContestation, P!ContestationNotAdded, P!Hosted, P!OnFile, P!NotFound, StoreOf
    <3>4. CASE o.host = "neutral"
      BY <1>5, <3>1, <3>2, <3>4
         DEF N!AddContestation, N!ContestationNotAdded, N!Hosted, N!OnFile, N!NotFound, StoreOf
    <3> QED BY <1>1, <3>3, <3>4 DEF Hosts
  <2>2. Found(Plan, at, a, d) /\ Honours(Plan, h, s, acked)
    BY <1>1, <1>2 DEF HostOK
  <2>3. d # Nothing => d \in Stored(Plan, a)
    BY <2>2 DEF Found
  <2>4. d # Nothing => d.contestations[ComplaintId] \in Seq(Contestation)
    BY <1>1, <2>3 DEF Stored, Filings
  <2>5. CASE StoreOf(h)' = s
             /\ (reply'.status = 200 => d # Nothing /\ d.contestations[ComplaintId] # <<>>)
    <3>1. ASSUME NEW x \in AgentIds, NEW what \in Marks, <<h, x, what>> \in acked'
          PROVE  \/ <<h, x, what>> \in acked
                 \/ Stands(s[x], what) = Genuine(x, what) /\ Vouched(Plan, x, what)
      <4> SUFFICES ASSUME <<h, x, what>> \notin acked
                   PROVE  Stands(s[x], what) = Genuine(x, what) /\ Vouched(Plan, x, what)
        OBVIOUS
      <4>1. /\ x = a /\ what = "contested" /\ reply'.status = 200
            /\ Stands(d, "contested") \in {None, Complaint}
        BY <1>3, <1>5, <3>1
      <4>2. Stands(d, "contested") # None
        BY <1>1, <2>4, <2>5, <4>1, StandsIn, Objects
      <4> QED BY <4>1, <4>2 DEF Genuine, Vouched
    <3>2. DOMAIN s = AgentIds
      BY <1>2 DEF HostOK
    <3>3. GoesOn(Plan, h, s, s, acked, acked', at)
      <4> HIDE DEF s
      <4> QED BY <3>1, <3>2 DEF GoesOn
    <3> QED BY <2>5, <3>3
  <2>6. CASE /\ d # Nothing /\ d.contestations[ComplaintId] = <<>>
             /\ StoreOf(h)' = [s EXCEPT ![a] = b]
    <3>1. d = [creds |-> d.creds, contestations |-> d.contestations, severance |-> d.severance]
          /\ d.creds \in CredsOf(Plan, a) /\ d.severance \in Opt(Severance)
          /\ d.contestations \in Filings(ContestationIds)
          /\ d.contestations \in [ContestationIds -> Seq(Contestation)]
      BY <2>3, <2>6 DEF Stored, Filings
    <3> DEFINE f == [d.contestations EXCEPT ![ComplaintId] = <<Complaint>>]
    <3>2. Append(<<>>, Complaint) = <<Complaint>>
      OBVIOUS
    <3>3. b = [creds |-> d.creds, contestations |-> f, severance |-> d.severance]
      <4>1. b = [d EXCEPT !.contestations = f]
        <5> HIDE DEF d
        <5> QED BY <2>6, <3>2
      <4> HIDE DEF b, d, f
      <4> QED BY <3>1, <4>1
    <3>4. <<Complaint>> \in Seq(Contestation)
      BY <1>1, Objects
    <3>5. f \in Filings(ContestationIds) /\ f[ComplaintId] = <<Complaint>>
      <4>1. f \in [ContestationIds -> Seq(Contestation)] /\ f[ComplaintId] = <<Complaint>>
        BY <1>1, <3>1, <3>4
      <4>2. \A i \in ContestationIds \ {ComplaintId} : f[i] = d.contestations[i]
        BY <3>1
      <4>3. DOMAIN <<Complaint>> = {1} /\ <<Complaint>>[1].contestation_id = ComplaintId
        BY DEF Complaint
      <4> HIDE DEF f, d
      <4> QED BY <3>1, <4>1, <4>2, <4>3 DEF Filings
    <3> HIDE DEF f, b, d
    <3>6. b \in Stored(Plan, a) /\ b.severance = d.severance
          /\ b.contestations[ComplaintId] = <<Complaint>>
      BY <3>1, <3>3, <3>5 DEF Stored
    <3>7. b # Nothing
      BY <1>1, <3>6, StoredIsBundle
    <3>8. Stands(b, "severed") = Stands(d, "severed")
      BY <2>6, <3>6, <3>7 DEF Stands
    <3>9. Stands(b, "contested") = Complaint
      <4>1. <<Complaint>> # <<>> /\ Head(<<Complaint>>) = Complaint
        OBVIOUS
      <4> QED BY <3>6, <3>7, <4>1 DEF Stands
    <3>10. Found(Plan, at, a, b)
      BY <2>2, <3>6, <3>8 DEF Found
    <3>11. ASSUME NEW what \in Marks, <<h, a, what>> \in acked'
           PROVE  Stands(b, what) = Genuine(a, what) /\ Vouched(Plan, a, what)
      <4>1. CASE what = "contested"
        BY <3>9, <4>1 DEF Genuine, Vouched
      <4>2. CASE what = "severed"
        <5>1. <<h, a, "severed">> \in acked
          BY <1>3, <3>11, <4>2
        <5>2. Stands(d, "severed") = Genuine(a, "severed") /\ Vouched(Plan, a, "severed")
          BY <1>1, <2>2, <5>1 DEF Honours, Marks, d
        <5> QED BY <3>8, <4>2, <5>2
      <4> QED BY <3>11, <4>1, <4>2 DEF Marks
    <3>12. \A x \in AgentIds \ {a}, what \in Marks :
              <<h, x, what>> \in acked' => <<h, x, what>> \in acked
      BY <1>3
    <3>13. GoesOn(Plan, h, s, [s EXCEPT ![a] = b], acked, acked', at)
      <4> HIDE DEF s
      <4> QED BY <1>1, <1>2, <3>7, <3>10, <3>11, <3>12, HostChanges
    <3> QED BY <2>6, <3>13
  <2> QED BY <2>1, <2>5, <2>6
<1> QED BY <1>4, <1>5

(* Filing an exit puts it on file, if it is acknowledged. *)
LEMMA FileSeveranceKeeps ==
    ASSUME Places, HostsOK, NEW t \in Terminals, FileSeverance(t), NEW h \in Hosts
    PROVE  GoesOn(Plan, h, StoreOf(h), StoreOf(h)', acked, acked', at)
<1> DEFINE o == Op(t)
           s == StoreOf(h)
           a == o.agent
           d == s[a]
<1>1. /\ Plan \in ThePlans /\ o.host \in Hosts /\ o.op = "sever" /\ Running(t)
      /\ a \in AgentIds /\ a \in Severing(Plan)
  BY TheInstruction, ThePlan, Arguments DEF FileSeverance, Doing, Places, Severing
<1>2. HostOK(Plan, h, s, acked, at)
  BY DEF HostsOK
<1>3. \A k \in acked' : \/ k \in acked
                        \/ /\ k = <<o.host, a, "severed">> /\ reply'.status = 200
                           /\ Stands(StoreOf(o.host)[a], "severed") \in {None, ExitOf(a)}
  <2>1. Filed(t, o.host, a, "severed")
    BY DEF FileSeverance
  <2>2. Genuine(a, "severed") = ExitOf(a)
    BY DEF Genuine
  <2> QED BY <2>1, <2>2, FiledMarks
<1>4. CASE h # o.host
  <2>1. StoreOf(h)' = s
    BY <1>1, <1>4 DEF FileSeverance, Hosts, StoreOf, phost, nhost
  <2>2. \A x \in AgentIds, what \in Marks : <<h, x, what>> \in acked' => <<h, x, what>> \in acked
    BY <1>3, <1>4
  <2> QED BY <1>2, <2>1, <2>2, HostStays
<1>5. CASE h = o.host
  <2> DEFINE b == [d EXCEPT !.severance = ExitOf(a)]
  <2>1. \/ d # Nothing /\ StoreOf(h)' = [s EXCEPT ![a] = b]
        \/ /\ StoreOf(h)' = s
           /\ reply'.status = 200 => d # Nothing /\ d.severance # None
    <3>1. CASE o.host = "primary"
      BY <1>5, <3>1
         DEF FileSeverance, P!SetSeverance, P!SeveranceNotSet, P!Hosted, P!Severed, P!NotFound,
             StoreOf
    <3>2. CASE o.host = "neutral"
      BY <1>5, <3>2
         DEF FileSeverance, N!SetSeverance, N!SeveranceNotSet, N!Hosted, N!Severed, N!NotFound,
             StoreOf
    <3> QED BY <1>1, <3>1, <3>2 DEF Hosts
  <2>2. Found(Plan, at, a, d) /\ Honours(Plan, h, s, acked)
    BY <1>1, <1>2 DEF HostOK
  <2>3. d # Nothing => d \in Stored(Plan, a)
    BY <2>2 DEF Found
  <2>4. CASE /\ StoreOf(h)' = s
             /\ reply'.status = 200 => d # Nothing /\ d.severance # None
    <3>1. ASSUME NEW x \in AgentIds, NEW what \in Marks, <<h, x, what>> \in acked'
          PROVE  \/ <<h, x, what>> \in acked
                 \/ Stands(s[x], what) = Genuine(x, what) /\ Vouched(Plan, x, what)
      <4> SUFFICES ASSUME <<h, x, what>> \notin acked
                   PROVE  Stands(s[x], what) = Genuine(x, what) /\ Vouched(Plan, x, what)
        OBVIOUS
      <4>1. /\ x = a /\ what = "severed" /\ reply'.status = 200
            /\ Stands(d, "severed") \in {None, ExitOf(a)}
        BY <1>3, <1>5, <3>1
      <4>2. Stands(d, "severed") # None
        BY <2>4, <4>1 DEF Stands
      <4> QED BY <1>1, <4>1, <4>2 DEF Genuine, Vouched
    <3>2. DOMAIN s = AgentIds
      BY <1>2 DEF HostOK
    <3>3. GoesOn(Plan, h, s, s, acked, acked', at)
      <4> HIDE DEF s
      <4> QED BY <3>1, <3>2 DEF GoesOn
    <3> QED BY <2>4, <3>3
  <2>5. CASE d # Nothing /\ StoreOf(h)' = [s EXCEPT ![a] = b]
    <3>1. ExitOf(a) \in Severance
      BY <1>1, Objects
    <3>2. b \in Stored(Plan, a) /\ b.severance = ExitOf(a) /\ b.contestations = d.contestations
      BY <2>3, <2>5, <3>1 DEF Stored, Opt
    <3> HIDE DEF b, d
    <3>3. b # Nothing
      BY <1>1, <3>2, StoredIsBundle
    <3>4. Stands(b, "severed") = ExitOf(a)
      BY <3>2, <3>3 DEF Stands
    <3>5. Stands(b, "contested") = Stands(d, "contested")
      BY <2>5, <3>2, <3>3 DEF Stands
    <3>6. Found(Plan, at, a, b)
      <4>1. PICK u \in Terminals : \E k \in DOMAIN Plan.texts[u] :
                k <= at[u] /\ Plan.texts[u][k] = o
        BY <1>1, IsCome DEF Come
      <4> QED BY <1>1, <3>2, <3>4, <4>1 DEF Found, Sourced
    <3>7. ASSUME NEW what \in Marks, <<h, a, what>> \in acked'
          PROVE  Stands(b, what) = Genuine(a, what) /\ Vouched(Plan, a, what)
      <4>1. CASE what = "severed"
        BY <1>1, <3>4, <4>1 DEF Genuine, Vouched
      <4>2. CASE what = "contested"
        <5>1. <<h, a, "contested">> \in acked
          BY <1>3, <3>7, <4>2
        <5>2. Stands(d, "contested") = Genuine(a, "contested") /\ Vouched(Plan, a, "contested")
          BY <1>1, <2>2, <5>1 DEF Honours, Marks, d
        <5> QED BY <3>5, <4>2, <5>2
      <4> QED BY <3>7, <4>1, <4>2 DEF Marks
    <3>8. \A x \in AgentIds \ {a}, what \in Marks :
              <<h, x, what>> \in acked' => <<h, x, what>> \in acked
      BY <1>3
    <3>9. GoesOn(Plan, h, s, [s EXCEPT ![a] = b], acked, acked', at)
      <4> HIDE DEF s, a
      <4> QED BY <1>1, <1>2, <3>3, <3>6, <3>7, <3>8, HostChanges
    <3> QED BY <2>5, <3>9
  <2> QED BY <2>1, <2>4, <2>5
<1> QED BY <1>4, <1>5

(* A host that has restarted holds nothing, and is held to nothing. *)
LEMMA RestartedHost ==
    ASSUME NEW p, NEW h, NEW s, NEW ack, NEW places,
           DOMAIN s = AgentIds, \A a \in AgentIds : s[a] = Nothing,
           \A a \in AgentIds, what \in Marks : <<h, a, what>> \notin ack
    PROVE  HostOK(p, h, s, ack, places)
BY DEF HostOK, Honours, Found, Sourced, Stands

(* What a host holds is right for its agent, and what it acknowledged, and  *)
(* nothing has undone, stands there.                                        *)
LEMMA HostsStep ==
    ASSUME ClientOK, Places, PutsOK, HostsOK, [SystemNext]_system
    PROVE  HostsOK'
<1>1. /\ plan' = plan /\ Plan' = Plan /\ Plan \in ThePlans
      /\ at \in [Terminals -> Nat \ {0}] /\ at' \in [Terminals -> Nat \ {0}]
      /\ \A t \in Terminals : at[t] <= at'[t]
  BY PlacesGrow, ThePlan DEF Plan, Places
<1> SUFFICES ASSUME NEW h \in Hosts
             PROVE  HostOK(Plan, h, StoreOf(h)', acked', at')
  BY <1>1 DEF HostsOK
<1>2. HostOK(Plan, h, StoreOf(h), acked, at)
  BY DEF HostsOK
<1>3. ASSUME GoesOn(Plan, h, StoreOf(h), StoreOf(h)', acked, acked', at)
      PROVE  HostOK(Plan, h, StoreOf(h)', acked', at')
  <2>1. HostOK(Plan, h, StoreOf(h)', acked', at)
    BY <1>1, <1>2, <1>3, HostGoesOn
  <2>2. GoesOn(Plan, h, StoreOf(h)', StoreOf(h)', acked', acked', at')
    BY <2>1, HostStays
  <2> QED BY <1>1, <2>1, <2>2, HostGoesOn
<1>4. ASSUME StoreOf(h)' = StoreOf(h),
             \A a \in AgentIds, what \in Marks :
                <<h, a, what>> \in acked' => <<h, a, what>> \in acked
      PROVE  HostOK(Plan, h, StoreOf(h)', acked', at')
  BY <1>2, <1>3, <1>4, HostStays
<1>5. ASSUME UNCHANGED <<pstore, nstore, acked>>
      PROVE  HostOK(Plan, h, StoreOf(h)', acked', at')
  BY <1>4, <1>5 DEF StoreOf
<1>6. ASSUME NEW t \in Terminals, ScriptStep(t)
      PROVE  HostOK(Plan, h, StoreOf(h)', acked', at')
  <2>1. CASE HostFacts(t)
    BY <1>3, <2>1, HostFactsKeeps
  <2>2. CASE FileComplaint(t)
    BY <1>3, <2>2, FileComplaintKeeps
  <2>3. CASE FileSeverance(t)
    BY <1>3, <2>3, FileSeveranceKeeps
  <2>4. CASE RevokeCredential(t)
    <3>1. \A k \in acked' : k \in acked \/ k = <<"index", ProviderVC(Op(t).agent).id, "revoked">>
      BY <2>4 DEF RevokeCredential
    <3> HIDE DEF ProviderVC
    <3> QED BY <1>4, <2>4, <3>1 DEF RevokeCredential, StoreOf, phost, nhost, Marks
  <2>5. CASE LoadFiles(t) \/ SaveFiles(t) \/ RegisterAddr(t) \/ TamperAddr(t) \/ ReadFacts(t)
             \/ GiveVerdict(t)
    BY <1>5, <2>5 DEF LoadFiles, SaveFiles, RegisterAddr, TamperAddr, ReadFacts, GiveVerdict,
                      servers, notes, phost, nhost
  <2> QED BY <1>6, <2>1, <2>2, <2>3, <2>4, <2>5 DEF ScriptStep
<1>7. ASSUME NEW x \in {"index", "primary", "neutral"}, Restart(x)
      PROVE  HostOK(Plan, h, StoreOf(h)', acked', at')
  <2>1. acked' = {k \in acked : k[1] # x}
    BY <1>7 DEF Restart
  <2>2. CASE x = h
    <3>1. StoreOf(h)' = [a \in AgentIds |-> Nothing]
      <4>1. CASE h = "primary"
        BY <1>7, <2>2, <4>1 DEF Restart, P!Restart, StoreOf
      <4>2. CASE h = "neutral"
        BY <1>7, <2>2, <4>2 DEF Restart, N!Restart, StoreOf
      <4> QED BY <4>1, <4>2 DEF Hosts
    <3>2. \A a \in AgentIds, what \in Marks : <<h, a, what>> \notin acked'
      BY <2>1, <2>2
    <3>3. DOMAIN StoreOf(h)' = AgentIds /\ \A a \in AgentIds : StoreOf(h)'[a] = Nothing
      BY <3>1
    <3> QED BY <3>2, <3>3, RestartedHost
  <2>3. CASE x # h
    <3>1. StoreOf(h)' = StoreOf(h)
      <4>1. CASE x = "index"
        BY <1>7, <4>1 DEF Restart, StoreOf, phost, nhost
      <4>2. CASE x = "primary" /\ h = "neutral"
        BY <1>7, <4>2 DEF Restart, StoreOf, nhost
      <4>3. CASE x = "neutral" /\ h = "primary"
        BY <1>7, <4>3 DEF Restart, StoreOf, phost
      <4> QED BY <2>3, <4>1, <4>2, <4>3 DEF Hosts
    <3> QED BY <1>4, <2>1, <3>1
  <2> QED BY <2>2, <2>3
<1>8. CASE \/ \E t \in Terminals : BeginPut(t) \/ Switch(t) \/ RequestLost(t)
           \/ BeginWalk \/ WalkStep \/ FetchFails \/ EndWalk \/ UNCHANGED system
  BY <1>5, <1>8 DEF BeginPut, Switch, RequestLost, BeginWalk, WalkStep, FetchFails, EndWalk, system,
                    servers, notes, phost, nhost
<1> QED BY <1>6, <1>7, <1>8 DEF SystemNext, Finished
-----------------------------------------------------------------------------
(* A PUT in progress goes on while its script waits for the answer. *)
LEMMA PutsStep ==
    ASSUME ClientOK, Places, PutsOK, HostsOK, [SystemNext]_system
    PROVE  PutsOK'
<1>1. /\ plan' = plan /\ Plan' = Plan /\ Plan \in ThePlans
      /\ at \in [Terminals -> Nat \ {0}] /\ at' \in [Terminals -> Nat \ {0}]
      /\ \A t \in Terminals : at[t] <= at'[t]
      /\ \A t \in Terminals : Text(t)' = Text(t)
  BY PlacesGrow, ThePlan DEF Plan, Places, Text
<1> DEFINE Fine(u) == prior'[u] # None =>
                         Doing(u, "host")' /\ Found(Plan, at', Op(u)'.body.agent_id, prior'[u])
<1>2. ASSUME DOMAIN prior' = Terminals, \A u \in Terminals : Fine(u) PROVE PutsOK'
  BY <1>1, <1>2 DEF PutsOK
<1>3. ASSUME NEW u \in Terminals, prior'[u] \in {prior[u], None},
             at'[u] = at[u], outcome'[u] = outcome[u]
      PROVE  Fine(u)
  <2>1. Op(u)' = Op(u) /\ Doing(u, "host")' = Doing(u, "host")
    BY <1>1, <1>3 DEF Op, Doing, Running
  <2> SUFFICES ASSUME prior'[u] # None
               PROVE  Doing(u, "host") /\ Found(Plan, at', Op(u).body.agent_id, prior[u])
    BY <1>3, <2>1
  <2>2. Doing(u, "host") /\ Found(Plan, at, Op(u).body.agent_id, prior[u])
    BY <1>3 DEF PutsOK
  <2> QED BY <1>1, <2>2, FoundMore
<1>4. ASSUME NEW t \in Terminals, Running(t), Moves(t), NEW u \in Terminals \ {t},
             prior'[u] \in {prior[u], None}
      PROVE  Fine(u)
  <2>1. at'[u] = at[u] /\ outcome'[u] = outcome[u]
    BY <1>1, <1>4, MovesPlace
  <2> QED BY <1>3, <1>4, <2>1
<1>5. ASSUME UNCHANGED <<prior, at, outcome>> PROVE PutsOK'
  <2>1. DOMAIN prior' = Terminals
    BY <1>5 DEF PutsOK
  <2>2. \A u \in Terminals : Fine(u)
    BY <1>3, <1>5
  <2> QED BY <1>2, <2>1, <2>2
<1> HIDE DEF Fine
<1>6. ASSUME NEW t \in Terminals, ScriptStep(t) \/ RequestLost(t) PROVE PutsOK'
  <2>1. Running(t) /\ Moves(t)
    BY <1>6, ScriptMoves
  <2>2. \/ HostFacts(t) /\ prior' = [prior EXCEPT ![t] = None]
        \/ prior' = prior /\ (Op(t).op # "host" \/ prior[t] = None)
    BY <1>6
       DEF ScriptStep, HostFacts, LoadFiles, SaveFiles, RegisterAddr, FileComplaint,
           FileSeverance, RevokeCredential, TamperAddr, ReadFacts, GiveVerdict, RequestLost,
           Doing, servers
  <2>3. DOMAIN prior' = Terminals /\ \A u \in Terminals \ {t} : prior'[u] = prior[u]
    BY <2>2 DEF PutsOK
  <2>4. prior'[t] = None
    BY <2>2 DEF PutsOK, Doing
  <2>5. \A u \in Terminals : Fine(u)
    <3>1. Fine(t)
      BY <2>4 DEF Fine
    <3> QED BY <1>4, <2>1, <2>3, <3>1
  <2> QED BY <1>2, <2>3, <2>5
<1>7. CASE EndWalk
  <2>1. Running(active) /\ Moves(active) /\ Op(active).op = "walk" /\ active \in Terminals
    BY <1>7, EndWalkMoves DEF EndWalk, Places
  <2>2. prior' = prior /\ prior[active] = None
    BY <1>7, <2>1 DEF EndWalk, servers, PutsOK, Doing
  <2>3. \A u \in Terminals : Fine(u)
    <3>1. Fine(active)
      BY <2>2 DEF Fine
    <3> QED BY <1>4, <2>1, <2>2, <3>1
  <2> QED BY <1>2, <2>2, <2>3 DEF PutsOK
<1>8. ASSUME NEW s \in {"index", "primary", "neutral"}, Restart(s) PROVE PutsOK'
  <2>1. /\ prior' = [t \in Terminals |-> IF InFlight(t, s) THEN None ELSE prior[t]]
        /\ outcome' = [t \in Terminals |-> IF InFlight(t, s) THEN "stopped" ELSE outcome[t]]
        /\ at' = at
    BY <1>8 DEF Restart
  <2>2. ASSUME NEW u \in Terminals PROVE Fine(u)
    <3>1. CASE InFlight(u, s)
      BY <2>1, <3>1 DEF Fine
    <3>2. CASE ~ InFlight(u, s)
      BY <1>3, <2>1, <3>2
    <3> QED BY <3>1, <3>2
  <2>3. DOMAIN prior' = Terminals
    BY <2>1
  <2> QED BY <1>2, <2>2, <2>3
<1>9. ASSUME NEW t \in Terminals, BeginPut(t) PROVE PutsOK'
  <2> DEFINE h == Op(t).host
             a == Op(t).body.agent_id
  <2>1. /\ Doing(t, "host") /\ UNCHANGED <<plan, at, outcome>>
        /\ prior' = [prior EXCEPT ![t] = StoreOf(h)[a]]
    BY <1>9 DEF BeginPut
  <2>2. DOMAIN prior' = Terminals /\ prior'[t] = StoreOf(h)[a]
        /\ \A u \in Terminals \ {t} : prior'[u] = prior[u]
    BY <2>1 DEF PutsOK
  <2>3. h \in Hosts /\ a \in AgentIds
    BY <2>1, TheInstruction, Arguments DEF Doing, FactsBundle
  <2>4. Found(Plan, at, a, StoreOf(h)[a])
    BY <2>3 DEF HostsOK, HostOK
  <2>5. Op(t)' = Op(t) /\ Doing(t, "host")'
    BY <1>1, <2>1 DEF Op, Doing, Running
  <2>6. Fine(t)
    <3>1. Found(Plan, at', a, prior'[t])
      BY <1>1, <2>1, <2>2, <2>4
    <3> QED BY <2>5, <3>1 DEF Fine
  <2>7. \A u \in Terminals : Fine(u)
    BY <1>3, <2>1, <2>2, <2>6
  <2> QED BY <1>2, <2>2, <2>7
<1>10. CASE \/ \E t \in Terminals : Switch(t)
            \/ BeginWalk \/ WalkStep \/ FetchFails \/ UNCHANGED system
  BY <1>5, <1>10 DEF Switch, BeginWalk, WalkStep, FetchFails, system, servers
<1> QED BY <1>6, <1>7, <1>8, <1>9, <1>10 DEF SystemNext, Finished
-----------------------------------------------------------------------------
(* What was registered stays so as the scripts go on. *)
LEMMA RegisteredMore ==
    ASSUME NEW p \in ThePlans, NEW places \in [Terminals -> Nat \ {0}],
           NEW places2 \in [Terminals -> Nat \ {0}],
           \A t \in Terminals : places[t] <= places2[t],
           NEW n, NEW a, RegisteredBy(p, places, n, a)
    PROVE  RegisteredBy(p, places2, n, a)
<1> DEFINE by(k, t) == /\ p.texts[t][k].op = "register" /\ p.texts[t][k].name = n
                       /\ Signed(p.texts[t][k].addr) = a
<1>1. PICK t \in Terminals : \E k \in DOMAIN p.texts[t] : k <= places[t] /\ by(k, t)
  BY DEF RegisteredBy
<1>2. PICK k \in DOMAIN p.texts[t] : k <= places[t] /\ by(k, t)
  BY <1>1
<1>3. p.texts[t] \in Seq(Instruction)
  BY ScriptsAssumption
<1>4. k <= places2[t]
  BY <1>2, <1>3
<1> QED BY <1>2, <1>4 DEF RegisteredBy

(* A registration puts the entry of its instruction under its name. *)
LEMMA EntriesStep ==
    ASSUME ClientOK, Places, EntriesOK, [SystemNext]_system
    PROVE  EntriesOK'
<1>1. /\ plan' = plan /\ Plan' = Plan /\ Plan \in ThePlans
      /\ at \in [Terminals -> Nat \ {0}] /\ at' \in [Terminals -> Nat \ {0}]
      /\ \A t \in Terminals : at[t] <= at'[t]
  BY PlacesGrow, ThePlan DEF Plan, Places
<1>2. /\ entries \in [Names -> Addrs \cup {Nothing}]
      /\ \A n \in Names : entries[n] # Nothing => RegisteredBy(Plan, at', n, entries[n])
  BY <1>1, RegisteredMore DEF EntriesOK
<1>3. ASSUME UNCHANGED entries PROVE EntriesOK'
  BY <1>1, <1>2, <1>3 DEF EntriesOK
<1>4. ASSUME NEW t \in Terminals, RegisterAddr(t) PROVE EntriesOK'
  <2> DEFINE o == Op(t)
  <2>1. o.name \in Names /\ o \in Written(Plan, "register") /\ o.op = "register"
    BY <1>4, TheInstruction, Arguments DEF RegisterAddr, Doing
  <2>2. Signed(o.addr) \in Addrs
    BY <1>1, <2>1, AddressesAssumption
  <2>3. entries' = [entries EXCEPT ![o.name] = Signed(o.addr)]
    BY <1>4 DEF RegisterAddr, Index!Register
  <2>4. RegisteredBy(Plan, at', o.name, Signed(o.addr))
    <3>1. at[t] \in DOMAIN Plan.texts[t] /\ Plan.texts[t][at[t]] = o /\ at[t] <= at'[t]
      BY <1>1, <1>4, TheInstruction DEF RegisterAddr, Doing, Text, Plan, Op
    <3> HIDE DEF o
    <3> QED BY <2>1, <3>1 DEF RegisteredBy
  <2> HIDE DEF o
  <2>5. entries' \in [Names -> Addrs \cup {Nothing}]
    BY <1>2, <2>1, <2>2, <2>3
  <2>6. \A n \in Names : entries'[n] # Nothing => RegisteredBy(Plan, at', n, entries'[n])
    BY <1>2, <2>1, <2>3, <2>4
  <2> QED BY <1>1, <2>5, <2>6 DEF EntriesOK
<1>5. ASSUME NEW s \in {"index", "primary", "neutral"}, Restart(s) PROVE EntriesOK'
  <2>1. CASE s = "index"
    <3>1. entries' = [n \in Names |-> Nothing]
      BY <1>5, <2>1 DEF Restart, Index!Restart
    <3> QED BY <3>1 DEF EntriesOK
  <2>2. CASE s # "index"
    BY <1>3, <1>5, <2>2 DEF Restart, index
  <2> QED BY <2>1, <2>2
<1>6. ASSUME NEW t \in Terminals, ScriptStep(t) \/ BeginPut(t) \/ Switch(t) \/ RequestLost(t)
      PROVE  EntriesOK'
  BY <1>3, <1>4, <1>6
     DEF ScriptStep, BeginPut, Switch, RequestLost, LoadFiles, SaveFiles, HostFacts, FileComplaint,
         FileSeverance, RevokeCredential, Index!Revoke, TamperAddr, ReadFacts, GiveVerdict,
         servers, index
<1>7. CASE BeginWalk \/ WalkStep \/ FetchFails \/ EndWalk \/ UNCHANGED system
  BY <1>3, <1>7 DEF BeginWalk, WalkStep, FetchFails, EndWalk, system, servers, index
<1> QED BY <1>5, <1>6, <1>7 DEF SystemNext, Finished

(* What revocation of an instruction the index is sent. *)
LEMMA RevocationIsRecord ==
    ASSUME Places, NEW t \in Terminals, RevokeCredential(t)
    PROVE  LET c == ProviderVC(Op(t).agent).id
               r == [credential_id |-> c, issuer_did |-> Op(t).issuer, by |-> Op(t).issuer]
           IN  /\ c \in CredIds /\ r \in Revocation /\ Index!Genuine(r) /\ r # Nothing
               /\ revocations' = [revocations EXCEPT ![c] = r]
               /\ Op(t) \in Written(Plan, "revoke")
<1> DEFINE c == ProviderVC(Op(t).agent).id
           r == [credential_id |-> c, issuer_did |-> Op(t).issuer, by |-> Op(t).issuer]
<1>1. Op(t) \in Written(Plan, "revoke") /\ Op(t).issuer \in Dids /\ Plan \in ThePlans
  BY TheInstruction, Arguments, ThePlan DEF RevokeCredential, Doing, Places
<1>2. c \in CredIds
  BY <1>1, IssuerAssumption
<1> HIDE DEF c
<1>3. Index!Genuine(r) /\ revocations' = [revocations EXCEPT ![c] = r]
  BY DEF RevokeCredential, Index!Revoke, c
<1>4. r \in Revocation
  BY <1>1, <1>2, <1>3 DEF Revocation, Opt, Index!Genuine
<1>5. r # Nothing
  BY <1>4, NothingAssumption
<1> QED BY <1>1, <1>2, <1>3, <1>4, <1>5 DEF c

(* The index keeps genuine revocations, each under its id. *)
LEMMA ListStep ==
    ASSUME Places, ListOK(revocations), [SystemNext]_system
    PROVE  ListOK(revocations')
<1>1. ASSUME UNCHANGED revocations PROVE ListOK(revocations')
  BY <1>1
<1>2. ASSUME NEW t \in Terminals, RevokeCredential(t) PROVE ListOK(revocations')
  <2> DEFINE c == ProviderVC(Op(t).agent).id
             r == [credential_id |-> c, issuer_did |-> Op(t).issuer, by |-> Op(t).issuer]
  <2>1. /\ c \in CredIds /\ r \in Revocation /\ Index!Genuine(r) /\ r.credential_id = c
        /\ revocations' = [revocations EXCEPT ![c] = r]
    BY <1>2, RevocationIsRecord
  <2> HIDE DEF c, r
  <2> DEFINE held == {revocations[x] : x \in CredIds}
  <2>2. DOMAIN revocations = CredIds /\ IsFiniteSet(held)
    BY DEF ListOK
  <2>3. {revocations'[x] : x \in CredIds} \subseteq held \cup {r}
    BY <2>1, <2>2
  <2>4. IsFiniteSet(held \cup {r})
    <3> HIDE DEF held
    <3> QED BY <2>2, FS_AddElement
  <2>5. IsFiniteSet({revocations'[x] : x \in CredIds})
    BY <2>3, <2>4, FS_Subset
  <2> QED BY <2>1, <2>2, <2>5 DEF ListOK
<1>3. ASSUME NEW s \in {"index", "primary", "neutral"}, Restart(s) PROVE ListOK(revocations')
  <2>1. CASE s = "index"
    <3>1. revocations' = [c \in CredIds |-> Nothing]
      BY <1>3, <2>1 DEF Restart, Index!Restart
    <3>2. {revocations'[c] : c \in CredIds} \subseteq {Nothing}
      BY <3>1
    <3>3. IsFiniteSet({revocations'[c] : c \in CredIds})
      BY <3>2, FS_Singleton, FS_Subset
    <3> QED BY <3>1, <3>3 DEF ListOK
  <2>2. CASE s # "index"
    BY <1>1, <1>3, <2>2 DEF Restart, index
  <2> QED BY <2>1, <2>2
<1>4. ASSUME NEW t \in Terminals, ScriptStep(t) \/ BeginPut(t) \/ Switch(t) \/ RequestLost(t)
      PROVE  ListOK(revocations')
  BY <1>1, <1>2, <1>4
     DEF ScriptStep, BeginPut, Switch, RequestLost, LoadFiles, SaveFiles, HostFacts, FileComplaint,
         FileSeverance, RegisterAddr, Index!Register, TamperAddr, ReadFacts, GiveVerdict,
         servers, index
<1>5. CASE BeginWalk \/ WalkStep \/ FetchFails \/ EndWalk \/ UNCHANGED system
  BY <1>1, <1>5 DEF BeginWalk, WalkStep, FetchFails, EndWalk, system, servers, index
<1> QED BY <1>3, <1>4, <1>5 DEF SystemNext, Finished

(* What a PUT undoes is an exit or a complaint. *)
LEMMA UndoneMarks ==
    ASSUME NEW t
    PROVE  \A k \in Undone(t) : k \in acked /\ k[3] # "revoked"
BY DEF Undone

(* What a script's steps other than a revocation do to the marks: only a    *)
(* PUT takes any away, and no revocations.                                  *)
LEMMA ScriptMarks ==
    ASSUME NEW t \in Terminals, ScriptStep(t) \/ BeginPut(t) \/ Switch(t) \/ RequestLost(t),
           ~ RevokeCredential(t)
    PROVE  /\ UNCHANGED revocations
           /\ \A k \in acked' : k \in acked \/ k[3] # "revoked"
           /\ \/ UNCHANGED seen /\ acked \subseteq acked'
              \/ /\ HostFacts(t) /\ acked \ Undone(t) \subseteq acked'
                 /\ seen' = [u \in Terminals |-> seen[u] \ Undone(t)]
<1>1. CASE HostFacts(t)
  <2>1. /\ acked \ Undone(t) \subseteq acked'
        /\ \A k \in acked' : k \in acked \/ k = <<Op(t).host, Op(t).body.agent_id, "hosted">>
    BY <1>1 DEF HostFacts, Answered
  <2>2. /\ UNCHANGED revocations
        /\ seen' = [u \in Terminals |-> seen[u] \ Undone(t)]
    BY <1>1 DEF HostFacts, index
  <2> QED BY <1>1, <2>1, <2>2
<1>2. ASSUME NEW h, NEW a, NEW what \in Marks, Filed(t, h, a, what)
      PROVE  /\ acked \subseteq acked'
             /\ \A k \in acked' : k \in acked \/ k[3] # "revoked"
  BY <1>2, FiledMarks DEF Marks
<1>3. CASE FileComplaint(t)
  BY <1>2, <1>3 DEF FileComplaint, index, Marks
<1>4. CASE FileSeverance(t)
  <2>1. Filed(t, Op(t).host, Op(t).agent, "severed") /\ UNCHANGED <<revocations, seen>>
    BY <1>4 DEF FileSeverance, index
  <2> QED BY <1>2, <2>1 DEF Marks
<1>5. CASE RegisterAddr(t)
  BY <1>5 DEF RegisterAddr, Index!Register
<1>6. CASE \/ LoadFiles(t) \/ SaveFiles(t) \/ TamperAddr(t) \/ ReadFacts(t) \/ GiveVerdict(t)
           \/ BeginPut(t) \/ Switch(t) \/ RequestLost(t)
  BY <1>6 DEF LoadFiles, SaveFiles, TamperAddr, ReadFacts, GiveVerdict, BeginPut, Switch, RequestLost,
              servers, index, notes
<1> QED BY <1>1, <1>3, <1>4, <1>5, <1>6 DEF ScriptStep

(* What was acknowledged of a credential is on the list as its issuer's own *)
(* entry, until the index restarts or another issuer takes the id.          *)
LEMMA MarksStep ==
    ASSUME Places, DOMAIN seen = Terminals, ListOK(revocations), MarksOK,
           [SystemNext]_system, plan' = plan
    PROVE  MarksOK'
<1>1. Plan' = Plan /\ active \in Terminals
  BY DEF Plan, Places
<1>2. ASSUME UNCHANGED revocations,
             \A c \in Opt(CredIds), t \in Terminals :
                RevokedMark(c) \in acked' \cup seen'[t] =>
                    \E u \in Terminals : RevokedMark(c) \in acked \cup seen[u]
      PROVE  MarksOK'
  BY <1>1, <1>2 DEF MarksOK, RevokedMark
<1>3. ASSUME NEW t \in Terminals, RevokeCredential(t) PROVE MarksOK'
  <2> DEFINE i == Op(t).issuer
             c == ProviderVC(Op(t).agent).id
             r == [credential_id |-> c, issuer_did |-> i, by |-> i]
  <2>1. /\ c \in CredIds /\ revocations' = [revocations EXCEPT ![c] = r]
        /\ Op(t) \in Written(Plan, "revoke") /\ DOMAIN revocations = CredIds
    BY <1>3, RevocationIsRecord DEF ListOK
  <2>2. /\ acked' = acked \cup {RevokedMark(c)} \/ acked' = acked \ {RevokedMark(c)}
        /\ i # ProviderIssuer => acked' = acked \ {RevokedMark(c)}
        /\ seen' = [u \in Terminals |-> IF i = ProviderIssuer THEN seen[u]
                                        ELSE seen[u] \ {RevokedMark(c)}]
    BY <1>3 DEF RevokeCredential, RevokedMark
  <2>3. i = ProviderIssuer => r = ProvidersEntry(c)
    BY DEF ProvidersEntry
  <2>4. \E o \in Written(Plan, "revoke") : c = ProviderVC(o.agent).id
    BY <2>1
  <2> HIDE DEF i, c, r
  <2> SUFFICES ASSUME NEW x \in Opt(CredIds), NEW u \in Terminals,
                      RevokedMark(x) \in acked' \cup seen'[u]
               PROVE  Marked(Plan, revocations', x)
    BY <1>1 DEF MarksOK, RevokedMark
  <2>5. CASE x = c
    <3>1. i = ProviderIssuer
      BY <2>2, <2>5
    <3> QED BY <2>1, <2>3, <2>4, <2>5, <3>1 DEF Marked
  <2>6. CASE x # c
    <3>1. RevokedMark(x) # RevokedMark(c)
      BY <2>6 DEF RevokedMark
    <3>2. RevokedMark(x) \in acked \cup seen[u]
      BY <2>2, <3>1
    <3>3. Marked(Plan, revocations, x)
      BY <3>2 DEF MarksOK
    <3> QED BY <2>1, <2>6, <3>3 DEF Marked
  <2> QED BY <2>5, <2>6
<1>4. ASSUME NEW s \in {"index", "primary", "neutral"}, Restart(s) PROVE MarksOK'
  <2>1. /\ acked' = {k \in acked : k[1] # s}
        /\ seen' = [t \in Terminals |-> {k \in seen[t] : k[1] # s}]
        /\ s # "index" => UNCHANGED revocations
    BY <1>4 DEF Restart, index
  <2>2. CASE s = "index"
    <3>1. \A c \in Opt(CredIds), t \in Terminals : RevokedMark(c) \notin acked' \cup seen'[t]
      BY <2>1, <2>2 DEF RevokedMark
    <3> QED BY <3>1 DEF MarksOK, RevokedMark
  <2>3. CASE s # "index"
    <3>1. \A t \in Terminals : acked' \cup seen'[t] \subseteq acked \cup seen[t]
      BY <2>1
    <3> QED BY <1>2, <2>1, <2>3, <3>1
  <2> QED BY <2>2, <2>3
<1>5. ASSUME NEW t \in Terminals, ScriptStep(t) \/ BeginPut(t) \/ Switch(t) \/ RequestLost(t),
             ~ RevokeCredential(t)
      PROVE  MarksOK'
  <2>1. /\ UNCHANGED revocations
        /\ \A k \in acked' : k \in acked \/ k[3] # "revoked"
        /\ \A u \in Terminals : seen'[u] \subseteq seen[u]
    BY <1>5, ScriptMarks
  <2>2. \A c : RevokedMark(c)[3] = "revoked"
    BY DEF RevokedMark
  <2>3. \A c : RevokedMark(c) \in acked' => RevokedMark(c) \in acked
    BY <2>1, <2>2
  <2> QED BY <1>2, <2>1, <2>3
<1>6. CASE BeginWalk \/ WalkStep \/ FetchFails \/ EndWalk \/ UNCHANGED system
  <2>1. UNCHANGED <<revocations, acked>>
    BY <1>6 DEF BeginWalk, WalkStep, FetchFails, EndWalk, system, servers, index, notes
  <2>2. \/ UNCHANGED seen
        \/ \E m \in SUBSET (acked \cup seen[active]) : seen' = [seen EXCEPT ![active] = m]
    BY <1>6 DEF BeginWalk, WalkStep, FetchFails, EndWalk, system, notes
  <2>3. \A t \in Terminals : seen'[t] \subseteq acked \cup seen[t]
    BY <1>1, <2>2
  <2>4. \A c \in Opt(CredIds), t \in Terminals :
           RevokedMark(c) \in acked' \cup seen'[t] => RevokedMark(c) \in acked \cup seen[t]
    BY <2>1, <2>3
  <2> QED BY <1>2, <2>1, <2>4
<1> QED BY <1>3, <1>4, <1>5, <1>6 DEF SystemNext, Finished

(* What a walk is held to was acknowledged, and still is. *)
LEMMA SeenStep ==
    ASSUME Places, SeenAcked, [SystemNext]_system
    PROVE  SeenAcked'
<1>1. /\ active \in Terminals /\ DOMAIN seen = Terminals
      /\ \A t \in Terminals : \A k \in seen[t] : k[3] # "revoked" => k \in acked
  BY DEF Places, SeenAcked
<1>2. ASSUME acked \subseteq acked', UNCHANGED seen PROVE SeenAcked'
  BY <1>1, <1>2 DEF SeenAcked
<1>3. ASSUME NEW t \in Terminals, RevokeCredential(t) PROVE SeenAcked'
  <2> DEFINE own == <<"index", ProviderVC(Op(t).agent).id, "revoked">>
  <2>1. /\ acked' = acked \cup {own} \/ acked' = acked \ {own}
        /\ DOMAIN seen' = Terminals /\ \A u \in Terminals : seen'[u] \subseteq seen[u]
    BY <1>3 DEF RevokeCredential
  <2>2. own[3] = "revoked"
    OBVIOUS
  <2> HIDE DEF own
  <2> QED BY <1>1, <2>1, <2>2 DEF SeenAcked
<1>4. ASSUME NEW t \in Terminals, ScriptStep(t) \/ BeginPut(t) \/ Switch(t) \/ RequestLost(t),
             ~ RevokeCredential(t)
      PROVE  SeenAcked'
  <2>1. CASE UNCHANGED seen /\ acked \subseteq acked'
    BY <1>2, <2>1
  <2>2. CASE /\ acked \ Undone(t) \subseteq acked'
             /\ seen' = [u \in Terminals |-> seen[u] \ Undone(t)]
    BY <1>1, <2>2 DEF SeenAcked
  <2> QED BY <1>4, <2>1, <2>2, ScriptMarks
<1>5. ASSUME NEW s \in {"index", "primary", "neutral"}, Restart(s) PROVE SeenAcked'
  BY <1>1, <1>5 DEF Restart, SeenAcked
<1>6. CASE BeginWalk \/ WalkStep \/ FetchFails \/ EndWalk \/ UNCHANGED system
  <2>1. UNCHANGED acked
    BY <1>6 DEF BeginWalk, WalkStep, FetchFails, EndWalk, system, notes
  <2>2. \/ UNCHANGED seen
        \/ \E m \in SUBSET (acked \cup seen[active]) : seen' = [seen EXCEPT ![active] = m]
    BY <1>6 DEF BeginWalk, WalkStep, FetchFails, EndWalk, system, notes
  <2> QED BY <1>1, <2>1, <2>2 DEF SeenAcked
<1> QED BY <1>3, <1>4, <1>5, <1>6 DEF SystemNext, Finished
-----------------------------------------------------------------------------
(* Nothing that is hosted or registered goes, unless its server restarts. *)
Outlives(h) ==
    \/ h \in outages'
    \/ \A a \in AgentIds : StoreOf(h)[a] # Nothing => StoreOf(h)'[a] # Nothing
StandsIndex ==
    "index" \in outages' \/ \A n \in Names : entries[n] # Nothing => entries'[n] # Nothing

(* A registration puts an address under its name, and takes none away. *)
LEMMA EntryIsSomething ==
    ASSUME Places, EntriesOK, NEW t \in Terminals, RegisterAddr(t)
    PROVE  /\ Op(t).op = "register" /\ StandsIndex
           /\ entries'[Op(t).name] # Nothing
<1> DEFINE o == Op(t)
<1>1. o \in Written(Plan, "register") /\ o.name \in Names /\ Plan \in ThePlans
  BY TheInstruction, Arguments, ThePlan DEF RegisterAddr, Doing, Places
<1>2. Signed(o.addr) \in Addrs
  BY <1>1, AddressesAssumption
<1>3. entries' = [entries EXCEPT ![o.name] = Signed(o.addr)] /\ o.op = "register"
  BY DEF RegisterAddr, Index!Register, Doing
<1> HIDE DEF o
<1>4. \A n \in Names : entries'[n] = IF n = o.name THEN Signed(o.addr) ELSE entries[n]
  BY <1>1, <1>3 DEF EntriesOK
<1> QED BY <1>1, <1>2, <1>3, <1>4, NothingAssumption DEF StandsIndex, o

(* No step takes away what is hosted or registered, but a restart.          *)
LEMMA WorldStands ==
    ASSUME ClientOK, Places, HostsOK, PutsOK, EntriesOK, [SystemNext]_system
    PROVE  /\ outages \subseteq outages'
           /\ StandsIndex /\ \A h \in Hosts : Outlives(h)
<1>1. ASSUME UNCHANGED <<pstore, nstore>> PROVE \A h \in Hosts : Outlives(h)
  BY <1>1 DEF Outlives, StoreOf
<1>2. ASSUME NEW h \in Hosts, GoesOn(Plan, h, StoreOf(h), StoreOf(h)', acked, acked', at)
      PROVE  Outlives(h)
  BY <1>2 DEF Outlives, GoesOn
<1>3. UNCHANGED entries => StandsIndex
  BY DEF StandsIndex
<1>5. ASSUME NEW t \in Terminals, HostFacts(t) \/ FileComplaint(t) \/ FileSeverance(t)
      PROVE  UNCHANGED <<entries, outages>> /\ \A h \in Hosts : Outlives(h)
  BY <1>2, <1>5, HostFactsKeeps, FileComplaintKeeps, FileSeveranceKeeps
     DEF HostFacts, FileComplaint, FileSeverance, index
<1>6. ASSUME NEW t \in Terminals, RegisterAddr(t)
      PROVE  UNCHANGED <<pstore, nstore, outages>> /\ StandsIndex
  BY <1>6, EntryIsSomething DEF RegisterAddr, phost, nhost
<1>7. ASSUME NEW t \in Terminals,
             \/ RevokeCredential(t) \/ LoadFiles(t) \/ SaveFiles(t) \/ TamperAddr(t)
             \/ ReadFacts(t) \/ GiveVerdict(t) \/ BeginPut(t) \/ Switch(t) \/ RequestLost(t)
      PROVE  UNCHANGED <<pstore, nstore, entries, outages>>
  BY <1>7 DEF RevokeCredential, Index!Revoke, LoadFiles, SaveFiles, TamperAddr, ReadFacts,
              GiveVerdict, BeginPut, Switch, RequestLost, servers, index, phost, nhost, notes
<1>8. CASE BeginWalk \/ WalkStep \/ FetchFails \/ EndWalk \/ UNCHANGED system
  <2>1. UNCHANGED <<pstore, nstore, entries, outages>>
    BY <1>8 DEF BeginWalk, WalkStep, FetchFails, EndWalk, system, servers, index, phost,
                nhost, notes
  <2> QED BY <1>1, <1>3, <2>1
<1>9. ASSUME NEW s \in {"index", "primary", "neutral"}, Restart(s)
      PROVE  /\ outages \subseteq outages'
             /\ StandsIndex /\ \A h \in Hosts : Outlives(h)
  <2>1. outages' = outages \cup {s}
    BY <1>9 DEF Restart
  <2>2. CASE s = "index"
    <3>1. UNCHANGED <<pstore, nstore>>
      BY <1>9, <2>2 DEF Restart, phost, nhost
    <3> QED BY <1>1, <2>1, <2>2, <3>1 DEF StandsIndex
  <2>3. CASE s = "primary"
    <3>1. UNCHANGED <<nstore, entries>>
      BY <1>9, <2>3 DEF Restart, nhost, index
    <3> QED BY <1>3, <2>1, <2>3, <3>1 DEF Outlives, StoreOf, Hosts
  <2>4. CASE s = "neutral"
    <3>1. UNCHANGED <<pstore, entries>>
      BY <1>9, <2>4 DEF Restart, phost, index
    <3> QED BY <1>3, <2>1, <2>4, <3>1 DEF Outlives, StoreOf, Hosts
  <2> QED BY <2>2, <2>3, <2>4
<1> QED BY <1>1, <1>3, <1>5, <1>6, <1>7, <1>8, <1>9 DEF SystemNext, Finished, ScriptStep

(* What a script has been through was done, also in its last step. *)
LEMMA ProgressStep ==
    ASSUME ClientOK, Places, HostsOK, PutsOK, EntriesOK, Progress, [SystemNext]_system
    PROVE  Progress'
<1>1. /\ plan' = plan /\ outages \subseteq outages'
      /\ StandsIndex /\ \A h \in Hosts : Outlives(h)
  BY PlacesGrow, WorldStands
<1>2. \A t \in Terminals : Text(t)' = Text(t) /\ Text(t) \in Seq(Instruction)
  BY <1>1, ThePlan DEF Text, Places
<1> DEFINE done(t, k) ==
               /\ Text(t)[k].op = "host" =>
                     \/ Text(t)[k].host \in outages'
                     \/ StoreOf(Text(t)[k].host)'[Text(t)[k].body.agent_id] # Nothing
               /\ Text(t)[k].op = "register" =>
                     "index" \in outages' \/ entries'[Text(t)[k].name] # Nothing
<1>3. ASSUME NEW t \in Terminals, NEW k \in DOMAIN Text(t), k < at[t] PROVE done(t, k)
  <2>1. Text(t)[k] \in Instruction
    BY <1>2
  <2>2. Text(t)[k].op = "register" => done(t, k)
    BY <1>1, <1>3, <2>1, Arguments DEF Progress, StandsIndex
  <2>3. CASE Text(t)[k].op = "host"
    <3> DEFINE h == Text(t)[k].host
               a == Text(t)[k].body.agent_id
    <3>1. h \in Hosts /\ a \in AgentIds
      BY <2>1, <2>3, Arguments DEF FactsBundle
    <3>2. h \in outages \/ StoreOf(h)[a] # Nothing
      BY <1>3, <2>3 DEF Progress
    <3>3. Outlives(h)
      BY <1>1, <3>1
    <3> HIDE DEF h, a
    <3>4. h \in outages' \/ StoreOf(h)'[a] # Nothing
      BY <1>1, <3>1, <3>2, <3>3 DEF Outlives
    <3> QED BY <2>3, <3>4 DEF h, a
  <2> QED BY <2>2, <2>3
<1> SUFFICES ASSUME NEW t \in Terminals, NEW k \in DOMAIN Text(t), k < at'[t],
                    ~ (k < at[t])
             PROVE  done(t, k)
  BY <1>2, <1>3 DEF Progress
<1>4. k \in Nat /\ at[t] \in Nat /\ at[t] < at'[t]
  BY <1>2, PlacesGrow
<1>5. ScriptStep(t) \/ RequestLost(t) \/ (EndWalk /\ t = active)
  <2>1. ASSUME NEW u \in Terminals, ScriptStep(u) \/ RequestLost(u), u # t PROVE FALSE
    <3>1. at'[t] = at[t]
      BY <2>1, ScriptMoves, MovesPlace
    <3> QED BY <1>4, <3>1
  <2>2. ASSUME EndWalk, t # active PROVE FALSE
    <3>1. at'[t] = at[t]
      <4>1. Moves(active) /\ Running(active) /\ active \in Terminals /\ plan' = plan
        BY <1>1, <2>2, EndWalkMoves DEF EndWalk, Places
      <4> QED BY <2>2, <4>1, MovesPlace
    <3> QED BY <1>4, <3>1
  <2>3. ASSUME UNCHANGED at PROVE FALSE
    BY <1>4, <2>3
  <2>4. (\E u \in Terminals : BeginPut(u) \/ Switch(u)) \/ BeginWalk \/ WalkStep \/ FetchFails
        \/ (\E s \in {"index", "primary", "neutral"} : Restart(s)) \/ UNCHANGED system
          => UNCHANGED at
    BY DEF BeginPut, Switch, BeginWalk, WalkStep, FetchFails, Restart, system
  <2> QED BY <2>1, <2>2, <2>3, <2>4 DEF SystemNext, Finished
<1>6. Running(t) /\ Moves(t)
  BY <1>5, ScriptMoves, EndWalkMoves DEF EndWalk
<1>7. k = at[t] /\ Text(t)[k] = Op(t)
  <2>1. at'[t] <= at[t] + 1 /\ at'[t] \in Nat
    BY <1>1, <1>6, MovesPlace
  <2> QED BY <1>4, <2>1 DEF Op
<1>8. CASE Op(t).op = "host"
  <2>1. HostFacts(t) \/ RequestLost(t)
    BY <1>5, <1>8, EndWalkMoves
       DEF ScriptStep, LoadFiles, SaveFiles, RegisterAddr, FileComplaint, FileSeverance,
           RevokeCredential, TamperAddr, ReadFacts, GiveVerdict, Doing
  <2>2. RequestLost(t) => at' = at
    BY DEF RequestLost, End
  <2>3. PICK h \in Hosts : h = Op(t).host
    BY <1>6, <1>8, TheInstruction, Arguments
  <2>4. HostFacts(t)
    BY <1>4, <2>1, <2>2
  <2>5. StoreOf(h)'[Op(t).body.agent_id] # Nothing
    BY <2>3, <2>4, HostFactsKeeps
  <2>6. PICK a : a = Op(t).body.agent_id
    OBVIOUS
  <2>7. Text(t)'[k].host = h /\ Text(t)[k].body.agent_id = a
        /\ Text(t)'[k].body.agent_id = a
    BY <1>2, <1>7, <2>3, <2>6
  <2> QED BY <1>7, <1>8, <2>5, <2>6, <2>7 DEF StoreOf
<1>9. CASE Op(t).op = "register"
  <2>1. RegisterAddr(t) \/ RequestLost(t)
    BY <1>5, <1>9, EndWalkMoves
       DEF ScriptStep, LoadFiles, SaveFiles, HostFacts, FileComplaint, FileSeverance,
           RevokeCredential, TamperAddr, ReadFacts, GiveVerdict, Doing
  <2>2. RequestLost(t) => at' = at
    BY DEF RequestLost, End
  <2>3. entries'[Op(t).name] # Nothing
    BY <1>4, <2>1, <2>2, EntryIsSomething
  <2> QED BY <1>7, <1>9, <2>3
<1> QED BY <1>7, <1>8, <1>9
-----------------------------------------------------------------------------
(* A finite set as a sequence has every element, once. *)
LEMMA SequenceOfSet ==
    ASSUME NEW S, IsFiniteSet(S)
    PROVE  /\ SetToSeq(S) \in [1..Cardinality(S) -> S] /\ SetToSeq(S) \in Seq(S)
           /\ \A x \in S : \E n \in DOMAIN SetToSeq(S) : SetToSeq(S)[n] = x
           /\ \A m, n \in DOMAIN SetToSeq(S) : SetToSeq(S)[m] = SetToSeq(S)[n] => m = n
<1> DEFINE k == Cardinality(S)
           s == SetToSeq(S)
<1>1. k \in Nat /\ ExistsBijection(1..k, S)
  BY FS_CardinalityType
<1>2. \E f \in [1..k -> S] : IsInjective(f)
  BY <1>1 DEF ExistsBijection, Bijection, Injection, IsInjective
<1>3. s \in [1..k -> S] /\ IsInjective(s)
  BY <1>2 DEF SetToSeq
<1> HIDE DEF s
<1>4. s \in Injection(1..k, S)
  BY <1>3 DEF Injection, IsInjective
<1>5. Cardinality(1..k) = k
  <2>1. Cardinality(1..k) = IF 1 > k THEN 0 ELSE k - 1 + 1
    BY <1>1, FS_Interval
  <2> QED BY <1>1, <2>1
<1>6. s \in Surjection(1..k, S)
  BY <1>4, <1>5, FS_Injection, Zenon DEF k
<1>7. \A x \in S : \E n \in 1..k : s[n] = x
  BY <1>6 DEF Surjection
<1>8. s \in Seq(S)
  BY <1>1, <1>3
<1> QED BY <1>3, <1>7, <1>8 DEF IsInjective, s

(* The list the index answers: records, one per id, with every revocation   *)
(* of the provider that stands.                                             *)
LEMMA ListedIsList ==
    ASSUME ListOK(revocations)
    PROVE  /\ Listed \in Seq(Revocation) /\ OneEntryPerId(Listed)
           /\ \A c : Marked(Plan, revocations, c) => Lists(Listed, c)
<1> DEFINE held == {revocations[c] : c \in CredIds}
           S == held \ {Nothing}
<1>1. IsFiniteSet(held) /\ S \subseteq held
  BY DEF ListOK
<1>2. IsFiniteSet(S)
  <2> HIDE DEF held
  <2> QED BY <1>1, FS_Subset
<1>3. /\ S \subseteq Revocation
      /\ \A x, y \in S : x.credential_id = y.credential_id => x = y
  BY DEF ListOK
<1>4. Listed = SetToSeq(S)
  BY DEF Listed
<1>5. \A c : Marked(Plan, revocations, c) => ProvidersEntry(c) \in S
  <2> SUFFICES ASSUME NEW c, Marked(Plan, revocations, c) PROVE ProvidersEntry(c) \in S
    OBVIOUS
  <2>1. c \in CredIds /\ revocations[c] = ProvidersEntry(c)
    BY DEF Marked
  <2>2. ProvidersEntry(c) \in Revocation
    BY <2>1, IssuerAssumption, PolicyAssumption DEF ProvidersEntry, Revocation, Opt
  <2> QED BY <2>1, <2>2, NothingAssumption
<1> HIDE DEF S
<1>6. /\ Listed \in Seq(S) /\ Listed \in [1..Cardinality(S) -> S]
      /\ \A x \in S : \E n \in DOMAIN Listed : Listed[n] = x
      /\ \A m, n \in DOMAIN Listed : Listed[m] = Listed[n] => m = n
  BY <1>2, <1>4, SequenceOfSet
<1>7. Listed \in Seq(Revocation)
  BY <1>3, <1>6
<1>8. \A n \in DOMAIN Listed : Listed[n] \in S
  BY <1>6
<1>9. OneEntryPerId(Listed)
  BY <1>3, <1>6, <1>8 DEF OneEntryPerId
<1> QED BY <1>5, <1>6, <1>7, <1>9 DEF Lists

(* The contestations of a bundle as a list: the first entry of an id comes  *)
(* before the others, so it is the one a client looks at.                   *)
LEMMA FirstInList ==
    ASSUME NEW filed \in Filings(ContestationIds)
    PROVE  /\ InList(filed) \in Seq(Contestation)
           /\ \A i \in ContestationIds : filed[i] # <<>> =>
                 \E n \in FirstOfId(InList(filed)) : InList(filed)[n] = Head(filed[i])
<1> DEFINE ids == {i \in ContestationIds : filed[i] # <<>>}
           more == {{i} \X (2..Len(filed[i])) : i \in ContestationIds}
           first == SetToSeq(ids)
           later == SetToSeq(UNION more)
           heads == [n \in DOMAIN first |-> Head(filed[first[n]])]
           tails == [n \in DOMAIN later |-> filed[later[n][1]][later[n][2]]]
<1>1. IsFiniteSet(ContestationIds) /\ None \notin ContestationIds
  BY ComplaintAssumption
<1>2. \A i \in ContestationIds :
         /\ filed[i] \in Seq(Contestation) /\ Len(filed[i]) \in Nat
         /\ \A n \in 1..Len(filed[i]) :
               filed[i][n] \in Contestation /\ filed[i][n].contestation_id = i
  BY DEF Filings
<1>3. IsFiniteSet(ids)
  BY <1>1, FS_Subset
<1>4. IsFiniteSet(UNION more)
  <2>1. IsFiniteSet(more)
    <3> DEFINE f == [i \in ContestationIds |-> {i} \X (2..Len(filed[i]))]
    <3>1. f \in Surjection(ContestationIds, more)
      BY DEF Surjection
    <3> HIDE DEF f, more
    <3> QED BY <1>1, <3>1, FS_Surjection
  <2>2. \A m \in more : IsFiniteSet(m)
    <3> SUFFICES ASSUME NEW i \in ContestationIds
                 PROVE  IsFiniteSet({i} \X (2..Len(filed[i])))
      OBVIOUS
    <3>1. IsFiniteSet({i}) /\ IsFiniteSet(2..Len(filed[i]))
      <4>1. Len(filed[i]) \in Int /\ 2 \in Int
        BY <1>2
      <4> QED BY <4>1, FS_Singleton, FS_Interval
    <3> QED BY <3>1, FS_Product
  <2> HIDE DEF more
  <2> QED BY <2>1, <2>2, FS_UNION
<1>5. /\ first \in Seq(ids) /\ \A i \in ids : \E n \in DOMAIN first : first[n] = i
      /\ \A m, n \in DOMAIN first : first[m] = first[n] => m = n
  <2> HIDE DEF ids
  <2> QED BY <1>3, SequenceOfSet
<1>6. later \in Seq(UNION more)
  <2> HIDE DEF more
  <2> QED BY <1>4, SequenceOfSet
<1>7. \A n \in DOMAIN later : /\ later[n][1] \in ContestationIds
                              /\ later[n][2] \in 1..Len(filed[later[n][1]])
  <2>1. \A x \in UNION more : x[1] \in ContestationIds /\ x[2] \in 1..Len(filed[x[1]])
    BY <1>2
  <2> HIDE DEF more
  <2> QED BY <1>6, <2>1
<1>8. \A n \in DOMAIN first : first[n] \in ids /\ first[n] \in ContestationIds
  <2> HIDE DEF first
  <2> QED BY <1>5
<1> HIDE DEF first, later, more
<1>9. /\ heads \in Seq(Contestation) /\ DOMAIN heads = DOMAIN first
      /\ \A n \in DOMAIN heads : heads[n].contestation_id = first[n]
  <2>1. DOMAIN first = 1..Len(first) /\ Len(first) \in Nat
    BY <1>5
  <2>2. \A n \in DOMAIN first : heads[n] \in Contestation
                                 /\ heads[n].contestation_id = first[n]
    BY <1>2, <1>8
  <2> QED BY <2>1, <2>2
<1>10. tails \in Seq(Contestation)
  <2>1. DOMAIN later = 1..Len(later) /\ Len(later) \in Nat
    BY <1>6
  <2>2. \A n \in DOMAIN later : tails[n] \in Contestation
    BY <1>2, <1>7
  <2> QED BY <2>1, <2>2
<1>11. InList(filed) = heads \o tails
  BY DEF InList, first, later, more
<1>12. \A n \in DOMAIN first : /\ n \in DOMAIN (heads \o tails)
                               /\ (heads \o tails)[n] = heads[n]
                               /\ \A m \in 1..(n - 1) : m \in DOMAIN first
  <2>1. DOMAIN heads = 1..Len(heads) /\ Len(heads) \in Nat
    BY <1>9
  <2> HIDE DEF heads, tails
  <2> QED BY <1>9, <1>10, <2>1
<1>13. ASSUME NEW i \in ContestationIds, filed[i] # <<>>
       PROVE  \E n \in FirstOfId(heads \o tails) : (heads \o tails)[n] = Head(filed[i])
  <2>1. PICK n \in DOMAIN first : first[n] = i
    BY <1>5, <1>13
  <2>2. heads[n] = Head(filed[i])
    BY <2>1
  <2> HIDE DEF heads, tails
  <2>3. (heads \o tails)[n].contestation_id = i /\ i # None
    BY <1>1, <1>9, <1>12, <2>1
  <2>4. ASSUME NEW m \in 1..(n - 1) PROVE (heads \o tails)[m].contestation_id # i
    <3>1. m \in DOMAIN first /\ m # n
      BY <1>5, <1>12
    <3>2. (heads \o tails)[m].contestation_id = first[m]
      BY <1>9, <1>12, <3>1
    <3> QED BY <1>5, <2>1, <3>1, <3>2
  <2>5. n \in FirstOfId(heads \o tails)
    BY <1>12, <2>3, <2>4 DEF FirstOfId
  <2> QED BY <1>12, <2>2, <2>5
<1>14. heads \o tails \in Seq(Contestation)
  <2> HIDE DEF heads, tails
  <2> QED BY <1>9, <1>10
<1> HIDE DEF heads, tails
<1> QED BY <1>11, <1>13, <1>14
-----------------------------------------------------------------------------
(* A walk that is held to less is led as well. *)
LEMMA LedLess ==
    ASSUME NEW p, NEW c, NEW s, NEW s2, s2 \subseteq s, Led(p, c, s)
    PROVE  Led(p, c, s2)
BY DEF Led

(* A client between walks is led nowhere. *)
LEMMA LedIdle ==
    ASSUME NEW p, NEW c, NEW s, c.addr = None, c.url = None, c.role = None,
           c.pc \in {"idle", "refresh"}
    PROVE  Led(p, c, s)
BY NoRoleAssumption DEF Led, Bound, Fetched, NotSevered, Attested, Corroborated, Accepted

(* What an address offers. *)
LEMMA AddressLeads ==
    ASSUME NEW p \in ThePlans, NEW o \in Written(p, "register"), NEW a, a = Signed(o.addr)
    PROVE  /\ a \in Addrs /\ a.agent_id \in AgentIds
           /\ a.primary_facts_url = Url("primary", a.agent_id)
           /\ a.private_facts_url \in {None, Url("neutral", a.agent_id)}
           /\ a.registry_url \in {None, RegistryUrl(a.agent_id)}
           /\ a.agent_id \in {Summarizer} \cup Severing(p) => a.agent_did = a.agent_id
<1>1. o \in Instruction /\ o.op = "register"
  BY ScriptsAssumption DEF Written
<1>2. o.addr \in AgentAddr
  BY <1>1, Arguments
<1>3. /\ a.agent_id = o.addr.agent_id /\ a.agent_did = o.addr.agent_did
      /\ a.primary_facts_url = o.addr.primary_facts_url
      /\ a.private_facts_url = o.addr.private_facts_url
      /\ a.registry_url = o.addr.registry_url
  BY <1>2 DEF Signed, AgentAddr
<1>4. /\ a \in Addrs /\ o.addr.agent_id \in AgentIds
      /\ o.addr.primary_facts_url = Url("primary", o.addr.agent_id)
      /\ o.addr.private_facts_url \in {None, Url("neutral", o.addr.agent_id)}
      /\ o.addr.registry_url \in {None, RegistryUrl(o.addr.agent_id)}
  BY AddressesAssumption
<1>5. o.addr.agent_id \in {Summarizer} \cup Severing(p)
        => o.addr.agent_did = o.addr.agent_id
  BY IdentityAssumption
<1> QED BY <1>3, <1>4, <1>5

(* The fields of the active client that Led reads. *)
LEMMA ClientFields ==
    /\ Client.addr = addr /\ Client.url = url /\ Client.role = role /\ Client.pc = pc
    /\ Client.configured = configured /\ Client.lastList = lastList
BY DEF Client

(* A terminal that takes over goes where its client was led. *)
LEMMA BecomesClient ==
    ASSUME NEW c, Become(c), NEW p, NEW s, Led(p, c, s)
    PROVE  Led(p, Client', s)
<1>1. /\ Client'.addr = c.addr /\ Client'.url = c.url /\ Client'.role = c.role
      /\ Client'.pc = c.pc /\ Client'.configured = c.configured
      /\ Client'.lastList = c.lastList
  BY DEF Client, Become
<1> QED BY <1>1 DEF Led

(* The active client in a walk: its address was registered, its source is   *)
(* the facts of that address, its list has what it is held to.              *)
LEMMA WalkLed ==
    ASSUME ClientOK, Places, EntriesOK, ListOK(revocations), MarksOK, WalkStep,
           Led(Plan, Client, seen[active])
    PROVE  Led(Plan, Client', seen[active])
<1> USE DEF Bound, Fetched, NotSevered, Attested, Corroborated, Accepted
<1>1. Plan \in ThePlans /\ active \in Terminals
  BY ThePlan DEF Places
<1> DEFINE RegisteredAddr(a) == \E o \in Written(Plan, "register") : a = Signed(o.addr)
           Good(list) == \A i \in Opt(CredIds) : RevokedMark(i) \in seen[active] => Lists(list, i)
           Source(a, u) == u # None => a # None /\ \E h \in Hosts : u = Url(h, a.agent_id)
           Hidden(a, u, r) == r = "neutral" =>
                /\ a # None
                /\ ~ (a.registration_type = "enterprise" /\ a.registry_url # None)
                /\ u = Url("neutral", a.agent_id)
<1>2. /\ addr # None => RegisteredAddr(addr)
      /\ Source(addr, url) /\ Hidden(addr, url, role)
      /\ configured /\ pc \in {"lookup"} \cup Bound => Good(lastList)
  BY ClientFields DEF Led
<1> HIDE DEF RegisteredAddr, Good, Source, Hidden
<1> SUFFICES /\ addr' # None => RegisteredAddr(addr')
             /\ Source(addr', url') /\ Hidden(addr', url', role')
             /\ configured' /\ pc' \in {"lookup"} \cup Bound => Good(lastList')
  <2>1. /\ Client'.addr = addr' /\ Client'.url = url' /\ Client'.role = role'
        /\ Client'.pc = pc' /\ Client'.configured = configured'
        /\ Client'.lastList = lastList'
    BY DEF Client
  <2> QED BY <2>1 DEF Led, RegisteredAddr, Good, Source, Hidden
<1>3. CASE RefreshRevocations(Listed)
  <2>1. Listed \in Seq(Revocation) /\ \A c : Marked(Plan, revocations, c) => Lists(Listed, c)
    BY ListedIsList
  <2>2. Good(Listed)
    BY <1>1, <2>1 DEF Good, MarksOK
  <2>3. Listed # Unreachable
    BY <2>1, NoAnswerAssumption
  <2> QED BY <1>2, <1>3, <2>2, <2>3 DEF RefreshRevocations, walk, client
<1>4. CASE LookupAddr(Lookup(Op(active).name))
  <2>1. url = None /\ role = None /\ pc = "lookup" /\ Doing(active, "walk")
    BY <1>4 DEF LookupAddr, ClientOK, SourceInvariant, Places
  <2>2. Op(active).name \in Names
    BY <1>1, <2>1, TheInstruction, Arguments DEF Doing
  <2>3. \A n \in Names : entries[n] # Nothing => RegisteredAddr(entries[n])
    BY DEF EntriesOK, RegisteredBy, RegisteredAddr, Written
  <2>4. Lookup(Op(active).name) \in Addrs => RegisteredAddr(Lookup(Op(active).name))
    BY <2>2, <2>3, FailureAssumption DEF Lookup
  <2>5. /\ UNCHANGED <<url, role, configured, lastList>>
        /\ pc' \in {"raised", "refused", "select"}
        /\ addr' = addr \/ RegisteredAddr(addr')
    BY <1>4, <2>4 DEF LookupAddr, EndOn, client
  <2>6. Source(addr', url') /\ Hidden(addr', url', role')
    BY <2>1, <2>5, NoRoleAssumption DEF Source, Hidden
  <2> QED BY <1>2, <2>1, <2>5, <2>6
<1>5. CASE SelectFactsUrl \/ FollowRegistry(Routing)
  <2>1. pc = "select" /\ addr # None /\ UNCHANGED <<addr, configured, lastList>>
    BY <1>5 DEF SelectFactsUrl, FollowRegistry, ClientOK, TypeOK, client
  <2>2. PICK o \in Written(Plan, "register") : addr = Signed(o.addr)
    BY <1>2, <2>1 DEF RegisteredAddr
  <2>3. /\ addr.primary_facts_url = Url("primary", addr.agent_id)
        /\ addr.private_facts_url \in {None, Url("neutral", addr.agent_id)}
        /\ addr.registry_url \in {None, RegistryUrl(addr.agent_id)}
    BY <1>1, <2>2, AddressLeads
  <2>4. CASE SelectFactsUrl
    <3>1. \/ UNCHANGED <<url, role>>
          \/ url' # None /\ url' = addr.private_facts_url /\ role' = "neutral" /\ ~ Routed
          \/ url' = addr.primary_facts_url /\ role' = "primary"
      BY <2>4 DEF SelectFactsUrl, GoTo
    <3>2. Source(addr', url') /\ Hidden(addr', url', role')
      BY <1>2, <2>1, <2>3, <3>1 DEF Source, Hidden, Hosts, Routed
    <3> QED BY <1>2, <2>1, <3>2
  <2>5. CASE FollowRegistry(Routing)
    <3>1. \/ UNCHANGED <<url, role>>
          \/ Routed /\ url' = Routing.facts_url /\ role' = "enterprise"
      <4>1. Routing.private_facts_url = None
        BY DEF Routing
      <4> QED BY <2>5, <4>1 DEF FollowRegistry, GoTo
    <3>2. Routed => Routing.facts_url = Url("primary", addr.agent_id)
      BY <2>3 DEF Routed, Routing, RegistryUrl, Url
    <3>3. Source(addr', url') /\ Hidden(addr', url', role')
      BY <1>2, <2>1, <3>1, <3>2 DEF Source, Hidden, Hosts
    <3> QED BY <1>2, <2>1, <3>3
  <2> QED BY <1>5, <2>4, <2>5
<1>6. CASE \/ FetchFacts(Served) \/ CheckSeverance \/ VerifyProvider \/ VerifyAuditor
           \/ EnforceThreshold \/ SurfaceContestations \/ Act(FALSE)
  <2>1. pc \in Bound /\ UNCHANGED <<addr, url, role, configured, lastList>>
    BY <1>6 DEF FetchFacts, CheckSeverance, VerifyProvider, VerifyAuditor, EnforceThreshold,
                SurfaceContestations, Act, client, walk
  <2> QED BY <1>2, <2>1
<1> QED BY <1>3, <1>4, <1>5, <1>6 DEF WalkStep

(* Every client goes to the facts of an address that was registered, with   *)
(* the list its walk is held to.                                            *)
LEMMA LedStep ==
    ASSUME ClientOK, Places, EntriesOK, ListOK(revocations), MarksOK, AllLed,
           DOMAIN seen = Terminals, [SystemNext]_system
    PROVE  AllLed'
<1>1. /\ Plan' = Plan /\ active \in Terminals /\ DOMAIN parked = Terminals
      /\ Led(Plan, Client, seen[active])
      /\ \A t \in Terminals : t # active => Led(Plan, parked[t], seen[t])
  BY PlacesGrow DEF AllLed, Plan, Places
<1>2. ASSUME UNCHANGED clients, \A t \in Terminals : seen'[t] \subseteq seen[t]
      PROVE  AllLed'
  <2>1. Client' = Client /\ active' = active /\ parked' = parked
    BY <1>2 DEF Client, clients, walk, client
  <2> HIDE DEF Client
  <2>2. Led(Plan, Client', seen'[active])
    BY <1>1, <1>2, <2>1, LedLess
  <2>3. \A t \in Terminals : t # active => Led(Plan, parked[t], seen'[t])
    BY <1>1, <1>2, LedLess
  <2> QED BY <1>1, <2>1, <2>2, <2>3 DEF AllLed
<1>3. ASSUME NEW t \in Terminals, NEW c, Activate(t, c), Led(Plan, c, seen[t]), UNCHANGED seen
      PROVE  AllLed'
  <2>1. /\ Become(c) /\ active' = t
        /\ parked' = [parked EXCEPT ![active] = Client, ![t] = NewClient(FALSE)]
    BY <1>3 DEF Activate
  <2>2. Led(Plan, Client', seen[t])
    BY <1>3, <2>1, BecomesClient
  <2> HIDE DEF Client, NewClient
  <2>3. \A u \in Terminals : u # t => parked'[u] = IF u = active THEN Client ELSE parked[u]
    BY <1>1, <2>1
  <2>4. \A u \in Terminals : u # t => Led(Plan, parked'[u], seen[u])
    BY <1>1, <2>3
  <2> QED BY <1>1, <1>3, <2>1, <2>2, <2>4 DEF AllLed
<1>4. ASSUME NEW s, Led(Plan, Client', s), seen' = [seen EXCEPT ![active] = s],
             UNCHANGED <<active, parked>>
      PROVE  AllLed'
  BY <1>1, <1>4 DEF AllLed
<1>5. ASSUME NEW t \in Terminals, ScriptStep(t) \/ BeginPut(t) \/ RequestLost(t) PROVE AllLed'
  <2>1. CASE UNCHANGED clients
    <3>1. \A u \in Terminals : seen'[u] \subseteq seen[u]
      <4>1. CASE RevokeCredential(t)
        BY <4>1 DEF RevokeCredential
      <4>2. CASE ~ RevokeCredential(t)
        BY <1>5, <4>2, ScriptMarks
      <4> QED BY <4>1, <4>2
    <3> QED BY <1>2, <2>1, <3>1
  <2>2. CASE LoadFiles(t)
    <3>1. PICK b \in Op(t).configured : Activate(t, NewClient(b))
      BY <2>2 DEF LoadFiles
    <3>2. Led(Plan, NewClient(b), seen[t])
      BY LedIdle DEF NewClient
    <3>3. UNCHANGED seen
      BY <2>2 DEF LoadFiles, notes
    <3> HIDE DEF NewClient
    <3> QED BY <1>3, <3>1, <3>2, <3>3
  <2> QED BY <1>5, <2>1, <2>2, ScriptMoves, BeginReads
<1>6. ASSUME NEW t \in Terminals, Switch(t) PROVE AllLed'
  BY <1>1, <1>3, <1>6 DEF Switch, notes
<1>7. CASE BeginWalk
  <2>1. /\ seen' = [seen EXCEPT ![active] = acked] /\ UNCHANGED <<active, parked>>
        /\ addr' = None /\ url' = None /\ role' = None /\ pc' = "refresh"
    BY <1>7 DEF BeginWalk, Start
  <2>2. Client'.addr = None /\ Client'.url = None /\ Client'.role = None
        /\ Client'.pc = "refresh"
    BY <2>1 DEF Client
  <2> HIDE DEF Client
  <2> QED BY <1>4, <2>1, <2>2, LedIdle
<1>8. CASE WalkStep
  <2>1. Led(Plan, Client', seen[active])
    BY <1>1, <1>8, WalkLed
  <2>2. UNCHANGED <<active, parked, seen>>
    BY <1>8 DEF WalkStep, notes
  <2> QED BY <1>1, <2>1, <2>2 DEF AllLed
<1>9. CASE FetchFails
  <2> USE DEF Bound, Fetched, NotSevered, Attested, Corroborated, Accepted
  <2>1. /\ UNCHANGED <<active, parked, addr, url, role, configured, lastList>>
        /\ \/ seen' = [seen EXCEPT ![active] = {k \in @ : k[1] # "index"}]
           \/ UNCHANGED seen /\ pc' \in {"refused", "raised"}
    BY <1>9, FailureAssumption DEF FetchFails, RefreshRevocations, LookupAddr, FollowRegistry, FetchFacts,
                EndOn, client, walk
  <2>2. /\ Client'.addr = Client.addr /\ Client'.url = Client.url
        /\ Client'.role = Client.role /\ Client'.pc = pc'
    BY <2>1 DEF Client
  <2>3. CASE seen' = [seen EXCEPT ![active] = {k \in @ : k[1] # "index"}]
    <3> DEFINE m == {k \in seen[active] : k[1] # "index"}
    <3>1. \A i : RevokedMark(i) \notin m
      BY DEF RevokedMark
    <3> HIDE DEF m
    <3>2. Led(Plan, Client', m)
      BY <1>1, <2>2, <3>1 DEF Led
    <3>3. seen' = [seen EXCEPT ![active] = m]
      BY <2>3 DEF m
    <3> QED BY <1>4, <2>1, <3>2, <3>3
  <2>4. CASE UNCHANGED seen /\ pc' \in {"refused", "raised"}
    <3>1. Led(Plan, Client', seen[active])
      BY <1>1, <2>2, <2>4 DEF Led
    <3> QED BY <1>1, <2>1, <2>4, <3>1 DEF AllLed
  <2> QED BY <2>1, <2>3, <2>4
<1>10. CASE EndWalk
  <2> DEFINE c == [NewClient(configured) EXCEPT !.live = live, !.lastList = lastList]
  <2>1. /\ Become(c) /\ UNCHANGED <<active, parked>>
        /\ seen' = [seen EXCEPT ![active] = {}]
    BY <1>10 DEF EndWalk
  <2>2. c.addr = None /\ c.url = None /\ c.role = None /\ c.pc = "idle"
    BY DEF NewClient
  <2> HIDE DEF c
  <2>3. Led(Plan, Client', {})
    BY <2>1, <2>2, LedIdle, BecomesClient
  <2> QED BY <1>4, <2>1, <2>3
<1>11. ASSUME NEW s \in {"index", "primary", "neutral"}, Restart(s) PROVE AllLed'
  BY <1>2, <1>11 DEF Restart
<1>12. CASE UNCHANGED system
  BY <1>2, <1>12 DEF system, notes
<1> QED BY <1>5, <1>6, <1>7, <1>8, <1>9, <1>10, <1>11, <1>12 DEF SystemNext, Finished
-----------------------------------------------------------------------------
(* What a host answers is what it holds of the agent that the address names. *)
LEMMA ServedFacts ==
    ASSUME ClientOK, Places, HostsOK, SeenAcked, AllLed, pc = "fetch", Served \in Bundles
    PROVE  /\ [provider_vc |-> Served.provider_vc, auditor_vc |-> Served.auditor_vc]
                 \in CredsOf(Plan, addr.agent_id)
           /\ Sourced(Plan, at, addr.agent_id, Served.severance)
           /\ <<url[1], addr.agent_id, "severed">> \in seen[active] =>
                 /\ addr.agent_id \in Severing(Plan)
                 /\ Served.severance = ExitOf(addr.agent_id)
           /\ <<url[1], addr.agent_id, "contested">> \in seen[active] =>
                 /\ addr.agent_id = Summarizer
                 /\ \E n \in FirstOfId(Served.contestations) :
                       Served.contestations[n] = Complaint
<1>1. Plan \in ThePlans /\ active \in Terminals
  BY ThePlan DEF Places
<1>2. url # None
  BY DEF ClientOK, SourceInvariant
<1>3. /\ addr # None => \E o \in Written(Plan, "register") : addr = Signed(o.addr)
      /\ addr # None /\ \E h \in Hosts : url = Url(h, addr.agent_id)
  BY <1>2, ClientFields DEF AllLed, Led
<1>4. PICK h \in Hosts : url = Url(h, addr.agent_id)
  BY <1>3
<1>5. PICK a : a = addr.agent_id
  OBVIOUS
<1>6. a \in AgentIds
  BY <1>1, <1>3, <1>5, AddressLeads
<1>7. url[1] = h /\ url[2] = a
  BY <1>4, <1>5 DEF Url
<1> DEFINE b == StoreOf(h)[a]
<1>8. b = IF url[1] = "primary" THEN pstore[url[2]] ELSE nstore[url[2]]
  BY <1>7 DEF StoreOf
<1>9. /\ b # Nothing
      /\ Served = [severance |-> b.severance, provider_vc |-> b.creds.provider_vc,
                   auditor_vc |-> b.creds.auditor_vc,
                   contestations |-> InList(b.contestations)]
  <2> HIDE DEF b
  <2> QED BY <1>8, FailureAssumption DEF Served
<1>10. HostOK(Plan, h, StoreOf(h), acked, at)
  BY DEF HostsOK
<1>11. b \in Stored(Plan, a) /\ Sourced(Plan, at, a, Stands(b, "severed"))
  BY <1>6, <1>9, <1>10 DEF HostOK, Found
<1>12. \A what \in Marks : <<h, a, what>> \in seen[active] =>
          Stands(b, what) = Genuine(a, what) /\ Vouched(Plan, a, what)
  <2> SUFFICES ASSUME NEW what \in Marks, <<h, a, what>> \in seen[active]
               PROVE  Stands(b, what) = Genuine(a, what) /\ Vouched(Plan, a, what)
    OBVIOUS
  <2>1. <<h, a, what>> \in acked
    BY <1>1 DEF SeenAcked, Marks
  <2> QED BY <1>6, <1>10, <2>1 DEF HostOK, Honours
<1>13. /\ <<h, a, "severed">> \in seen[active] => a \in Severing(Plan) /\ b.severance = ExitOf(a)
       /\ Sourced(Plan, at, a, b.severance)
  BY <1>9, <1>11, <1>12 DEF Stands, Genuine, Vouched, Marks
<1>14. ASSUME <<h, a, "contested">> \in seen[active]
       PROVE  /\ a = Summarizer
              /\ \E n \in FirstOfId(InList(b.contestations)) :
                    InList(b.contestations)[n] = Complaint
  <2>1. Stands(b, "contested") = Complaint /\ a = Summarizer
    BY <1>12, <1>14 DEF Genuine, Vouched, Marks
  <2>2. Complaint # None
    BY <1>1, Objects
  <2>3. /\ b.contestations[ComplaintId] # <<>>
        /\ Head(b.contestations[ComplaintId]) = Complaint
    BY <1>9, <2>1, <2>2 DEF Stands
  <2>4. b.contestations \in Filings(ContestationIds) /\ ComplaintId \in ContestationIds
    BY <1>11, ComplaintAssumption DEF Stored
  <2> HIDE DEF b
  <2> QED BY <2>1, <2>3, <2>4, FirstInList
<1>15. [provider_vc |-> b.creds.provider_vc, auditor_vc |-> b.creds.auditor_vc]
          \in CredsOf(Plan, a)
  <2>1. b.creds \in CredsOf(Plan, a)
    BY <1>11 DEF Stored
  <2>2. b.creds = [provider_vc |-> b.creds.provider_vc, auditor_vc |-> b.creds.auditor_vc]
    BY <1>1, <2>1, TheCreds
  <2> QED BY <2>1, <2>2
<1> HIDE DEF b
<1> QED BY <1>5, <1>7, <1>9, <1>13, <1>14, <1>15

(* The facts of a walk have what they must have: the host had it when it    *)
(* answered, and what a walk has fetched nobody changes.                    *)
LEMMA FactsStep ==
    ASSUME ClientOK, Places, HostsOK, SeenAcked, AllLed, FactsOK, [SystemNext]_system
    PROVE  FactsOK'
<1> USE DEF Final, Fetched, NotSevered, Attested, Corroborated, Accepted, Early
<1>1. Plan' = Plan /\ active \in Terminals
  BY PlacesGrow DEF Plan, Places
<1>2. ASSUME bundle' = None PROVE FactsOK'
  BY <1>2 DEF FactsOK
<1>3. pc \in Early => bundle = None
  BY DEF ClientOK, SourceInvariant
<1>4. ASSUME Quiet, UNCHANGED clients PROVE FactsOK'
  BY <1>2, <1>3, <1>4 DEF Quiet, clients, walk
<1>5. ASSUME NEW t \in Terminals, ScriptStep(t) \/ BeginPut(t) \/ RequestLost(t)
      PROVE  FactsOK'
  <2>1. Quiet
    BY <1>5, ScriptMoves, BeginReads
  <2>2. CASE UNCHANGED clients
    BY <1>4, <2>1, <2>2
  <2>3. CASE LoadFiles(t)
    <3>1. PICK b \in Op(t).configured : Activate(t, NewClient(b))
      BY <2>3 DEF LoadFiles
    <3>2. bundle' = None
      BY <3>1 DEF Activate, Become, NewClient
    <3> QED BY <1>2, <3>2
  <2> QED BY <1>5, <2>2, <2>3, ScriptMoves, BeginReads
<1>6. ASSUME NEW t \in Terminals, Switch(t) PROVE FactsOK'
  <2>1. bundle' = parked[t].bundle
    BY <1>6 DEF Switch, Activate, Become
  <2>2. parked[t].bundle = None
    BY DEF Places, Parkable
  <2> QED BY <1>2, <2>1, <2>2
<1>7. CASE BeginWalk
  <2>1. bundle' = None
    BY <1>7 DEF BeginWalk, Start
  <2> QED BY <1>2, <2>1
<1>8. CASE WalkStep
  <2>1. UNCHANGED <<seen, active, at>>
    BY <1>8 DEF WalkStep, notes
  <2>2. CASE pc \in Fetched
    <3>1. UNCHANGED <<addr, url, bundle>>
      BY <1>8, <2>2 DEF WalkStep, RefreshRevocations, LookupAddr, SelectFactsUrl, FollowRegistry,
                  FetchFacts, CheckSeverance, VerifyProvider, VerifyAuditor, EnforceThreshold,
                  SurfaceContestations, Act, walk
    <3> QED BY <1>1, <2>1, <2>2, <3>1 DEF FactsOK, CredsServed
  <2>3. CASE FetchFacts(Served)
    <3>1. CASE Served \in Bundles
      <4>1. pc = "fetch" /\ bundle' = Served /\ UNCHANGED <<addr, url>>
        BY <2>3, <3>1, FailureAssumption DEF FetchFacts
      <4>2. addr # None
        BY <4>1 DEF ClientOK, TypeOK, Bound
      <4> QED BY <1>1, <2>1, <3>1, <4>1, <4>2, ServedFacts DEF FactsOK, CredsServed
    <3>2. CASE Served \notin Bundles
      <4>1. pc = "fetch" /\ UNCHANGED bundle
        BY <2>3, <3>2 DEF FetchFacts
      <4> QED BY <1>2, <1>3, <4>1
    <3> QED BY <3>1, <3>2
  <2>4. CASE pc \notin Fetched /\ ~ FetchFacts(Served)
    <3>1. pc \in Early /\ UNCHANGED bundle
      BY <1>8, <2>4 DEF WalkStep, RefreshRevocations, LookupAddr, SelectFactsUrl, FollowRegistry,
                  CheckSeverance, VerifyProvider, VerifyAuditor, EnforceThreshold,
                  SurfaceContestations, Act, walk
    <3> QED BY <1>2, <1>3, <3>1
  <2> QED BY <2>2, <2>3, <2>4
<1>9. CASE FetchFails
  <2>1. pc \in Early /\ UNCHANGED bundle
    BY <1>9, FailureAssumption
       DEF FetchFails, RefreshRevocations, LookupAddr, FollowRegistry, FetchFacts, walk
  <2> QED BY <1>2, <1>3, <2>1
<1>10. CASE EndWalk
  <2>1. bundle' = None
    BY <1>10 DEF EndWalk, Become, NewClient
  <2> QED BY <1>2, <2>1
<1>11. ASSUME NEW s \in {"index", "primary", "neutral"}, Restart(s) PROVE FactsOK'
  BY <1>4, <1>11 DEF Restart
<1>12. CASE UNCHANGED system
  BY <1>1, <1>12 DEF FactsOK, CredsServed, system, clients, notes, walk
<1> QED BY <1>5, <1>6, <1>7, <1>8, <1>9, <1>10, <1>11, <1>12 DEF SystemNext, Finished
-----------------------------------------------------------------------------
(* Before anything is hosted, registered or acknowledged. *)
LEMMA InitInv ==
    ASSUME SystemInit
    PROVE  Inv
<1> USE DEF SystemInit, Init
<1>1. /\ Plan \in ThePlans /\ Plan.faults \in Nat
      /\ \A t \in Terminals : Text(t) \in Seq(Instruction)
  BY ThePlan
<1>2. active \in Terminals
  BY TerminalsAssumption
<1>3. /\ configured \in BOOLEAN /\ live = {} /\ lastList = <<>> /\ pc = "idle"
      /\ addr = None /\ url = None /\ role = None
  OBVIOUS
<1>4. ClientOK
  <2>1. TypeOK
    BY TypeInit
  <2>2. LiveOf(<<>>) = {}
    BY DEF LiveOf, Named
  <2>3. WalkInvariant
    BY <2>2 DEF WalkInvariant, Bound, Fetched, NotSevered, Attested, Corroborated,
                Accepted, Final
  <2>4. SourceInvariant
    BY DEF SourceInvariant, Fetched, NotSevered, Attested, Corroborated, Accepted
  <2>5. SurfacedHaveStanding /\ FirstSurfaced
    BY DEF SurfacedHaveStanding, FirstSurfaced
  <2> QED BY <2>1, <2>3, <2>4, <2>5 DEF ClientOK
<1>5. Places
  <2>1. at \in [Terminals -> Nat \ {0}] /\ outcome \in [Terminals -> Outcomes]
    BY DEF Outcomes
  <2>2. \A t \in Terminals : Running(t) => at[t] \in DOMAIN Text(t)
    <3> SUFFICES ASSUME NEW t \in Terminals, Running(t) PROVE at[t] \in DOMAIN Text(t)
      OBVIOUS
    <3>1. Text(t) # <<>> /\ Text(t) \in Seq(Instruction) /\ at[t] = 1
      BY <1>1 DEF Running
    <3> QED BY <3>1
  <2>3. /\ DOMAIN parked = Terminals /\ parked[active] = NewClient(FALSE)
        /\ \A t \in Terminals : parked[t] = NewClient(FALSE)
    BY <1>2
  <2>4. Parkable(NewClient(FALSE)) /\ NewClient(FALSE).pc = "idle"
    BY NewParkable DEF NewClient
  <2>5. spent \in 0..Plan.faults /\ plan \in DOMAIN Plans /\ pc = "idle"
    BY <1>1
  <2> HIDE DEF SystemInit, Init, Parkable, NewClient
  <2> QED BY <1>2, <2>1, <2>2, <2>3, <2>4, <2>5 DEF Places
<1>6. HostsOK
  <2>1. pstore = [a \in AgentIds |-> Nothing] /\ nstore = [a \in AgentIds |-> Nothing]
        /\ acked = {}
    BY DEF P!Init, N!Init
  <2> SUFFICES ASSUME NEW h \in Hosts PROVE HostOK(Plan, h, StoreOf(h), acked, at)
    BY DEF HostsOK
  <2>2. StoreOf(h) = [a \in AgentIds |-> Nothing]
    BY <2>1 DEF StoreOf
  <2>3. DOMAIN StoreOf(h) = AgentIds /\ \A a \in AgentIds : StoreOf(h)[a] = Nothing
    BY <2>2
  <2> HIDE DEF SystemInit, Init
  <2> QED BY <2>1, <2>3, RestartedHost
<1>7. IndexOK
  <2>1. entries = [n \in Names |-> Nothing] /\ revocations = [c \in CredIds |-> Nothing]
        /\ acked = {} /\ \A t \in Terminals : seen[t] = {}
    BY DEF Index!Init
  <2>2. IsFiniteSet({revocations[c] : c \in CredIds})
    <3>1. IsFiniteSet({Nothing}) /\ {revocations[c] : c \in CredIds} \subseteq {Nothing}
      BY <2>1, FS_Singleton
    <3> QED BY <3>1, FS_Subset
  <2> QED BY <2>1, <2>2 DEF IndexOK, EntriesOK, ListOK, MarksOK
<1>8. Progress
  BY <1>1 DEF Progress
<1>9. SeenAcked
  BY DEF SeenAcked
<1>10. AllLed
  <2>1. Led(Plan, Client, seen[active])
    <3>1. Client.addr = None /\ Client.url = None /\ Client.role = None /\ Client.pc = "idle"
      BY <1>3, ClientFields
    <3> HIDE DEF Client
    <3> QED BY <3>1, LedIdle
  <2>2. \A t \in Terminals : Led(Plan, parked[t], seen[t])
    <3>1. \A t \in Terminals : parked[t] = NewClient(FALSE)
      OBVIOUS
    <3>2. /\ NewClient(FALSE).addr = None /\ NewClient(FALSE).url = None
          /\ NewClient(FALSE).role = None /\ NewClient(FALSE).pc = "idle"
      BY DEF NewClient
    <3> HIDE DEF SystemInit
    <3> QED BY <3>1, <3>2, LedIdle
  <2> QED BY <2>1, <2>2 DEF AllLed
<1>11. FactsOK
  BY DEF FactsOK
<1>12. PutsOK
  BY DEF PutsOK
<1> QED BY <1>4, <1>5, <1>6, <1>7, <1>8, <1>9, <1>10, <1>11, <1>12 DEF Inv

(* Every step of the system keeps the invariant, part by part. *)
LEMMA InvStep ==
    ASSUME Inv, [SystemNext]_system
    PROVE  Inv'
<1>1. /\ ClientOK /\ Places /\ HostsOK /\ PutsOK /\ IndexOK /\ Progress /\ SeenAcked
      /\ AllLed /\ FactsOK
  BY DEF Inv
<1>2. EntriesOK /\ ListOK(revocations) /\ MarksOK /\ DOMAIN seen = Terminals
  BY <1>1 DEF IndexOK, SeenAcked
<1>3. plan' = plan
  BY <1>1, PlacesGrow
<1>4. ClientOK' /\ Places'
  BY <1>1, PlacesStep
<1>5. HostsOK' /\ PutsOK'
  BY <1>1, HostsStep, PutsStep
<1>6. IndexOK'
  BY <1>1, <1>2, <1>3, EntriesStep, ListStep, MarksStep DEF IndexOK
<1>7. Progress'
  BY <1>1, <1>2, ProgressStep
<1>8. SeenAcked'
  BY <1>1, SeenStep
<1>9. AllLed'
  BY <1>1, <1>2, LedStep
<1>10. FactsOK'
  BY <1>1, FactsStep
<1> QED BY <1>4, <1>5, <1>6, <1>7, <1>8, <1>9, <1>10 DEF Inv

(* The inductive invariant of the system. *)
THEOREM SystemInvariance == SystemSpec => []Inv
BY InitInv, InvStep, PTL DEF SystemSpec
-----------------------------------------------------------------------------
(* The types of the system, and that no terminal is both active and parked. *)
THEOREM SystemTypeCorrect == SystemSpec => []SystemTypeOK
<1>1. ASSUME Inv PROVE SystemTypeOK
  <2>1. ClientOK /\ Places /\ PutsOK /\ EntriesOK /\ ListOK(revocations)
    BY <1>1 DEF Inv, IndexOK
  <2>2. at \in [Terminals -> Nat]
    BY <2>1 DEF Places
  <2> QED BY <2>1, <2>2 DEF SystemTypeOK, ClientOK, Places, PutsOK, EntriesOK, ListOK, Plan
<1> QED BY <1>1, SystemInvariance, PTL

(* The address of a walk that has one was registered. *)
LEMMA TheAddress ==
    ASSUME Inv, pc \in Bound \/ addr # None
    PROVE  \E o \in Written(Plan, "register") : addr = Signed(o.addr)
<1>1. addr # None
  BY DEF Inv, ClientOK, TypeOK
<1> QED BY <1>1, ClientFields DEF Inv, AllLed, Led

(* An exit acknowledged before the walk, by the host that answers it, stops *)
(* it: the answer has that exit, and it verifies against the address.       *)
LEMMA ExitHoldsNow ==
    ASSUME Inv
    PROVE  ExitHolds
<1> SUFFICES ASSUME pc = "resolved", <<url[1], addr.agent_id, "severed">> \in seen[active]
             PROVE  FALSE
  BY DEF ExitHolds
<1> DEFINE a == addr.agent_id
<1>1. a \in Severing(Plan) /\ bundle.severance = ExitOf(a)
  BY DEF Inv, ClientOK, TypeOK, FactsOK, Fetched, NotSevered, Attested, Corroborated,
              Accepted
<1>2. PICK o \in Written(Plan, "register") : addr = Signed(o.addr)
  BY TheAddress
     DEF Bound, Fetched, NotSevered, Attested, Corroborated, Accepted
<1>3. Plan \in ThePlans
  BY ThePlan DEF Inv, Places
<1>4. a \in AgentIds /\ addr.agent_did = a
  BY <1>1, <1>2, <1>3, AddressLeads
<1>5. ~ VerifySeverance(bundle.severance, addr.agent_did, a)
  BY FailsClosedNow DEF Inv, ClientOK, FailClosed, RestsOnVerified
<1>6. a \in WellFormed
  BY <1>1, <1>3, IdentityAssumption
<1>7. ExitOf(a) # None
  BY <1>1, <1>3, <1>4, Objects, NoObjectAssumption
<1>8. VerifySeverance(ExitOf(a), a, a)
  <2> HIDE DEF a
  <2> QED BY <1>6, <1>7 DEF VerifySeverance, SignedBy, ExitOf
<1> QED BY <1>1, <1>4, <1>5, <1>8

(* No walk that begins after a host has acknowledged an exit, and that this *)
(* host answers, resolves the exited identity.                              *)
THEOREM ExitsHold == SystemSpec => []ExitHolds
BY ExitHoldsNow, SystemInvariance, PTL

(* What the provider has revoked on a list that has one entry per id does   *)
(* not verify against this list.                                            *)
LEMMA ListedIsRefused ==
    ASSUME Inv, pc = "resolved", NEW c \in {provider, auditor} \ {None},
           Marked(Plan, revocations, c.id), Lists(lastList, c.id)
    PROVE  FALSE
<1> USE DEF Fetched, NotSevered, Attested, Corroborated, Accepted
<1>1. TypeOK /\ FactsOK /\ FailClosed
  BY FailsClosedNow DEF Inv, ClientOK
<1>2. c \in OwnCredential(Plan)
  <2>1. Plan \in ThePlans
    BY ThePlan DEF Inv, Places
  <2> QED BY <1>1, <2>1, TheCreds
        DEF TypeOK, FactsOK, CredsServed, FailClosed, RestsOnVerified
<1>3. c.id \in CredIds /\ c.issuer = ProviderIssuer
  BY <1>2 DEF Marked, OwnCredential
<1>4. PICK n \in DOMAIN lastList : lastList[n] = ProvidersEntry(c.id)
  BY DEF Lists
<1>5. Honoured(lastList[n])
  BY <1>3, <1>4, IssuerAssumption, NoneAssumption DEF Honoured, ProvidersEntry, SignedBy
<1>6. RevokedByIssuer(c, lastList)
  BY <1>3, <1>4, <1>5 DEF RevokedByIssuer, ProvidersEntry
<1>7. BackedNow(c)
  BY <1>1 DEF FailClosed, RestsOnVerified
<1> QED BY <1>6, <1>7 DEF BackedNow, Backed, Lists

(* A revocation acknowledged before the walk is on the list the walk got,   *)
(* once, under the issuer that signed the credential; so the credential     *)
(* does not verify.                                                         *)
THEOREM RevocationsHold == SystemSpec => []RevocationHolds
<1>1. ASSUME Inv PROVE RevocationHolds
  <2> USE DEF Bound, Fetched, NotSevered, Attested, Corroborated, Accepted
  <2> SUFFICES ASSUME pc = "resolved", configured, NEW c \in {provider, auditor} \ {None},
                      RevokedMark(c.id) \in seen[active]
               PROVE  FALSE
    BY DEF RevocationHolds, RevokedMark
  <2>1. /\ TypeOK /\ MarksOK /\ active \in Terminals
        /\ Led(Plan, Client, seen[active])
    BY <1>1 DEF Inv, ClientOK, IndexOK, AllLed, Places
  <2>2. c \in Credential /\ c.id \in Opt(CredIds)
    BY <2>1 DEF TypeOK, Opt, Credential
  <2>3. Marked(Plan, revocations, c.id)
    BY <2>1, <2>2 DEF MarksOK
  <2>4. Lists(lastList, c.id)
    BY <2>1, <2>2, ClientFields DEF Led
  <2> QED BY <1>1, <2>3, <2>4, ListedIsRefused
<1> QED BY <1>1, SystemInvariance, PTL

(* A complaint acknowledged before the walk, by the host that answers it,   *)
(* is the first of its id in the answer, and has standing.                  *)
LEMMA ComplaintSurfacesNow ==
    ASSUME Inv
    PROVE  ComplaintSurfaces
<1> USE DEF Bound, Fetched, NotSevered, Attested, Corroborated, Accepted
<1> SUFFICES ASSUME pc = "resolved", <<url[1], addr.agent_id, "contested">> \in seen[active]
             PROVE  \E n \in surfaced : bundle.contestations[n].contestation_id = ComplaintId
  BY DEF ComplaintSurfaces
<1>1. addr.agent_id = Summarizer
  BY DEF Inv, ClientOK, TypeOK, FactsOK
<1>2. PICK n \in FirstOfId(bundle.contestations) : bundle.contestations[n] = Complaint
  BY DEF Inv, ClientOK, TypeOK, FactsOK
<1>3. PICK o \in Written(Plan, "register") : addr = Signed(o.addr)
  BY TheAddress
<1>4. Plan \in ThePlans
  BY ThePlan DEF Inv, Places
<1>5. addr.agent_did = Summarizer
  BY <1>1, <1>3, <1>4, AddressLeads
<1>6. Summarizer \in WellFormed /\ AffectedParty \in WellFormed /\ AffectedParty # None
  BY <1>4, IdentityAssumption, WellFormedAssumption, NoneAssumption
<1>7. VerifyContestation(Complaint, Summarizer, Summarizer)
  BY <1>6 DEF VerifyContestation, SignedBy, Complaint, Receipt
<1>8. HasStanding(n)
  BY <1>1, <1>2, <1>5, <1>7 DEF HasStanding
<1>9. n \in surfaced
  BY <1>2, <1>8 DEF Inv, ClientOK, FirstSurfaced
<1> QED BY <1>2, <1>9 DEF Complaint

(* Every walk that begins after a host has acknowledged the complaint, and  *)
(* that this host answers and that resolves, surfaces it.                   *)
THEOREM ComplaintsSurface == SystemSpec => []ComplaintSurfaces
BY ComplaintSurfacesNow, SystemInvariance, PTL

(* What a script hosts before its step k is hosted once it is at k. *)
LEMMA HostedSince ==
    ASSUME Inv, NEW t \in Terminals, NEW k \in DOMAIN Text(t), k <= at[t],
           NEW h \in Hosts, NEW a, HostedBefore(Text(t), k, h, a)
    PROVE  h \in outages \/ HostedAt(Url(h, a))
<1>1. PICK j \in 1..(k - 1) : /\ Text(t)[j].op = "host" /\ Text(t)[j].host = h
                              /\ Text(t)[j].body.agent_id = a
  BY DEF HostedBefore
<1>2. Text(t) \in Seq(Instruction) /\ at[t] \in Nat
  BY ThePlan DEF Inv, Places
<1>3. j \in DOMAIN Text(t) /\ j < at[t]
  BY <1>2
<1>4. h \in outages \/ StoreOf(h)[a] # Nothing
  BY <1>1, <1>3 DEF Inv, Progress
<1>5. CASE h = "primary"
  BY <1>4, <1>5 DEF HostedAt, Url, StoreOf, P!Hosted
<1>6. CASE h = "neutral"
  BY <1>4, <1>6 DEF HostedAt, Url, StoreOf, N!Hosted
<1> QED BY <1>5, <1>6 DEF Hosts

(* The sources of an address that a script has come to register are served. *)
LEMMA RegisteredServed ==
    ASSUME Inv, NEW n, NEW a, RegisteredBy(Plan, at, n, a),
           NEW u \in {a.primary_facts_url, a.private_facts_url} \ {None}
    PROVE  u[1] \in outages \/ HostedAt(u)
<1>1. Plan \in ThePlans
  BY ThePlan DEF Inv, Places
<1>2. PICK t \in Terminals : \E k \in DOMAIN Text(t) :
             k <= at[t] /\ Text(t)[k].op = "register" /\ a = Signed(Text(t)[k].addr)
  BY DEF RegisteredBy, Text, Plan
<1>3. PICK k \in DOMAIN Text(t) :
             k <= at[t] /\ Text(t)[k].op = "register" /\ a = Signed(Text(t)[k].addr)
  BY <1>2
<1> DEFINE o == Text(t)[k]
<1>4. o \in Written(Plan, "register")
  BY <1>3 DEF Written, Text, Plan
<1> HIDE DEF o
<1>5. /\ a.primary_facts_url = Url("primary", a.agent_id)
      /\ a.private_facts_url \in {None, Url("neutral", a.agent_id)}
  BY <1>1, <1>3, <1>4, AddressLeads DEF o
<1>6. PICK h \in Hosts : u = Url(h, a.agent_id)
  BY <1>5 DEF Hosts
<1> DEFINE x == a.agent_id
<1>7. u[1] = h /\ u[2] = x
  BY <1>6 DEF Url
<1> HIDE DEF x
<1>8. u \in {o.addr.primary_facts_url, o.addr.private_facts_url} \ {None}
  <2>1. o.addr \in AgentAddr /\ a = Signed(o.addr)
    BY <1>1, <1>3, <1>4, ScriptsAssumption, Arguments DEF Written, o
  <2>2. /\ a.primary_facts_url = o.addr.primary_facts_url
        /\ a.private_facts_url = o.addr.private_facts_url
    BY <2>1 DEF Signed, AgentAddr
  <2> QED BY <2>2
<1>9. HostedBefore(Text(t), k, h, x)
  BY <1>1, <1>3, <1>7, <1>8, OrderAssumption DEF o, Text, Plan
<1>10. h \in outages \/ HostedAt(Url(h, x))
  BY <1>3, <1>9, HostedSince
<1> QED BY <1>6, <1>7, <1>10 DEF x

(* A name leads to facts: a script hosts before it registers, and a host    *)
(* gives up nothing.                                                        *)
THEOREM RegisteredHosted == SystemSpec => []RegisteredIsHosted
<1>1. ASSUME Inv PROVE RegisteredIsHosted
  <2> SUFFICES ASSUME NEW n \in Names, entries[n] # Nothing,
                      NEW u \in {entries[n].primary_facts_url, entries[n].private_facts_url}
                                \ {None}
               PROVE  u[1] \in outages \/ HostedAt(u)
    BY DEF RegisteredIsHosted
  <2>1. RegisteredBy(Plan, at, n, entries[n])
    BY <1>1 DEF Inv, IndexOK, EntriesOK
  <2> QED BY <1>1, <2>1, RegisteredServed
<1> QED BY <1>1, SystemInvariance, PTL

(* A script that has come to an exit has hosted the successor and registered *)
(* it before.                                                                *)
LEMMA SuccessorInPlace ==
    ASSUME Inv, NEW e \in Plan.exits, NEW t \in Terminals, NEW k \in DOMAIN Text(t),
           k <= at[t], Exits(Text(t)[k], e[1])
    PROVE  /\ \A h \in Hosts : h \in outages \/ HostedAt(Url(h, e[2]))
           /\ "index" \in outages \/ entries["exitable-v2"] # Nothing
<1>1. Plan \in ThePlans /\ Text(t) \in Seq(Instruction) /\ at[t] \in Nat
  BY ThePlan DEF Inv, Places
<1>2. /\ \A h \in Hosts : HostedBefore(Text(t), k, h, e[2])
      /\ RegisteredBefore(Text(t), k, "exitable-v2")
  BY <1>1, OrderAssumption DEF Text, Plan
<1>3. \A h \in Hosts : h \in outages \/ HostedAt(Url(h, e[2]))
  BY <1>2, HostedSince
<1>4. PICK j \in 1..(k - 1) : Text(t)[j].op = "register" /\ Text(t)[j].name = "exitable-v2"
  BY <1>2 DEF RegisteredBefore
<1>5. j \in DOMAIN Text(t) /\ j < at[t]
  BY <1>1
<1>6. "index" \in outages \/ entries["exitable-v2"] # Nothing
  BY <1>4, <1>5 DEF Inv, Progress
<1> QED BY <1>3, <1>6

(* Whoever is registered under the successors' name is one. *)
LEMMA SuccessorNamed ==
    ASSUME Inv, "exitable-v2" \in Names, entries["exitable-v2"] # Nothing
    PROVE  entries["exitable-v2"].agent_id \in {f[2] : f \in Plan.exits}
<1>1. Plan \in ThePlans
  BY ThePlan DEF Inv, Places
<1>2. RegisteredBy(Plan, at, "exitable-v2", entries["exitable-v2"])
  BY DEF Inv, IndexOK, EntriesOK
<1>3. PICK t \in Terminals : \E k \in DOMAIN Plan.texts[t] :
         /\ Plan.texts[t][k].op = "register" /\ Plan.texts[t][k].name = "exitable-v2"
         /\ Signed(Plan.texts[t][k].addr) = entries["exitable-v2"]
  BY <1>2 DEF RegisteredBy
<1>4. PICK k \in DOMAIN Plan.texts[t] :
         /\ Plan.texts[t][k].op = "register" /\ Plan.texts[t][k].name = "exitable-v2"
         /\ Signed(Plan.texts[t][k].addr) = entries["exitable-v2"]
  BY <1>3
<1> DEFINE o == Plan.texts[t][k]
<1>5. o \in Written(Plan, "register")
  BY <1>4 DEF Written
<1>6. o.addr.agent_id \in {f[2] : f \in Plan.exits}
  BY <1>1, <1>4, OrderAssumption
<1>7. o.addr \in AgentAddr
  BY <1>1, <1>5, ScriptsAssumption, Arguments DEF Written
<1>8. Signed(o.addr).agent_id = o.addr.agent_id
  BY <1>7 DEF Signed, AgentAddr
<1> QED BY <1>6, <1>8, <1>4

(* Nobody exits before a successor is in place: the exit that is on file is *)
(* from an instruction that a script has come to, and this script has       *)
(* hosted and registered before; and whatever is registered under the       *)
(* successors' name since is a successor of some exit of the plan.          *)
THEOREM SuccessorsReady == SystemSpec => []SuccessorReady
<1>1. ASSUME Inv PROVE SuccessorReady
  <2> SUFFICES ASSUME NEW e \in Plan.exits, ExitOnFile(e[1])
               PROVE  /\ \A h \in Hosts : h \in outages \/ HostedAt(Url(h, e[2]))
                      /\ \/ "index" \in outages
                         \/ /\ entries["exitable-v2"] # Nothing
                            /\ entries["exitable-v2"].agent_id \in {f[2] : f \in Plan.exits}
    BY DEF SuccessorReady, Plan
  <2>1. Plan \in ThePlans
    BY <1>1, ThePlan DEF Inv, Places
  <2>2. e[1] \in AgentIds
    BY <2>1, ScriptsAssumption
  <2>3. PICK h \in Hosts : Stands(StoreOf(h)[e[1]], "severed") = ExitOf(e[1])
    BY DEF ExitOnFile
  <2>4. Sourced(Plan, at, e[1], ExitOf(e[1]))
    BY <1>1, <2>2, <2>3 DEF Inv, HostsOK, HostOK, Found
  <2>5. ExitOf(e[1]) # None
    <3>1. e[1] \in WellFormed /\ e[1] \in Dids
      BY <2>1, ScriptsAssumption, WellFormedAssumption
    <3>2. ExitOf(e[1]) \in Severance
      BY <2>2, <3>1 DEF ExitOf, Severance, Opt
    <3> QED BY <3>2, NoObjectAssumption
  <2>6. PICK t \in Terminals :
           \E k \in DOMAIN Text(t) : k <= at[t] /\ Exits(Text(t)[k], e[1])
    BY <2>4, <2>5 DEF Sourced, Exits, Text, Plan
  <2>7. PICK k \in DOMAIN Text(t) : k <= at[t] /\ Exits(Text(t)[k], e[1])
    BY <2>6
  <2>8. "exitable-v2" \in Names
    <3>1. Text(t) \in Seq(Instruction)
      BY <1>1, ThePlan DEF Inv, Places
    <3>2. PICK j \in 1..(k - 1) : Text(t)[j].op = "register" /\ Text(t)[j].name = "exitable-v2"
      BY <2>1, <2>7, OrderAssumption DEF RegisteredBefore, Text, Plan
    <3>3. Text(t)[j] \in Instruction
      BY <3>1
    <3> QED BY <3>2, <3>3, Arguments
  <2> QED BY <1>1, <2>8, <2>7, SuccessorInPlace, SuccessorNamed
<1> QED BY <1>1, SystemInvariance, PTL

(* Where a walk is reported hidden, the address itself leads to the neutral *)
(* host, and past the agent's registry.                                     *)
THEOREM PrivateUnseen == SystemSpec => []PrivateWalkUnseen
<1>1. ASSUME Inv PROVE PrivateWalkUnseen
  <2> SUFFICES ASSUME role = "neutral" PROVE url[1] = "neutral" /\ ~ Routed
    BY DEF PrivateWalkUnseen
  <2>1. url = Url("neutral", addr.agent_id) /\ ~ Routed
    BY <1>1, ClientFields DEF Inv, AllLed, Led, Routed
  <2> QED BY <2>1 DEF Url
<1> QED BY <1>1, SystemInvariance, PTL
-----------------------------------------------------------------------------
(* Scripts fail only for cause.  Besides Inv this needs to know how a       *)
(* script that nothing has disturbed fares: what it has registered, filed   *)
(* and revoked stands, and its walk has gone as it must so far.             *)

(* The client of a terminal. *)
Mine(t) == IF t = active THEN Client ELSE parked[t]

(* Clocks stand still, and every object of a script has dates that compare. *)
Still == /\ now = 0 /\ since = 0 /\ pc # "raised" /\ RefusedLate

(* Whoever loads the files loads what a script has saved. *)
SavedOK ==
    /\ saved => \E u \in Terminals : \E i \in DOMAIN Text(u) :
                   i < at[u] /\ Text(u)[i].op = "save"
    /\ \A t \in Terminals : \A j \in DOMAIN Text(t) :
          j < at[t] /\ Text(t)[j].op = "load" => saved

(* Some script has come to the instruction that this revocation is of. *)
Revoking(p, places, r) ==
    \E u \in Terminals : \E k \in DOMAIN p.texts[u] :
        /\ k <= places[u] /\ p.texts[u][k].op = "revoke"
        /\ r.credential_id = ProviderVC(p.texts[u][k].agent).id
        /\ r.issuer_did = p.texts[u][k].issuer

(* What a client knows comes from instructions that scripts have come to. *)
Known(p, places, c) ==
    /\ \A n \in DOMAIN c.lastList : Revoking(p, places, c.lastList[n])
    /\ c.addr # None => \E n \in Names : RegisteredBy(p, places, n, c.addr)
KnownOK ==
    /\ \A c \in CredIds : revocations[c] # Nothing => Revoking(Plan, at, revocations[c])
    /\ \A t \in Terminals : Known(Plan, at, Mine(t))

(* What t has filed, and what it has revoked, when it comes to step k. *)
HasFiled(p, t, k, marks) ==
    \A o \in Before(p.texts[t], k) :
        /\ o.op = "file" => <<o.host, Summarizer, "contested">> \in marks
        /\ o.op = "sever" => <<o.host, o.agent, "severed">> \in marks
Withdrawn(p, t, k) ==
    {ProviderVC(o.agent).id :
        o \in {r \in Before(p.texts[t], k) : r.op = "revoke" /\ r.issuer = ProviderIssuer}}

(* How t fares with its client c at step k, if it is in a walk held to marks. *)
Fares(p, t, k, c, marks) ==
    LET o == p.texts[t][k]
    IN  /\ Asks(p, t, k) => c.configured
        /\ c.pc # "idle" =>
              /\ HasFiled(p, t, k, marks)
              /\ c.path \in o.paths
              /\ c.addr # None => \E a \in LeadsTo(p, t, k, o.name) : c.addr = Signed(a)
              /\ c.url # None => c.url = Url(HostAsked(c.addr, c.path), c.addr.agent_id)
              /\ c.configured /\ c.pc \in {"lookup"} \cup Bound =>
                    \A i \in Withdrawn(p, t, k) : Lists(c.lastList, i)
              /\ c.pc = "refused" /\ o.end \in {"resolves", "surfaces"} => c.bundle # None

(* How a script stands that nothing has disturbed: its names lead to what   *)
(* it registered, what it filed and revoked is on record.                   *)
Calm(t) ==
    /\ outages = {} /\ outcome[t] \in {"running", "done"}
    /\ outcome[t] = "running" =>
          /\ \A n \in Names : entries[n] # Nothing =>
                \E a \in LeadsTo(Plan, t, at[t], n) : entries[n] = Signed(a)
          /\ HasFiled(Plan, t, at[t], acked)
          /\ \A c \in Withdrawn(Plan, t, at[t]) : Marked(Plan, revocations, c)
          /\ Fares(Plan, t, at[t], Mine(t), seen[t])
CalmOK == \A t \in Terminals \ disturbed : Calm(t)
CauseInv == Inv /\ Still /\ SavedOK /\ KnownOK /\ CalmOK
-----------------------------------------------------------------------------
(* While the clients stay, every terminal's client stays. *)
LEMMA MineKept ==
    ASSUME UNCHANGED clients
    PROVE  \A t \in Terminals : Mine(t)' = Mine(t)
<1>1. Client' = Client /\ active' = active /\ parked' = parked
  BY DEF Client, clients, walk, client
<1> HIDE DEF Client
<1> QED BY <1>1 DEF Mine

(* In a step of the active client, only its own terminal's client changes. *)
LEMMA MineOthers ==
    ASSUME UNCHANGED <<active, parked>>
    PROVE  /\ \A t \in Terminals \ {active} : Mine(t)' = Mine(t)
           /\ Mine(active)' = Client' /\ Mine(active) = Client
BY DEF Mine

(* Clients that agree on what is read below. *)
Alike(c, d) ==
    /\ c.configured = d.configured /\ c.lastList = d.lastList /\ c.pc = d.pc
    /\ c.path = d.path /\ c.addr = d.addr /\ c.url = d.url /\ c.bundle = d.bundle

(* When a terminal takes over, the others' clients stay what they were. *)
LEMMA MineActivated ==
    ASSUME Places, NEW t \in Terminals, NEW c, Activate(t, c)
    PROVE  /\ \A u \in Terminals \ {t} : Mine(u)' = Mine(u)
           /\ Alike(Mine(t)', c)
<1>1. /\ active' = t /\ Become(c)
      /\ parked' = [parked EXCEPT ![active] = Client, ![t] = NewClient(FALSE)]
      /\ DOMAIN parked = Terminals /\ active \in Terminals
  BY DEF Activate, Places
<1>2. Mine(t)' = Client'
  BY <1>1 DEF Mine
<1>3. Alike(Client', c)
  BY <1>1 DEF Alike, Client, Become
<1> HIDE DEF Client, NewClient
<1>4. \A u \in Terminals \ {t} : parked'[u] = IF u = active THEN Client ELSE parked[u]
  BY <1>1
<1> QED BY <1>1, <1>2, <1>3, <1>4 DEF Mine

(* A client between walks. *)
Idle(c) == c.pc = "idle" /\ c.addr = None /\ c.url = None /\ c.bundle = None

(* A new client is between walks, and knows no revocations. *)
LEMMA NewIdle ==
    ASSUME NEW b
    PROVE  /\ Idle(NewClient(b)) /\ NewClient(b).configured = b
           /\ NewClient(b).lastList = <<>>
BY DEF Idle, NewClient

(* The end of a walk leaves the client its configuration and its list. *)
LEMMA EndIdle ==
    ASSUME EndWalk
    PROVE  /\ Idle(Client') /\ Client'.configured = configured /\ Client'.lastList = lastList
           /\ UNCHANGED <<active, parked>>
BY DEF EndWalk, Become, NewClient, Client, Idle
-----------------------------------------------------------------------------
(* Who is undisturbed was so, and no server has restarted since. *)
LEMMA StillCalm ==
    ASSUME NEW t \in Terminals, [SystemNext]_system, t \notin disturbed'
    PROVE  t \notin disturbed /\ outages' = outages
<1>1. ASSUME NEW u \in Terminals, ScriptStep(u) \/ BeginPut(u) \/ Switch(u) \/ RequestLost(u)
      PROVE  disturbed \subseteq disturbed' /\ outages' = outages
  <2>1. CASE RevokeCredential(u)
    BY <2>1 DEF RevokeCredential
  <2>2. CASE RegisterAddr(u)
    BY <2>2 DEF RegisterAddr
  <2>3. CASE HostFacts(u) \/ FileComplaint(u) \/ FileSeverance(u)
    BY <2>3 DEF HostFacts, FileComplaint, FileSeverance, Filed, Answered, Refused
  <2>4. CASE \/ LoadFiles(u) \/ SaveFiles(u) \/ TamperAddr(u) \/ ReadFacts(u)
             \/ GiveVerdict(u) \/ BeginPut(u) \/ Switch(u) \/ RequestLost(u)
    BY <2>4 DEF LoadFiles, SaveFiles, TamperAddr, ReadFacts, GiveVerdict, BeginPut, Switch,
                RequestLost, notes
  <2> QED BY <1>1, <2>1, <2>2, <2>3, <2>4 DEF ScriptStep
<1>2. CASE BeginWalk \/ WalkStep \/ FetchFails \/ EndWalk \/ UNCHANGED system
  BY <1>2 DEF BeginWalk, WalkStep, FetchFails, EndWalk, system, notes
<1>3. ASSUME NEW s \in {"index", "primary", "neutral"}, Restart(s) PROVE FALSE
  BY <1>3 DEF Restart
<1> QED BY <1>1, <1>2, <1>3 DEF SystemNext, Finished
-----------------------------------------------------------------------------
(* An instruction that a script comes after has been carried out. *)
LEMMA ReachedDone ==
    ASSUME Inv, SavedOK, NEW t \in Terminals, NEW k \in DOMAIN Text(t), k <= at[t],
           NEW what, Reached(Plan, t, k, what)
    PROVE  \E u \in Terminals : \E j \in DOMAIN Text(u) : j < at[u] /\ Text(u)[j] \in what
<1>1. \A u \in Terminals : Text(u) \in Seq(Instruction) /\ Plan.texts[u] = Text(u) /\ at[u] \in Nat
  BY ThePlan DEF Inv, Places, Text, Plan
<1>2. ASSUME NEW u \in Terminals, NEW i \in DOMAIN Text(u), i <= at[u],
             Before(Text(u), i) \cap what # {}
      PROVE  \E j \in DOMAIN Text(u) : j < at[u] /\ Text(u)[j] \in what
  <2>1. PICK j \in 1..(i - 1) : Text(u)[j] \in what
    BY <1>2 DEF Before
  <2>2. j \in DOMAIN Text(u) /\ j < at[u]
    BY <1>1, <1>2
  <2> QED BY <2>1, <2>2
<1>3. CASE Before(Text(t), k) \cap what # {}
  BY <1>2, <1>3
<1>4. CASE /\ \E o \in Before(Text(t), k) : o.op = "load"
           /\ \A u \in Terminals : \A i \in DOMAIN Text(u) :
                 Text(u)[i].op = "save" => Before(Text(u), i) \cap what # {}
  <2>1. PICK j \in 1..(k - 1) : Text(t)[j].op = "load"
    BY <1>4 DEF Before
  <2>2. j \in DOMAIN Text(t) /\ j < at[t]
    BY <1>1
  <2>3. PICK u \in Terminals : \E i \in DOMAIN Text(u) : i < at[u] /\ Text(u)[i].op = "save"
    BY <2>1, <2>2 DEF SavedOK
  <2>4. PICK i \in DOMAIN Text(u) : i < at[u] /\ Text(u)[i].op = "save"
    BY <2>3
  <2>5. i <= at[u]
    BY <1>1, <2>4
  <2>6. Before(Text(u), i) \cap what # {}
    BY <1>4, <2>4
  <2> QED BY <1>2, <2>5, <2>6
<1> QED BY <1>1, <1>3, <1>4 DEF Reached

(* So the name it relies on is found, and the agent hosted. *)
LEMMA HostedFound ==
    ASSUME Inv, SavedOK, outages = {}, NEW t \in Terminals, at[t] \in DOMAIN Text(t)
    PROVE  /\ \A n : Reached(Plan, t, at[t], Registering(Plan, n)) => entries[n] # Nothing
           /\ \A h, a : Reached(Plan, t, at[t], Hosting(Plan, h, a)) => StoreOf(h)[a] # Nothing
<1>0. at[t] <= at[t]
  BY DEF Inv, Places
<1>1. ASSUME NEW n, Reached(Plan, t, at[t], Registering(Plan, n)) PROVE entries[n] # Nothing
  <2>1. PICK u \in Terminals : \E j \in DOMAIN Text(u) :
               j < at[u] /\ Text(u)[j] \in Registering(Plan, n)
    BY <1>0, <1>1, ReachedDone
  <2>2. PICK j \in DOMAIN Text(u) : j < at[u] /\ Text(u)[j] \in Registering(Plan, n)
    BY <2>1
  <2>3. Text(u)[j].op = "register" /\ Text(u)[j].name = n
    BY <2>2 DEF Registering, Written
  <2> QED BY <2>2, <2>3 DEF Inv, Progress
<1>2. ASSUME NEW h, NEW a, Reached(Plan, t, at[t], Hosting(Plan, h, a))
      PROVE  StoreOf(h)[a] # Nothing
  <2>1. PICK u \in Terminals : \E j \in DOMAIN Text(u) :
               j < at[u] /\ Text(u)[j] \in Hosting(Plan, h, a)
    BY <1>0, <1>2, ReachedDone
  <2>2. PICK j \in DOMAIN Text(u) : j < at[u] /\ Text(u)[j] \in Hosting(Plan, h, a)
    BY <2>1
  <2>3. Text(u)[j].op = "host" /\ Text(u)[j].host = h /\ Text(u)[j].body.agent_id = a
    BY <2>2 DEF Hosting, Written
  <2> QED BY <2>2, <2>3 DEF Inv, Progress
<1> QED BY <1>1, <1>2
-----------------------------------------------------------------------------
(* What the index signs verifies, and a copy that is not signed does not. *)
LEMMA EntryVerifies ==
    ASSUME NEW p \in ThePlans, NEW o \in Written(p, "register")
    PROVE  AddrVerified(Signed(o.addr)) /\ ~ AddrVerified([Signed(o.addr) EXCEPT !.by = None])
<1> DEFINE a == Signed(o.addr)
<1>1. a \in AgentAddr /\ o.addr.agent_did # None
  BY AddressesAssumption, AnswersAssumption, SigningAssumption
<1>2. o \in Instruction /\ o.op = "register"
  BY ScriptsAssumption DEF Written
<1>3. o.addr \in AgentAddr
  BY <1>2, Arguments
<1>4. /\ a.vm = ResolverDid /\ a.by = ResolverDid /\ a.agent_did # None
      /\ [a EXCEPT !.by = None].by = None
  BY <1>1, <1>3 DEF Signed, AgentAddr
<1>5. ResolverDid \in WellFormed /\ None \notin WellFormed
  BY <1>1, <1>4, PolicyAssumption, NoneAssumption, WellFormedAssumption DEF AgentAddr, Opt
<1> HIDE DEF a
<1> QED BY <1>4, <1>5 DEF AddrVerified, SignedBy, a

(* The bundle of a host is an answer of its kind. *)
LEMMA AnswerIsBundle ==
    ASSUME NEW p \in ThePlans, NEW a \in AgentIds, NEW b \in Stored(p, a)
    PROVE  [severance |-> b.severance, provider_vc |-> b.creds.provider_vc,
            auditor_vc |-> b.creds.auditor_vc,
            contestations |-> InList(b.contestations)] \in Bundle
<1> DEFINE filed == b.contestations
<1>1. /\ b.creds \in CredsOf(p, a) /\ b.severance \in Opt(Severance)
      /\ filed \in Filings(ContestationIds)
  BY DEF Stored
<1>2. b.creds.provider_vc \in Opt(Credential) /\ b.creds.auditor_vc \in Opt(Credential)
  BY <1>1, TheCreds DEF OwnCredential
<1> HIDE DEF filed
<1>3. InList(filed) \in Seq(Contestation)
  BY <1>1, FirstInList
<1> QED BY <1>1, <1>2, <1>3 DEF Bundle, filed

-----------------------------------------------------------------------------
(* What the servers answer, if they answer, is JSON of its kind. *)
LEMMA TheAnswers ==
    ASSUME Inv
    PROVE  /\ Listed \in Seq(Revocation)
           /\ pc = "lookup" => Lookup(Op(active).name) \in Addrs \cup {Unreachable}
           /\ pc = "select" /\ Routed => Routing \in RegistryAnswer
           /\ pc = "fetch" => Served \in Bundle \cup {Unreachable}
<1> USE DEF Bound, Fetched, NotSevered, Attested, Corroborated, Accepted
<1>1. Plan \in ThePlans /\ active \in Terminals
  BY ThePlan DEF Inv, Places
<1>2. Listed \in Seq(Revocation)
  BY ListedIsList DEF Inv, IndexOK
<1>3. ASSUME pc = "lookup" PROVE Lookup(Op(active).name) \in Addrs \cup {Unreachable}
  <2>1. Doing(active, "walk")
    BY <1>3 DEF Inv, Places
  <2>2. Op(active).name \in Names
    BY <1>1, <2>1, TheInstruction, Arguments DEF Doing, Inv
  <2> QED BY <2>2 DEF Lookup, Inv, IndexOK, EntriesOK
<1>4. ASSUME pc = "select", Routed PROVE Routing \in RegistryAnswer
  <2>1. PICK o \in Written(Plan, "register") : addr = Signed(o.addr)
    BY <1>4, TheAddress
  <2>2. addr.registry_url = RegistryUrl(addr.agent_id)
    BY <1>1, <1>4, <2>1, AddressLeads DEF Routed
  <2>3. addr.agent_id = o.addr.agent_id
    <3>1. o \in Instruction /\ o.op = "register"
      BY <1>1, ScriptsAssumption DEF Written
    <3>2. o.addr \in AgentAddr
      BY <3>1, Arguments
    <3> QED BY <2>1, <3>2 DEF Signed, AgentAddr
  <2>4. Url("primary", addr.agent_id) \in Urls
    BY <1>1, <2>3, AddressesAssumption DEF Hosts
  <2>5. Routing.facts_url = Url("primary", addr.agent_id)
    BY <2>2 DEF Routing, RegistryUrl, Url
  <2> QED BY <2>4, <2>5 DEF Routing, RegistryAnswer, Opt
<1>5. ASSUME pc = "fetch" PROVE Served \in Bundle \cup {Unreachable}
  <2>1. addr # None /\ url # None
    BY <1>5 DEF Inv, ClientOK, TypeOK, SourceInvariant
  <2>2. PICK h \in Hosts : url = Url(h, addr.agent_id)
    BY <2>1, ClientFields DEF Inv, AllLed, Led
  <2>3. PICK o \in Written(Plan, "register") : addr = Signed(o.addr)
    BY <1>5, TheAddress
  <2>4. PICK a \in AgentIds : a = addr.agent_id
    BY <1>1, <2>3, AddressLeads
  <2>5. url[1] = h /\ url[2] = a
    BY <2>2, <2>4 DEF Url
  <2> DEFINE b == StoreOf(h)[a]
  <2>6. b = IF url[1] = "primary" THEN pstore[url[2]] ELSE nstore[url[2]]
    BY <2>5 DEF StoreOf
  <2>7. b = Nothing \/ b \in Stored(Plan, a)
    BY DEF Inv, HostsOK, HostOK, Found
  <2> HIDE DEF b
  <2> QED BY <1>1, <2>6, <2>7, AnswerIsBundle DEF Served
<1> QED BY <1>2, <1>3, <1>4, <1>5

(* A credential that a script hosts does not make its verification raise. *)
LEMMA VerdictPlain ==
    ASSUME Inv, pc \in Fetched, NEW c \in {bundle.provider_vc, bundle.auditor_vc}
    PROVE  CredentialVerdict(c) # "raises"
<1>1. Plan \in ThePlans
  BY ThePlan DEF Inv, Places
<1>2. CredsServed \in CredsOf(Plan, addr.agent_id)
  BY DEF Inv, ClientOK, TypeOK, FactsOK
<1>3. c # None => c \in Shown(CredsServed)
  BY DEF Shown, CredsServed
<1>4. c # None => {c.validFrom, c.validUntil} \subseteq Times
  BY <1>1, <1>2, <1>3, TheCreds
<1>5. c # None => ~ DatesRaise(c, now)
  BY <1>4, DatesAssumption DEF DatesRaise
<1> QED BY <1>5 DEF CredentialVerdict, VerifyCredential

(* Clocks stand still, and no walk raises. *)
LEMMA StillStep ==
    ASSUME Inv, Still, [SystemNext]_system
    PROVE  Still'
<1>1. ClientOK /\ Places
  BY DEF Inv
<1>2. CASE UNCHANGED clients
  BY <1>2 DEF Still, RefusedLate, Cause, Acceptable, clients, clock, walk, client
<1>3. ASSUME NEW c, Become(c), c.pc \in Early PROVE Still'
  BY <1>3 DEF Still, Become, clock, RefusedLate, Early
<1>4. CASE BeginWalk
  BY <1>4 DEF BeginWalk, Start, Still, RefusedLate
<1>5. ASSUME WalkStep \/ FetchFails PROVE RefusedLate' /\ UNCHANGED <<now, since>>
  <2>1. Next
    BY <1>1, <1>5, WalksAreSteps
  <2>2. RefusedLate'
    BY <1>1, <2>1, RefusedLateStep DEF ClientOK, Still
  <2> QED BY <1>5, <2>2
      DEF WalkStep, FetchFails, RefreshRevocations, LookupAddr, SelectFactsUrl,
          FollowRegistry, FetchFacts, CheckSeverance, VerifyProvider, VerifyAuditor,
          EnforceThreshold, SurfaceContestations, Act, clock
<1>6. CASE WalkStep
  <2>1. pc # "raised" /\ Unreachable # Garbled /\ Garbled \notin Addrs
    BY NoAnswerAssumption, FailureAssumption DEF Still
  <2>2. CASE RefreshRevocations(Listed)
    <3>1. Listed # Garbled
      BY TheAnswers, NoAnswerAssumption
    <3> QED BY <1>5, <1>6, <2>2, <3>1 DEF RefreshRevocations, Still
  <2>3. CASE LookupAddr(Lookup(Op(active).name))
    <3>1. Lookup(Op(active).name) # Garbled
      BY <2>1, <2>3, TheAnswers DEF LookupAddr
    <3> QED BY <1>5, <1>6, <2>3, <3>1 DEF LookupAddr, EndOn, Still
  <2>4. CASE FollowRegistry(Routing)
    <3>1. Routing # Garbled
      BY <2>4, TheAnswers, NoAnswerAssumption DEF FollowRegistry
    <3> QED BY <1>5, <1>6, <2>1, <2>4, <3>1 DEF FollowRegistry, EndOn, GoTo, Still
  <2>5. CASE FetchFacts(Served)
    <3>1. Served # Garbled
      BY <2>1, <2>5, TheAnswers, NoAnswerAssumption DEF FetchFacts
    <3> QED BY <1>5, <1>6, <2>5, <3>1 DEF FetchFacts, EndOn, Still
  <2>6. CASE VerifyProvider \/ VerifyAuditor
    <3>1. pc \in Fetched
      BY <2>6 DEF VerifyProvider, VerifyAuditor, Fetched, NotSevered, Attested
    <3>2. /\ CredentialVerdict(bundle.provider_vc) # "raises"
          /\ CredentialVerdict(bundle.auditor_vc) # "raises"
      BY <3>1, VerdictPlain
    <3> HIDE DEF CredentialVerdict
    <3>3. pc' # "raised"
      BY <2>6, <3>2 DEF VerifyProvider, VerifyAuditor
    <3> QED BY <1>5, <1>6, <3>3 DEF Still
  <2>7. CASE SelectFactsUrl \/ CheckSeverance \/ EnforceThreshold \/ SurfaceContestations \/ Act(FALSE)
    <3>1. pc' # "raised"
      BY <2>1, <2>7 DEF SelectFactsUrl, GoTo, CheckSeverance, EnforceThreshold,
                        SurfaceContestations, Act
    <3> QED BY <1>5, <1>6, <3>1 DEF Still
  <2> QED BY <1>6, <2>2, <2>3, <2>4, <2>5, <2>6, <2>7 DEF WalkStep
<1>7. CASE FetchFails
  <2>1. pc' # "raised"
    BY <1>7, NoAnswerAssumption, FailureAssumption
       DEF FetchFails, RefreshRevocations, LookupAddr, FollowRegistry, FetchFacts, EndOn
  <2> QED BY <1>5, <1>7, <2>1 DEF Still
<1>8. CASE EndWalk
  BY <1>3, <1>8 DEF EndWalk, NewClient, Early
<1>9. ASSUME NEW t \in Terminals, Switch(t) PROVE Still'
  <2>1. Become(parked[t]) /\ parked[t].pc \in Early
    BY <1>1, <1>9 DEF Switch, Activate, Places, Parkable
  <2> QED BY <1>3, <2>1
<1>10. ASSUME NEW t \in Terminals, LoadFiles(t) PROVE Still'
  <2>1. PICK c : Become(NewClient(c))
    BY <1>10 DEF LoadFiles, Activate
  <2> QED BY <1>3, <2>1 DEF NewClient, Early
<1>11. ASSUME NEW t \in Terminals, ScriptStep(t) \/ RequestLost(t) PROVE Still'
  BY <1>1, <1>2, <1>10, <1>11, ScriptMoves
<1>12. CASE \/ \E s \in {"index", "primary", "neutral"} : Restart(s)
            \/ \E t \in Terminals : BeginPut(t)
            \/ UNCHANGED system
  BY <1>2, <1>12 DEF Restart, BeginPut, system
<1> QED BY <1>4, <1>6, <1>7, <1>8, <1>9, <1>11, <1>12 DEF SystemNext, Finished
-----------------------------------------------------------------------------
(* Whose place changes, has carried out its instruction. *)
LEMMA JustDone ==
    ASSUME Inv, [SystemNext]_system, NEW t \in Terminals, at'[t] # at[t]
    PROVE  /\ Running(t) /\ Moves(t) /\ at'[t] = at[t] + 1
           /\ ScriptStep(t) \/ (EndWalk /\ t = active)
<1>1. ClientOK /\ Places /\ plan' = plan /\ active \in Terminals
  BY PlacesGrow DEF Inv, Places
<1>2. ASSUME NEW u \in Terminals, ScriptStep(u) \/ RequestLost(u)
      PROVE  Running(u) /\ Moves(u) /\ (u # t => at'[t] = at[t])
  BY <1>1, <1>2, ScriptMoves, MovesPlace
<1>3. ASSUME EndWalk PROVE Running(active) /\ Moves(active) /\ (t # active => at'[t] = at[t])
  <2>1. Running(active) /\ Moves(active)
    BY <1>1, <1>3, EndWalkMoves DEF EndWalk
  <2> QED BY <1>1, <2>1, MovesPlace
<1>4. ASSUME \/ \E u \in Terminals : BeginPut(u) \/ Switch(u) \/ RequestLost(u)
             \/ BeginWalk \/ WalkStep \/ FetchFails
             \/ \E s \in {"index", "primary", "neutral"} : Restart(s)
             \/ UNCHANGED system
      PROVE  UNCHANGED at
  BY <1>4 DEF BeginPut, Switch, RequestLost, End, BeginWalk, WalkStep, FetchFails, Restart, system
<1>5. ScriptStep(t) \/ (EndWalk /\ t = active)
  <2>1. ASSUME NEW u \in Terminals, ScriptStep(u) PROVE u = t
    BY <1>2, <2>1
  <2>2. ASSUME EndWalk PROVE t = active
    BY <1>3, <2>2
  <2> QED BY <1>4, <2>1, <2>2 DEF SystemNext, Finished
<1>6. Running(t) /\ Moves(t)
  BY <1>2, <1>3, <1>5
<1>7. at'[t] <= at[t] + 1 /\ at[t] <= at'[t] /\ at[t] \in Nat
  BY <1>1, <1>6, MovesPlace DEF Places
<1>8. at'[t] \in Nat
  BY <1>1, PlacesGrow
<1> QED BY <1>5, <1>6, <1>7, <1>8

(* Scripts load what one of them has saved. *)
LEMMA SavedStep ==
    ASSUME Inv, SavedOK, [SystemNext]_system
    PROVE  SavedOK'
<1>1. /\ plan' = plan /\ \A t \in Terminals : at[t] <= at'[t]
      /\ at \in [Terminals -> Nat \ {0}] /\ at' \in [Terminals -> Nat \ {0}]
  BY PlacesGrow DEF Inv
<1>2. \A t \in Terminals : Text(t)' = Text(t) /\ Text(t) \in Seq(Instruction)
  BY <1>1, ThePlan DEF Text, Inv, Places
<1>3. saved' = saved \/ \E t \in Terminals : SaveFiles(t)
  BY DEF SystemNext, ScriptStep, LoadFiles, HostFacts, RegisterAddr, FileComplaint,
         FileSeverance, RevokeCredential, TamperAddr, ReadFacts, GiveVerdict, BeginPut, Switch,
         RequestLost, BeginWalk, WalkStep, FetchFails, EndWalk, Restart, Finished, system
<1>4. ASSUME NEW t \in Terminals, SaveFiles(t)
      PROVE  saved' /\ at[t] \in DOMAIN Text(t) /\ at[t] < at'[t] /\ Text(t)[at[t]].op = "save"
  BY <1>1, <1>4, TheInstruction DEF SaveFiles, Doing, Advance, Op, Inv
<1>5. saved => saved'
  BY <1>3, <1>4
<1>6. ASSUME saved'
      PROVE  \E u \in Terminals : \E i \in DOMAIN Text(u) : i < at'[u] /\ Text(u)[i].op = "save"
  <2>1. CASE saved
    <3>1. PICK u \in Terminals : \E i \in DOMAIN Text(u) : i < at[u] /\ Text(u)[i].op = "save"
      BY <2>1 DEF SavedOK
    <3>2. PICK i \in DOMAIN Text(u) : i < at[u] /\ Text(u)[i].op = "save"
      BY <3>1
    <3>3. i < at'[u]
      BY <1>1, <1>2, <3>2
    <3> QED BY <3>2, <3>3
  <2>2. CASE \E t \in Terminals : SaveFiles(t)
    BY <1>4, <2>2
  <2> QED BY <1>3, <1>6, <2>1, <2>2
<1>7. ASSUME NEW t \in Terminals, NEW j \in DOMAIN Text(t), j < at'[t], Text(t)[j].op = "load"
      PROVE  saved'
  <2>1. CASE j < at[t]
    BY <1>5, <1>7, <2>1 DEF SavedOK
  <2>2. CASE ~ (j < at[t])
    <3>1. j \in Nat /\ at[t] \in Nat /\ at'[t] \in Nat
      BY <1>1, <1>2
    <3>2. /\ Running(t) /\ at'[t] = at[t] + 1
          /\ ScriptStep(t) \/ (EndWalk /\ t = active)
      BY <1>7, <2>2, <3>1, JustDone
    <3>3. Op(t).op = "load"
      BY <1>7, <2>2, <3>1, <3>2 DEF Op
    <3>4. LoadFiles(t)
      BY <3>2, <3>3, EndWalkMoves
         DEF ScriptStep, SaveFiles, HostFacts, RegisterAddr, FileComplaint, FileSeverance,
             RevokeCredential, TamperAddr, ReadFacts, GiveVerdict, Doing, Inv
    <3> QED BY <1>5, <3>4 DEF LoadFiles
  <2> QED BY <2>1, <2>2
<1> QED BY <1>2, <1>6, <1>7 DEF SavedOK

(* What a client knows, it knows as the scripts go on. *)
LEMMA KnownMore ==
    ASSUME NEW p \in ThePlans, NEW places \in [Terminals -> Nat \ {0}],
           NEW places2 \in [Terminals -> Nat \ {0}],
           \A t \in Terminals : places[t] <= places2[t]
    PROVE  /\ \A r : Revoking(p, places, r) => Revoking(p, places2, r)
           /\ \A c : Known(p, places, c) => Known(p, places2, c)
<1>1. ASSUME NEW r, Revoking(p, places, r) PROVE Revoking(p, places2, r)
  <2> DEFINE of(k, u) == /\ p.texts[u][k].op = "revoke"
                         /\ r.credential_id = ProviderVC(p.texts[u][k].agent).id
                         /\ r.issuer_did = p.texts[u][k].issuer
  <2>1. PICK u \in Terminals : \E k \in DOMAIN p.texts[u] : k <= places[u] /\ of(k, u)
    BY <1>1 DEF Revoking
  <2>2. PICK k \in DOMAIN p.texts[u] : k <= places[u] /\ of(k, u)
    BY <2>1
  <2>3. p.texts[u] \in Seq(Instruction)
    BY ScriptsAssumption
  <2>4. k <= places2[u]
    BY <2>2, <2>3
  <2> QED BY <2>2, <2>4 DEF Revoking
<1>2. ASSUME NEW c, Known(p, places, c) PROVE Known(p, places2, c)
  <2>1. \A n, a : RegisteredBy(p, places, n, a) => RegisteredBy(p, places2, n, a)
    BY RegisteredMore
  <2> QED BY <1>1, <1>2, <2>1 DEF Known
<1> QED BY <1>1, <1>2

(* The list has nothing but what the index keeps. *)
LEMMA ListedIsKept ==
    ASSUME ListOK(revocations), NEW n \in DOMAIN Listed
    PROVE  \E c \in CredIds : revocations[c] # Nothing /\ Listed[n] = revocations[c]
<1> DEFINE held == {revocations[c] : c \in CredIds}
           S == held \ {Nothing}
<1>1. IsFiniteSet(S)
  <2>1. IsFiniteSet(held) /\ S \subseteq held
    BY DEF ListOK
  <2> HIDE DEF held
  <2> QED BY <2>1, FS_Subset
<1>2. Listed = SetToSeq(S)
  BY DEF Listed
<1>3. Listed[n] \in S
  <2> HIDE DEF S
  <2> QED BY <1>1, <1>2, SequenceOfSet
<1> QED BY <1>3

(* Clients learn what the index keeps, and it keeps what scripts sent it. *)
LEMMA KnownStep ==
    ASSUME Inv, KnownOK, [SystemNext]_system
    PROVE  KnownOK'
<1>1. /\ ClientOK /\ Places /\ EntriesOK /\ ListOK(revocations) /\ active \in Terminals
      /\ plan' = plan /\ Plan' = Plan /\ Plan \in ThePlans
      /\ at \in [Terminals -> Nat \ {0}] /\ at' \in [Terminals -> Nat \ {0}]
      /\ \A t \in Terminals : at[t] <= at'[t]
  BY PlacesGrow, ThePlan DEF Inv, IndexOK, Plan, Places
<1>2. /\ \A c \in CredIds : revocations[c] # Nothing => Revoking(Plan, at', revocations[c])
      /\ \A t \in Terminals : Known(Plan, at', Mine(t))
  BY <1>1, KnownMore DEF KnownOK
<1> DEFINE Held == \A c \in CredIds :
                      revocations'[c] # Nothing => Revoking(Plan, at', revocations'[c])
           Fine == \A t \in Terminals : Known(Plan, at', Mine(t)')
<1>3. Held
  <2>1. CASE UNCHANGED revocations
    BY <1>2, <2>1
  <2>2. ASSUME NEW t \in Terminals, RevokeCredential(t) PROVE Held
    <3> DEFINE c == ProviderVC(Op(t).agent).id
               r == [credential_id |-> c, issuer_did |-> Op(t).issuer, by |-> Op(t).issuer]
    <3>1. revocations' = [revocations EXCEPT ![c] = r]
      BY <1>1, <2>2, RevocationIsRecord
    <3>2. /\ at[t] \in DOMAIN Plan.texts[t] /\ Plan.texts[t][at[t]] = Op(t) /\ at[t] <= at'[t]
          /\ Op(t).op = "revoke"
      BY <1>1, <2>2, TheInstruction DEF RevokeCredential, Doing, Text, Plan, Op
    <3>3. Revoking(Plan, at', r)
      BY <3>2 DEF Revoking
    <3> HIDE DEF c, r
    <3> QED BY <1>1, <1>2, <3>1, <3>3 DEF ListOK
  <2>3. ASSUME NEW s \in {"index", "primary", "neutral"}, Restart(s) PROVE Held
    <3>1. CASE s = "index"
      BY <2>3, <3>1 DEF Restart, Index!Restart
    <3>2. CASE s # "index"
      BY <2>1, <2>3, <3>2 DEF Restart, index
    <3> QED BY <3>1, <3>2
  <2>4. ASSUME NEW t \in Terminals, ScriptStep(t) \/ BeginPut(t) \/ Switch(t) \/ RequestLost(t) PROVE Held
    BY <2>1, <2>2, <2>4, ScriptMarks
  <2>5. CASE BeginWalk \/ WalkStep \/ FetchFails \/ EndWalk \/ UNCHANGED system
    BY <2>1, <2>5 DEF BeginWalk, WalkStep, FetchFails, EndWalk, system, servers, index
  <2> QED BY <2>3, <2>4, <2>5 DEF SystemNext, Finished
<1>4. Fine
  <2> DEFINE fine(c) == Known(Plan, at', c)
  <2>1. CASE UNCHANGED clients
    BY <1>2, <2>1, MineKept
  <2>2. ASSUME UNCHANGED <<active, parked>>, fine(Client') PROVE Fine
    BY <1>1, <1>2, <2>2, MineOthers
  <2>3. ASSUME NEW t \in Terminals, NEW c, Activate(t, c), fine(c) PROVE Fine
    <3>1. /\ \A u \in Terminals \ {t} : Mine(u)' = Mine(u)
          /\ Mine(t)'.lastList = c.lastList /\ Mine(t)'.addr = c.addr
      BY <1>1, <2>3, MineActivated DEF Alike
    <3>2. fine(Mine(t)')
      BY <2>3, <3>1 DEF Known
    <3> HIDE DEF fine
    <3> QED BY <1>2, <3>1, <3>2 DEF fine
  <2>4. /\ \A n \in DOMAIN lastList : Revoking(Plan, at', lastList[n])
        /\ addr # None => \E n \in Names : RegisteredBy(Plan, at', n, addr)
    BY <1>1, <1>2, ClientFields DEF Known, Mine
  <2>5. ASSUME \A n \in DOMAIN lastList' : Revoking(Plan, at', lastList'[n]),
               addr' # None => \E n \in Names : RegisteredBy(Plan, at', n, addr')
        PROVE  fine(Client')
    <3>1. Client'.lastList = lastList' /\ Client'.addr = addr'
      BY DEF Client
    <3> QED BY <2>5, <3>1 DEF Known
  <2> HIDE DEF fine
  <2>6. CASE BeginWalk
    BY <2>2, <2>4, <2>5, <2>6 DEF BeginWalk, Start, client
  <2>7. CASE FetchFails
    BY <2>2, <2>4, <2>5, <2>7, FailureAssumption
       DEF FetchFails, RefreshRevocations, LookupAddr, FollowRegistry, FetchFacts, client, walk
  <2>8. CASE EndWalk
    BY <2>2, <2>4, <2>5, <2>8 DEF EndWalk, Become, NewClient
  <2>9. CASE WalkStep
    <3>1. \/ UNCHANGED lastList
          \/ RefreshRevocations(Listed) /\ lastList' = Listed
      BY <2>9 DEF WalkStep, RefreshRevocations, LookupAddr, SelectFactsUrl, FollowRegistry,
              FetchFacts, CheckSeverance, VerifyProvider, VerifyAuditor, EnforceThreshold,
              SurfaceContestations, Act, client
    <3>2. \A n \in DOMAIN Listed : Revoking(Plan, at', Listed[n])
      BY <1>1, <1>2, ListedIsKept
    <3>3. addr' # None => \E n \in Names : RegisteredBy(Plan, at', n, addr')
      <4>1. CASE LookupAddr(Lookup(Op(active).name))
        <5>1. pc = "lookup" /\ Op(active).name \in Names
          BY <1>1, <4>1, TheInstruction, Arguments DEF LookupAddr, Places, Doing
        <5>2. \A n \in Names : entries[n] # Nothing => RegisteredBy(Plan, at', n, entries[n])
          BY <1>1, RegisteredMore DEF EntriesOK
        <5>3. UNCHANGED addr \/ (addr' = Lookup(Op(active).name) /\ addr' \in Addrs)
          BY <4>1 DEF LookupAddr
        <5>4. Unreachable \notin Addrs
          BY FailureAssumption
        <5> QED BY <2>4, <5>1, <5>2, <5>3, <5>4 DEF Lookup
      <4>2. CASE ~ LookupAddr(Lookup(Op(active).name))
        <5>1. UNCHANGED addr
          BY <2>9, <4>2 DEF WalkStep, RefreshRevocations, SelectFactsUrl, FollowRegistry,
              FetchFacts, CheckSeverance, VerifyProvider, VerifyAuditor, EnforceThreshold,
              SurfaceContestations, Act, walk
        <5> QED BY <2>4, <5>1
      <4> QED BY <4>1, <4>2
    <3>4. \A n \in DOMAIN lastList' : Revoking(Plan, at', lastList'[n])
      BY <2>4, <3>1, <3>2
    <3> QED BY <2>2, <2>5, <2>9, <3>3, <3>4 DEF WalkStep
  <2>10. ASSUME NEW t \in Terminals, Switch(t) PROVE Fine
    <3>1. Activate(t, parked[t]) /\ fine(parked[t])
      BY <1>2, <2>10 DEF Switch, Mine, fine
    <3> QED BY <2>3, <3>1
  <2>11. ASSUME NEW t \in Terminals, LoadFiles(t) PROVE Fine
    <3>1. PICK b : Activate(t, NewClient(b))
      BY <2>11 DEF LoadFiles
    <3>2. fine(NewClient(b))
      BY NewIdle DEF fine, Known, Idle
    <3> QED BY <2>3, <3>1, <3>2
  <2>12. ASSUME NEW t \in Terminals, ScriptStep(t) \/ RequestLost(t) PROVE Fine
    BY <1>1, <2>1, <2>11, <2>12, ScriptMoves
  <2>13. CASE \/ \E s \in {"index", "primary", "neutral"} : Restart(s)
              \/ \E t \in Terminals : BeginPut(t)
              \/ UNCHANGED system
    BY <2>1, <2>13 DEF Restart, BeginPut, system
  <2> QED BY <2>6, <2>7, <2>8, <2>9, <2>10, <2>12, <2>13 DEF SystemNext, Finished
<1> QED BY <1>1, <1>3, <1>4 DEF KnownOK
-----------------------------------------------------------------------------
(* The instruction that the walk is of. *)
LEMMA TheWalk ==
    ASSUME Inv, pc # "idle"
    PROVE  /\ active \in Terminals /\ Running(active) /\ Plan \in ThePlans
           /\ at[active] \in DOMAIN Plan.texts[active] /\ at[active] \in Nat \ {0}
           /\ Plan.texts[active][at[active]] = Op(active) /\ Op(active).op = "walk"
           /\ Op(active).end \in {"resolves", "refused", "rejected", "surfaces", "any"}
<1>1. active \in Terminals /\ Doing(active, "walk") /\ Plan \in ThePlans
  BY ThePlan DEF Inv, Places
<1>2. /\ at[active] \in DOMAIN Plan.texts[active] /\ at[active] \in Nat \ {0}
      /\ Plan.texts[active][at[active]] = Op(active) /\ Op(active) \in Instruction
  BY <1>1, TheInstruction DEF Doing, Inv, Text, Plan, Op
<1> HIDE DEF Op
<1>3. Op(active).end \in {"resolves", "refused", "rejected", "surfaces", "any"}
  BY <1>1, <1>2 DEF Instruction, Doing
<1> QED BY <1>1, <1>2, <1>3 DEF Doing

(* What a name may lead to was registered under it, and is signed as it is. *)
LEMMA LeadsToRegistered ==
    ASSUME NEW p \in ThePlans, NEW t, NEW k, NEW n, NEW a \in LeadsTo(p, t, k, n)
    PROVE  /\ \E o \in Registering(p, n) : a = o.addr
           /\ Signed(a).agent_id = a.agent_id /\ Signed(a).agent_did = a.agent_did
           /\ Signed(a).private_facts_url = a.private_facts_url
           /\ Signed(a).registration_type = a.registration_type
           /\ Signed(a).registry_url = a.registry_url
           /\ \A w : HostAsked(Signed(a), w) = HostAsked(a, w)
<1> DEFINE own == {j \in 1..(k - 1) : p.texts[t][j] \in Registering(p, n)}
<1>1. ASSUME own = {} PROVE \E o \in Registering(p, n) : a = o.addr
  <2>1. LeadsTo(p, t, k, n) = {o.addr : o \in Registering(p, n)}
    BY <1>1 DEF LeadsTo
  <2> QED BY <2>1
<1>2. ASSUME own # {} PROVE \E o \in Registering(p, n) : a = o.addr
  <2>1. LeadsTo(p, t, k, n) =
           {p.texts[t][j].addr : j \in {i \in own : \A m \in own : m <= i}}
    BY <1>2 DEF LeadsTo
  <2> QED BY <2>1
<1>3. PICK o \in Registering(p, n) : a = o.addr
  BY <1>1, <1>2
<1>4. o \in Instruction /\ o.op = "register"
  BY <1>3, ScriptsAssumption DEF Registering, Written
<1>5. a \in AgentAddr
  BY <1>3, <1>4, Arguments
<1> HIDE DEF own
<1>6. /\ Signed(a).agent_id = a.agent_id /\ Signed(a).agent_did = a.agent_did
      /\ Signed(a).private_facts_url = a.private_facts_url
      /\ Signed(a).registration_type = a.registration_type
      /\ Signed(a).registry_url = a.registry_url
  BY <1>5 DEF Signed, AgentAddr
<1> QED BY <1>3, <1>6 DEF HostAsked

(* Nobody has come to an instruction that stands against what is in force. *)
LEMMA NobodyElse ==
    ASSUME Inv, pc # "idle", NEW a, NEW creds, Standing(Plan, active, at[active], a, creds),
           NEW u \in Terminals, NEW j \in DOMAIN Plan.texts[u], j <= at[u]
    PROVE  LET o == Plan.texts[u][j]
           IN  /\ o.op = "sever" => o.agent # a.agent_id
               /\ o.op = "host" /\ o.body.agent_id = a.agent_id =>
                     ~ VerifySeverance(o.body.severance, a.agent_did, a.agent_id)
               /\ o.op = "revoke" => \A c \in Shown(creds) :
                     o.issuer = c.issuer => ProviderVC(o.agent).id \notin {c.id, c.status}
<1>1. CASE u = active /\ j >= at[active]
  <2>1. at[active] \in Nat /\ Plan.texts[active] \in Seq(Instruction)
    BY TheWalk, ThePlan DEF Text, Plan, Inv, Places
  <2>2. j = at[active]
    BY <1>1, <2>1
  <2>3. Plan.texts[u][j].op = "walk"
    BY <1>1, <2>2, TheWalk
  <2> QED BY <2>3
<1>2. CASE ~ (u = active /\ j >= at[active])
  BY <1>2 DEF Standing
<1> QED BY <1>1, <1>2

(* What is fit and in force is acceptable. *)
LEMMA FitIsAcceptable ==
    ASSUME Inv, KnownOK, pc # "idle", bundle # None, Fit(addr.agent_did, CredsServed),
           NEW a, a.agent_id = addr.agent_id, a.agent_did = addr.agent_did,
           Standing(Plan, active, at[active], a, CredsServed)
    PROVE  Acceptable(addr, bundle, 0)
<1>1. Plan \in ThePlans /\ active \in Terminals
  BY TheWalk
<1>2. AddrVerified(addr)
  <2>1. addr # None
    BY DEF Inv, FactsOK
  <2>2. PICK o \in Written(Plan, "register") : addr = Signed(o.addr)
    BY <2>1, TheAddress
  <2> QED BY <1>1, <2>2, EntryVerifies
<1>3. ~ VerifySeverance(bundle.severance, addr.agent_did, addr.agent_id)
  <2> SUFFICES ASSUME bundle.severance # None,
                      VerifySeverance(bundle.severance, addr.agent_did, addr.agent_id)
               PROVE  FALSE
    BY DEF VerifySeverance
  <2> DEFINE from(o) ==
        \/ o.op = "sever" /\ o.agent = addr.agent_id
        \/ /\ o.op = "host" /\ o.body.agent_id = addr.agent_id
           /\ bundle.severance = o.body.severance
  <2>1. \E u \in Terminals : \E k \in DOMAIN Plan.texts[u] :
           k <= at[u] /\ from(Plan.texts[u][k])
    BY DEF Inv, FactsOK, Sourced
  <2>2. PICK u \in Terminals : \E k \in DOMAIN Plan.texts[u] :
           k <= at[u] /\ from(Plan.texts[u][k])
    BY <2>1
  <2>3. PICK k \in DOMAIN Plan.texts[u] : k <= at[u] /\ from(Plan.texts[u][k])
    BY <2>2
  <2> QED BY <2>3, NobodyElse
<1>4. ASSUME NEW c \in Shown(CredsServed) PROVE ~ RevokedByIssuer(c, lastList)
  <2> SUFFICES ASSUME NEW n \in DOMAIN lastList, lastList[n].issuer_did = c.issuer,
                      lastList[n].credential_id \in {c.id, c.status}
               PROVE  FALSE
    BY DEF RevokedByIssuer
  <2>1. Revoking(Plan, at, lastList[n])
    BY <1>1, ClientFields DEF KnownOK, Known, Mine
  <2> DEFINE of(u, k) == /\ k <= at[u] /\ Plan.texts[u][k].op = "revoke"
                         /\ lastList[n].credential_id = ProviderVC(Plan.texts[u][k].agent).id
                         /\ lastList[n].issuer_did = Plan.texts[u][k].issuer
  <2>2. PICK u \in Terminals : \E k \in DOMAIN Plan.texts[u] : of(u, k)
    BY <2>1 DEF Revoking
  <2>3. PICK k \in DOMAIN Plan.texts[u] : of(u, k)
    BY <2>2
  <2>4. \A x \in Shown(CredsServed) : Plan.texts[u][k].issuer = x.issuer =>
           ProviderVC(Plan.texts[u][k].agent).id \notin {x.id, x.status}
    BY <2>3, NobodyElse
  <2> QED BY <1>4, <2>3, <2>4
<1>5. /\ Shown(CredsServed) = {bundle.provider_vc, bundle.auditor_vc} \ {None}
      /\ CredsServed.provider_vc = bundle.provider_vc
  BY DEF Shown, CredsServed
<1> QED BY <1>2, <1>3, <1>4, <1>5 DEF Acceptable, Fit, VerifySeverance

(* What a walk resolves is fit. *)
LEMMA ResolvedIsFit ==
    ASSUME Inv, Still, pc = "resolved"
    PROVE  Fit(addr.agent_did, CredsServed)
<1>1. /\ FailClosed /\ bundle # None
  BY FailsClosedNow
     DEF Inv, ClientOK, TypeOK, Fetched, NotSevered, Attested, Corroborated, Accepted
<1>2. /\ provider = bundle.provider_vc /\ auditor = bundle.auditor_vc
      /\ Shown(CredsServed) = {provider, auditor} \ {None}
      /\ CredsServed.provider_vc = provider
  BY <1>1 DEF FailClosed, RestsOnVerified, Shown, CredsServed
<1>3. /\ \A c \in Shown(CredsServed) : BackedNow(c) /\ c.subject = addr.agent_did
      /\ provider # None
      /\ \A i \in RequiredIssuers : \E c \in Shown(CredsServed) : c.issuer = i
  BY <1>1, <1>2 DEF FailClosed, RestsOnVerified, BackedNow, Backed
<1>4. ASSUME NEW c \in Shown(CredsServed)
      PROVE  VerifyCredential(c, TrustedIssuers, 0) = "verified" /\ ~ IsRevoked(c, Revoked)
  <2>1. /\ Authentic(c, TrustedIssuers) /\ ~ IsRevoked(c, Revoked)
        /\ \E t \in since..now : InWindow(c, t)
    BY <1>3, <1>4 DEF BackedNow, Backed
  <2>2. InWindow(c, 0)
    BY <2>1 DEF Still
  <2>3. ~ DatesRaise(c, 0)
    BY <2>2, DatesAssumption DEF InWindow, DatesRaise
  <2> QED BY <2>1, <2>2, <2>3 DEF VerifyCredential
<1> QED BY <1>2, <1>3, <1>4 DEF Fit

(* A walk that a script has prepared ends as the script expects. *)
LEMMA EndsAsExpected ==
    ASSUME Inv, Still, KnownOK, Calm(active), EndWalk
    PROVE  Advance(active)
<1> DEFINE o == Op(active)
           k == at[active]
           good == pc = "resolved"
           expected == /\ o.end \in {"resolves", "surfaces"} => good
                       /\ o.end = "surfaces" => surfaced # {}
                       /\ o.end \in {"refused", "rejected"} => ~ good
<1>1. /\ active \in Terminals /\ Plan \in ThePlans /\ k \in DOMAIN Plan.texts[active]
      /\ Plan.texts[active][k] = o /\ o.op = "walk" /\ pc \in {"resolved", "refused"}
      /\ o.end \in {"resolves", "refused", "rejected", "surfaces", "any"}
      /\ pc # "idle" /\ outcome[active] = "running"
  BY TheWalk DEF EndWalk, Final, Still, Calm, Running
<1>2. ASSUME expected PROVE Advance(active)
  <2>1. \/ o.end = "any"
        \/ o.end \in {"refused", "rejected"} /\ pc = "refused"
        \/ o.end = "resolves" /\ good
        \/ o.end = "surfaces" /\ good /\ surfaced # {}
    BY <1>1, <1>2
  <2> QED BY <2>1 DEF EndWalk
<1> SUFFICES ASSUME o.end # "any", good \/ o.end \in {"resolves", "surfaces"}
             PROVE  expected
  BY <1>1, <1>2
<1>3. /\ Fares(Plan, active, k, Client, seen[active]) /\ Plan.texts[active][k] = o
      /\ Client.pc = pc /\ Client.addr = addr /\ Client.url = url /\ Client.path = path
      /\ Client.bundle = bundle /\ Client.configured = configured
      /\ Client.lastList = lastList
  BY <1>1, ClientFields DEF Calm, Mine, Client
<1>4. bundle # None /\ addr # None
  <2>1. bundle # None
    BY <1>1, <1>3
       DEF Fares, Inv, ClientOK, TypeOK, Fetched, NotSevered, Attested, Corroborated, Accepted
  <2> QED BY <2>1 DEF Inv, FactsOK
<1>5. /\ HasFiled(Plan, active, k, seen[active]) /\ path \in o.paths
      /\ \E a \in LeadsTo(Plan, active, k, o.name) : addr = Signed(a)
      /\ url # None => url = Url(HostAsked(addr, path), addr.agent_id)
  BY <1>1, <1>3, <1>4 DEF Fares
<1>6. PICK a \in LeadsTo(Plan, active, k, o.name) : addr = Signed(a)
  BY <1>5
<1>7. /\ a.agent_id = addr.agent_id /\ a.agent_did = addr.agent_did
      /\ HostAsked(a, path) = HostAsked(addr, path)
  BY <1>1, <1>6, LeadsToRegistered
<1>8. Prepared(Plan, active, k, a, CredsServed)
  <2>1. CredsServed \in CredsOf(Plan, a.agent_id)
    BY <1>4, <1>7 DEF Inv, FactsOK
  <2> QED BY <1>1, <1>6, <2>1, PreparationAssumption
<1> DEFINE h == HostAsked(a, path)
<1>9. good => url[1] = h
  <2>1. good => url # None
    BY DEF Inv, ClientOK, SourceInvariant, Fetched, NotSevered, Attested, Corroborated, Accepted
  <2> QED BY <1>5, <1>7, <2>1 DEF Url
<1>10. h \in {HostAsked(a, w) : w \in o.paths}
  BY <1>5
<1> HIDE DEF o, k, h
<1>11. ASSUME o.end \in {"resolves", "surfaces"} PROVE good
  <2>1. Acceptable(addr, bundle, 0)
    BY <1>1, <1>4, <1>7, <1>8, <1>11, FitIsAcceptable DEF Prepared, k
  <2>2. since..now = {0}
    BY DEF Still
  <2> QED BY <1>1, <1>4, <2>1, <2>2 DEF Still, RefusedLate, Cause
<1>12. ASSUME o.end = "surfaces" PROVE surfaced # {}
  <2>1. a.agent_id = Summarizer /\ File(h) \in Before(Plan.texts[active], k)
    BY <1>1, <1>8, <1>10, <1>12 DEF Prepared
  <2>2. <<h, Summarizer, "contested">> \in seen[active]
    BY <1>5, <2>1 DEF HasFiled, File
  <2> QED BY <1>7, <1>9, <1>11, <1>12, <2>1, <2>2, ComplaintSurfacesNow DEF ComplaintSurfaces
<1>13. ASSUME o.end = "rejected" PROVE ~ good
  BY <1>1, <1>7, <1>8, <1>13, ResolvedIsFit DEF Prepared
<1>14. ASSUME o.end = "refused" PROVE ~ good
  <2>1. CASE Sever(h, a.agent_id) \in Before(Plan.texts[active], k)
    <3>1. <<h, a.agent_id, "severed">> \in seen[active]
      BY <1>5, <2>1 DEF HasFiled, Sever
    <3> QED BY <1>7, <1>9, <3>1, ExitHoldsNow DEF ExitHolds
  <2>2. ASSUME Asks(Plan, active, k), NEW r \in Before(Plan.texts[active], k),
               r.op = "revoke", r.issuer = ProviderIssuer, NEW c \in Shown(CredsServed),
               c.id = ProviderVC(r.agent).id, good
        PROVE  FALSE
    <3>1. configured /\ c.id \in Withdrawn(Plan, active, k)
      BY <1>3, <2>2 DEF Fares, Withdrawn
    <3>2. Lists(lastList, c.id) /\ Marked(Plan, revocations, c.id)
      <4>1. pc \in {"lookup"} \cup Bound
        BY <2>2 DEF Bound, Fetched, NotSevered, Attested, Corroborated, Accepted
      <4> QED BY <1>1, <1>3, <3>1, <4>1 DEF Fares, Calm, k
    <3>3. c \in {provider, auditor} \ {None}
      BY <2>2, FailsClosedNow DEF Inv, ClientOK, FailClosed, RestsOnVerified, Shown, CredsServed
    <3> QED BY <2>2, <3>2, <3>3, ListedIsRefused
  <2> QED BY <1>1, <1>8, <1>10, <1>14, <2>1, <2>2 DEF Prepared
<1> QED BY <1>11, <1>12, <1>13, <1>14
-----------------------------------------------------------------------------
(* A script that nothing disturbs goes on: what it asks for is there, and   *)
(* its walks end as it expects.                                             *)
LEMMA CalmMoves ==
    ASSUME Inv, Still, SavedOK, KnownOK, CalmOK, [SystemNext]_system,
           NEW t \in Terminals, t \notin disturbed'
    PROVE  \/ UNCHANGED <<at[t], outcome[t]>>
           \/ /\ Running(t) /\ Advance(t)
              /\ ScriptStep(t) \/ (EndWalk /\ t = active)
<1> DEFINE o == Op(t)
<1>1. /\ t \notin disturbed /\ outages = {} /\ Calm(t) /\ outcome[t] \in {"running", "done"}
      /\ ClientOK /\ Places /\ EntriesOK /\ plan' = plan /\ DOMAIN outcome = Terminals
      /\ Plan \in ThePlans
  BY StillCalm, PlacesGrow, ThePlan DEF CalmOK, Calm, Inv, IndexOK, Places
<1>2. ASSUME NEW u \in Terminals \ {t}, ScriptStep(u) \/ RequestLost(u)
      PROVE  UNCHANGED <<at[t], outcome[t]>>
  BY <1>1, <1>2, ScriptMoves, MovesPlace
<1>3. ASSUME EndWalk, t # active PROVE UNCHANGED <<at[t], outcome[t]>>
  <2>1. Running(active) /\ Moves(active) /\ active \in Terminals
    BY <1>1, <1>3, EndWalkMoves DEF EndWalk, Places
  <2> QED BY <1>1, <1>3, <2>1, MovesPlace
<1>4. EndWalk /\ t = active => Running(t) /\ Advance(t)
  BY <1>1, EndsAsExpected DEF EndWalk
<1>5. ~ RequestLost(t) /\ ~ \E s \in {"index", "primary", "neutral"} : Restart(s)
  BY DEF RequestLost, Restart
<1>6. ASSUME ScriptStep(t) PROVE Running(t) /\ Advance(t)
  <2>1. /\ Running(t) /\ outcome[t] = "running" /\ at[t] \in DOMAIN Text(t)
        /\ o \in Instruction /\ o \in Written(Plan, o.op)
    BY <1>1, <1>6, ScriptMoves, TheInstruction DEF Running
  <2>2. at[t] \in DOMAIN Plan.texts[t] /\ Plan.texts[t][at[t]] = o
    BY <2>1 DEF Text, Plan, Op
  <2>3. /\ o.op \in {"tamper", "read"} => entries[o.name] # Nothing
        /\ o.op = "file" => StoreOf(o.host)[Summarizer] # Nothing
        /\ o.op = "sever" => StoreOf(o.host)[o.agent] # Nothing
    <3>1. /\ o.op \in {"tamper", "read"} => Reached(Plan, t, at[t], Registering(Plan, o.name))
          /\ o.op = "file" => Reached(Plan, t, at[t], Hosting(Plan, o.host, Summarizer))
          /\ o.op = "sever" => Reached(Plan, t, at[t], Hosting(Plan, o.host, o.agent))
      <4> HIDE DEF o
      <4> QED BY <1>1, <2>2, PreparationAssumption
    <3> QED BY <1>1, <2>1, <3>1, HostedFound
  <2>4. ASSUME NEW sets, NEW undoes, NEW affects, Answered(t, sets, undoes, affects)
        PROVE  Advance(t)
    BY <2>4 DEF Answered
  <2>5. CASE LoadFiles(t) \/ SaveFiles(t)
    BY <2>1, <2>5 DEF LoadFiles, SaveFiles
  <2>6. CASE HostFacts(t)
    BY <2>1, <2>4, <2>6 DEF HostFacts
  <2>7. CASE RegisterAddr(t)
    BY <2>1, <2>7 DEF RegisterAddr
  <2>8. CASE RevokeCredential(t)
    BY <1>1, <2>1, <2>8 DEF RevokeCredential, End
  <2>9. CASE FileComplaint(t)
    <3>1. o.op = "file" /\ o.host \in Hosts /\ ComplaintId # None
          /\ Complaint.agent_id = Summarizer /\ Complaint.contestation_id = ComplaintId
      BY <2>1, <2>9, Arguments, ComplaintAssumption DEF FileComplaint, Doing, Complaint
    <3>2. reply'.status = 200
      <4>1. CASE o.host = "primary"
        BY <2>3, <2>9, <3>1, <4>1
           DEF FileComplaint, P!AddContestation, P!ContestationNotAdded, P!Hosted, P!Ok,
               P!Duplicate, StoreOf
      <4>2. CASE o.host = "neutral"
        BY <2>3, <2>9, <3>1, <4>2
           DEF FileComplaint, N!AddContestation, N!ContestationNotAdded, N!Hosted, N!Ok,
               N!Duplicate, StoreOf
      <4> QED BY <3>1, <4>1, <4>2 DEF Hosts
    <3> QED BY <2>1, <2>4, <2>9, <3>2 DEF FileComplaint, Filed
  <2>10. CASE FileSeverance(t)
    <3>1. o.op = "sever" /\ o.host \in Hosts
      BY <2>1, <2>10, Arguments DEF FileSeverance, Doing
    <3>2. reply'.status = 200
      <4>1. CASE o.host = "primary"
        BY <2>3, <2>10, <3>1, <4>1
           DEF FileSeverance, P!SetSeverance, P!SeveranceNotSet, P!Hosted, P!Severed, P!Ok,
               P!Duplicate, StoreOf
      <4>2. CASE o.host = "neutral"
        BY <2>3, <2>10, <3>1, <4>2
           DEF FileSeverance, N!SetSeverance, N!SeveranceNotSet, N!Hosted, N!Severed, N!Ok,
               N!Duplicate, StoreOf
      <4> QED BY <3>1, <4>1, <4>2 DEF Hosts
    <3> QED BY <2>1, <2>4, <2>10, <3>2 DEF FileSeverance, Filed
  <2>11. ASSUME o.op \in {"tamper", "read"}
         PROVE  \E w \in Written(Plan, "register") :
                   /\ entries[o.name] = Signed(w.addr)
                   /\ RegisteredBy(Plan, at, o.name, Signed(w.addr))
    <3>1. o.name \in Names
      BY <2>1, <2>11, Arguments
    <3>2. RegisteredBy(Plan, at, o.name, entries[o.name])
      BY <1>1, <2>3, <2>11, <3>1 DEF EntriesOK
    <3>3. PICK u \in Terminals : \E k \in DOMAIN Plan.texts[u] :
             Plan.texts[u][k].op = "register" /\ Signed(Plan.texts[u][k].addr) = entries[o.name]
      BY <3>2 DEF RegisteredBy
    <3>4. PICK k \in DOMAIN Plan.texts[u] :
             Plan.texts[u][k].op = "register" /\ Signed(Plan.texts[u][k].addr) = entries[o.name]
      BY <3>3
    <3>5. Plan.texts[u][k] \in Written(Plan, "register")
      BY <3>4 DEF Written
    <3> QED BY <3>2, <3>4, <3>5
  <2>12. CASE TamperAddr(t)
    <3>1. o.op = "tamper"
      BY <2>12 DEF TamperAddr, Doing
    <3>2. AddrVerified(entries[o.name]) /\ ~ AddrVerified([entries[o.name] EXCEPT !.by = None])
      BY <1>1, <2>11, <3>1, EntryVerifies
    <3> QED BY <2>1, <2>3, <2>12, <3>1, <3>2 DEF TamperAddr
  <2>13. CASE ReadFacts(t)
    <3> DEFINE a == entries[o.name]
               u == a.primary_facts_url
    <3>1. o.op = "read"
      BY <2>13 DEF ReadFacts, Doing
    <3>2. RegisteredBy(Plan, at, o.name, a) /\ a \in Addrs /\ u = Url("primary", a.agent_id)
          /\ a.agent_id \in AgentIds /\ Url("primary", a.agent_id) \in Urls
      <4>1. PICK w \in Written(Plan, "register") :
               a = Signed(w.addr) /\ RegisteredBy(Plan, at, o.name, Signed(w.addr))
        BY <2>11, <3>1
      <4>2. a \in Addrs /\ u = Url("primary", a.agent_id) /\ a.agent_id \in AgentIds
        BY <1>1, <4>1, AddressLeads
      <4>3. a.agent_id = w.addr.agent_id
        <5>1. w \in Instruction /\ w.op = "register"
          BY <1>1, <4>1, ScriptsAssumption DEF Written
        <5>2. w.addr \in AgentAddr
          BY <5>1, Arguments
        <5> QED BY <4>1, <5>2 DEF Signed, AgentAddr
      <4> HIDE DEF a, u
      <4>4. Url("primary", w.addr.agent_id) \in Urls
        BY <1>1, <4>1, AddressesAssumption DEF Hosts
      <4> QED BY <4>1, <4>2, <4>3, <4>4
    <3> HIDE DEF a
    <3>3. u # None /\ u[1] = "primary"
      BY <3>2, NoneAssumption DEF Url
    <3>4. HostedAt(u)
      BY <1>1, <3>2, <3>3, RegisteredServed
    <3>5. P!Hosted(u[2])
      BY <3>3, <3>4 DEF HostedAt
    <3> QED BY <2>1, <2>3, <2>13, <3>1, <3>5 DEF ReadFacts, a
  <2>14. CASE GiveVerdict(t)
    BY <2>1, <2>14 DEF GiveVerdict
  <2> QED BY <1>6, <2>1, <2>5, <2>6, <2>7, <2>8, <2>9, <2>10, <2>12, <2>13, <2>14 DEF ScriptStep
<1>7. ASSUME \/ \E u \in Terminals : BeginPut(u) \/ Switch(u)
             \/ BeginWalk \/ WalkStep \/ FetchFails \/ UNCHANGED system
      PROVE  UNCHANGED <<at[t], outcome[t]>>
  BY <1>7 DEF BeginPut, Switch, BeginWalk, WalkStep, FetchFails, system
<1> QED BY <1>2, <1>3, <1>4, <1>5, <1>6, <1>7 DEF SystemNext, Finished
-----------------------------------------------------------------------------
(* What a text has done, and where names lead it, one step later. *)
LEMMA OneMore ==
    ASSUME NEW p \in ThePlans, NEW t \in Terminals, NEW k \in Nat \ {0}
    PROVE  /\ Before(p.texts[t], k + 1) = Before(p.texts[t], k) \cup {p.texts[t][k]}
           /\ \A n : p.texts[t][k] \notin Registering(p, n) =>
                 LeadsTo(p, t, k + 1, n) = LeadsTo(p, t, k, n)
           /\ \A n : p.texts[t][k] \in Registering(p, n) =>
                 p.texts[t][k].addr \in LeadsTo(p, t, k + 1, n)
           /\ \A n : (\A j \in 1..(k - 1) : p.texts[t][j] \notin Registering(p, n)) =>
                 \A o \in Registering(p, n) : o.addr \in LeadsTo(p, t, k, n)
           /\ p.texts[t][k].op # "load" /\ Asks(p, t, k + 1) => Asks(p, t, k)
           /\ p.texts[t][k].op = "load" /\ Asks(p, t, k + 1) => p.texts[t][k] = Load({TRUE})
<1>1. 1..(k + 1 - 1) = 1..(k - 1) \cup {k} /\ k \notin 1..(k - 1)
  OBVIOUS
<1>2. Before(p.texts[t], k + 1) = Before(p.texts[t], k) \cup {p.texts[t][k]}
  BY <1>1 DEF Before
<1> DEFINE own(m, n) == {j \in 1..(m - 1) : p.texts[t][j] \in Registering(p, n)}
           last(m, n) ==
              {p.texts[t][j].addr : j \in {i \in own(m, n) : \A l \in own(m, n) : l <= i}}
<1>3. \A m, n : LeadsTo(p, t, m, n) = IF own(m, n) = {} THEN {o.addr : o \in Registering(p, n)}
                                      ELSE last(m, n)
  BY DEF LeadsTo
<1>4. ASSUME NEW n, p.texts[t][k] \notin Registering(p, n)
      PROVE  LeadsTo(p, t, k + 1, n) = LeadsTo(p, t, k, n)
  <2>1. own(k + 1, n) = own(k, n)
    BY <1>1, <1>4
  <2> QED BY <1>3, <2>1
<1>5. ASSUME NEW n, p.texts[t][k] \in Registering(p, n)
      PROVE  p.texts[t][k].addr \in LeadsTo(p, t, k + 1, n)
  <2>1. k \in own(k + 1, n) /\ \A l \in own(k + 1, n) : l <= k
    BY <1>1, <1>5
  <2> HIDE DEF own
  <2>2. p.texts[t][k].addr \in last(k + 1, n)
    BY <2>1
  <2> QED BY <1>3, <2>1, <2>2
<1>6. ASSUME NEW n, \A j \in 1..(k - 1) : p.texts[t][j] \notin Registering(p, n),
             NEW o \in Registering(p, n)
      PROVE  o.addr \in LeadsTo(p, t, k, n)
  <2>1. own(k, n) = {}
    BY <1>6
  <2> QED BY <1>3, <2>1
<1>7. ASSUME p.texts[t][k].op # "load", Asks(p, t, k + 1) PROVE Asks(p, t, k)
  <2>1. PICK j \in 1..(k + 1 - 1) :
           /\ p.texts[t][j] = Load({TRUE})
           /\ \A i \in (j + 1)..(k + 1 - 1) : p.texts[t][i].op # "load"
    BY <1>7 DEF Asks
  <2>2. j # k
    BY <1>7, <2>1 DEF Load
  <2>3. j \in 1..(k - 1) /\ \A i \in (j + 1)..(k - 1) : i \in (j + 1)..(k + 1 - 1)
    BY <2>2
  <2> QED BY <2>1, <2>3 DEF Asks
<1>8. ASSUME p.texts[t][k].op = "load", Asks(p, t, k + 1)
      PROVE  p.texts[t][k] = Load({TRUE})
  <2>1. PICK j \in 1..(k + 1 - 1) :
           /\ p.texts[t][j] = Load({TRUE})
           /\ \A i \in (j + 1)..(k + 1 - 1) : p.texts[t][i].op # "load"
    BY <1>8 DEF Asks
  <2>2. j = k \/ k \in (j + 1)..(k + 1 - 1)
    OBVIOUS
  <2> QED BY <1>8, <2>1, <2>2
<1> QED BY <1>2, <1>4, <1>5, <1>6, <1>7, <1>8

(* A walk goes on as well with a client that agrees on what is read, and    *)
(* whatever happens to acknowledged revocations.                            *)
LEMMA FaresAlike ==
    ASSUME NEW p, NEW t, NEW k, NEW c, NEW d, NEW s, NEW s2, Fares(p, t, k, c, s),
           Alike(d, c), HasFiled(p, t, k, s) => HasFiled(p, t, k, s2)
    PROVE  Fares(p, t, k, d, s2)
BY DEF Fares, Alike

(* Scripts host facts of what they register. *)
LEMMA CredsExist ==
    ASSUME NEW p \in ThePlans, NEW w \in Written(p, "register")
    PROVE  CredsOf(p, w.addr.agent_id) # {}
<1>1. PICK t \in Terminals : \E k \in DOMAIN p.texts[t] : p.texts[t][k] = w /\ w.op = "register"
  BY DEF Written
<1>2. PICK k \in DOMAIN p.texts[t] : p.texts[t][k] = w /\ w.op = "register"
  BY <1>1
<1> DEFINE a == w.addr.agent_id
           u == w.addr.primary_facts_url
<1>3. u = Url("primary", a) /\ u \in Urls
  BY AddressesAssumption DEF Hosts
<1>4. u # None /\ u[2] = a
  BY <1>3, NoneAssumption DEF Url
<1> HIDE DEF u, a
<1>5. HostedBefore(p.texts[t], k, u[1], u[2])
  BY <1>2, <1>4, OrderAssumption DEF u
<1>6. PICK j \in 1..(k - 1) : p.texts[t][j].op = "host" /\ p.texts[t][j].body.agent_id = a
  BY <1>4, <1>5 DEF HostedBefore
<1>7. p.texts[t] \in Seq(Instruction)
  BY ScriptsAssumption
<1>8. j \in DOMAIN p.texts[t]
  BY <1>2, <1>7
<1>9. p.texts[t][j] \in Written(p, "host")
  BY <1>6, <1>8 DEF Written
<1> QED BY <1>6, <1>9 DEF CredsOf, a

(* What a calm walk has to go by. *)
LEMMA CalmWalk ==
    ASSUME Inv, SavedOK, KnownOK, Calm(active), pc # "idle"
    PROVE  LET o == Op(active)
           IN  /\ entries[o.name] # Nothing =>
                     \E a \in LeadsTo(Plan, active, at[active], o.name) :
                        entries[o.name] = Signed(a)
               /\ path \in o.paths
               /\ o.end # "any" => entries[o.name] # Nothing
               /\ addr # None =>
                     /\ addr \in Addrs /\ AddrVerified(addr)
                     /\ \E n \in Names : RegisteredBy(Plan, at, n, addr)
                     /\ addr.primary_facts_url = Url("primary", addr.agent_id)
                     /\ addr.private_facts_url \in {None, Url("neutral", addr.agent_id)}
                     /\ addr.registry_url \in {None, RegistryUrl(addr.agent_id)}
                     /\ addr.agent_id \in AgentIds
                     /\ \A h \in Hosts : Url(h, addr.agent_id) \in Urls \ {None}
                     /\ o.end \in {"resolves", "surfaces"} /\ HostAsked(addr, path) = "neutral"
                           => addr.private_facts_url # None
<1> DEFINE o == Op(active)
           k == at[active]
<1>1. /\ active \in Terminals /\ Running(active) /\ Plan \in ThePlans
      /\ k \in DOMAIN Plan.texts[active] /\ Plan.texts[active][k] = o /\ o.op = "walk"
      /\ o.end \in {"resolves", "refused", "rejected", "surfaces", "any"}
      /\ o \in Instruction /\ k \in DOMAIN Text(active)
  BY TheWalk, TheInstruction DEF Inv
<1>2. o.name \in Names
  BY <1>1, Arguments
<1>3. /\ outages = {} /\ outcome[active] = "running"
      /\ \A n \in Names : entries[n] # Nothing =>
                \E a \in LeadsTo(Plan, active, k, n) : entries[n] = Signed(a)
      /\ Fares(Plan, active, k, Client, seen[active])
  BY <1>1 DEF Calm, Running, Mine
<1>4. /\ path \in o.paths
      /\ addr # None => \E a \in LeadsTo(Plan, active, k, o.name) : addr = Signed(a)
  <2>1. Client.pc = pc /\ Client.addr = addr /\ Client.path = path
    BY DEF Client
  <2> QED BY <1>1, <1>3, <2>1 DEF Fares
<1>5. o.end # "any" => entries[o.name] # Nothing
  <2>1. o.end # "any" => Reached(Plan, active, k, Registering(Plan, o.name))
    BY <1>1, PreparationAssumption
  <2> QED BY <1>1, <1>3, <2>1, HostedFound
<1>6. ASSUME addr # None
      PROVE  /\ addr \in Addrs /\ AddrVerified(addr)
             /\ \E n \in Names : RegisteredBy(Plan, at, n, addr)
             /\ addr.primary_facts_url = Url("primary", addr.agent_id)
             /\ addr.private_facts_url \in {None, Url("neutral", addr.agent_id)}
             /\ addr.registry_url \in {None, RegistryUrl(addr.agent_id)}
             /\ addr.agent_id \in AgentIds
             /\ \A h \in Hosts : Url(h, addr.agent_id) \in Urls \ {None}
             /\ o.end \in {"resolves", "surfaces"} /\ HostAsked(addr, path) = "neutral"
                   => addr.private_facts_url # None
  <2>1. PICK a \in LeadsTo(Plan, active, k, o.name) : addr = Signed(a)
    BY <1>4, <1>6
  <2>2. PICK w \in Registering(Plan, o.name) : a = w.addr
    BY <1>1, LeadsToRegistered
  <2>3. w \in Written(Plan, "register") /\ addr = Signed(w.addr)
    BY <2>1, <2>2 DEF Registering
  <2>4. /\ addr.agent_id = a.agent_id /\ addr.private_facts_url = a.private_facts_url
        /\ HostAsked(addr, path) = HostAsked(a, path)
    BY <1>1, <2>1, LeadsToRegistered
  <2>5. AddrVerified(addr)
    BY <1>1, <2>3, EntryVerifies
  <2>6. \E n \in Names : RegisteredBy(Plan, at, n, addr)
    BY <1>1, <1>6, ClientFields DEF KnownOK, Known, Mine
  <2>7. \A h \in Hosts : Url(h, a.agent_id) \in Urls \ {None}
    BY <1>1, <2>2, <2>3, AddressesAssumption, NoneAssumption
  <2>8. ASSUME o.end \in {"resolves", "surfaces"}, HostAsked(addr, path) = "neutral"
        PROVE  addr.private_facts_url # None
    <3>1. PICK c \in CredsOf(Plan, a.agent_id) : TRUE
      BY <1>1, <2>2, <2>3, CredsExist
    <3>2. Prepared(Plan, active, k, a, c)
      BY <1>1, <2>1, <2>8, PreparationAssumption
    <3>3. "neutral" \in {HostAsked(a, w2) : w2 \in o.paths}
      BY <1>4, <2>4, <2>8
    <3> QED BY <1>1, <2>4, <2>8, <3>2, <3>3 DEF Prepared
  <2> HIDE DEF o, k
  <2>9. /\ addr \in Addrs /\ addr.primary_facts_url = Url("primary", addr.agent_id)
        /\ addr.private_facts_url \in {None, Url("neutral", addr.agent_id)}
        /\ addr.registry_url \in {None, RegistryUrl(addr.agent_id)}
        /\ addr.agent_id \in AgentIds
    BY <1>1, <2>3, AddressLeads
  <2> QED BY <2>4, <2>5, <2>6, <2>7, <2>8, <2>9
<1> HIDE DEF k
<1> QED BY <1>2, <1>3, <1>4, <1>5, <1>6 DEF k
(* The facts of a calm walk are there. *)
LEMMA ServedFactsOfWalk ==
    ASSUME Inv, SavedOK, KnownOK, Calm(active), pc = "fetch",
           Op(active).end \in {"resolves", "surfaces"}
    PROVE  Served \in Bundle
<1>1. /\ addr # None /\ url # None /\ Plan \in ThePlans
  BY ThePlan DEF Inv, Places, ClientOK, TypeOK, SourceInvariant, Bound, Fetched
<1> DEFINE h == HostAsked(addr, path)
           a == addr.agent_id
<1>2. url = Url(h, a)
  <2>1. Client.pc = pc /\ Client.addr = addr /\ Client.path = path /\ Client.url = url
    BY DEF Client
  <2>2. Fares(Plan, active, at[active], Client, seen[active])
    BY TheWalk DEF Calm, Running, Mine
  <2> QED BY <1>1, <2>1, <2>2 DEF Fares
<1>3. h \in Hosts
  BY DEF HostAsked, Hosts
<1>4. /\ url \in {addr.primary_facts_url, addr.private_facts_url} \ {None} /\ a \in AgentIds
      /\ \E n \in Names : RegisteredBy(Plan, at, n, addr)
  <2> HIDE DEF h
  <2>1. h = "primary" \/ h = "neutral"
    BY <1>3 DEF Hosts
  <2>2. h = "neutral" => addr.private_facts_url # None
    BY <1>1, CalmWalk DEF h
  <2> QED BY <1>1, <1>2, <2>1, <2>2, CalmWalk
<1>5. url[1] = h /\ url[2] = a
  BY <1>2 DEF Url
<1> HIDE DEF h, a
<1>6. url[1] \in outages \/ HostedAt(url)
  BY <1>4, RegisteredServed
<1>7. HostedAt(url)
  BY <1>6 DEF Calm
<1> DEFINE b == StoreOf(h)[a]
<1>8. b = IF url[1] = "primary" THEN pstore[url[2]] ELSE nstore[url[2]]
  BY <1>5 DEF StoreOf
<1>9. b # Nothing
  <2>1. CASE h = "primary"
    BY <1>5, <1>7, <2>1 DEF HostedAt, P!Hosted, StoreOf
  <2>2. CASE h = "neutral"
    BY <1>5, <1>7, <2>2 DEF HostedAt, N!Hosted, StoreOf
  <2> QED BY <1>3, <2>1, <2>2 DEF Hosts
<1>10. b \in Stored(Plan, a)
  BY <1>3, <1>4, <1>9 DEF Inv, HostsOK, HostOK, Found
<1> HIDE DEF b
<1>11. [severance |-> b.severance, provider_vc |-> b.creds.provider_vc,
        auditor_vc |-> b.creds.auditor_vc,
        contestations |-> InList(b.contestations)] \in Bundle
  <2>1. a \in AgentIds
    BY <1>4
  <2> QED BY <1>1, <1>10, <2>1, AnswerIsBundle
<1> QED BY <1>8, <1>9, <1>11 DEF Served

(* A calm walk fares as it should, whatever its next step. *)
LEMMA FaresWalk ==
    ASSUME Inv, Still, SavedOK, KnownOK, Calm(active), WalkStep
    PROVE  Fares(Plan, active, at[active], Client', seen[active])
<1> DEFINE o == Op(active)
           k == at[active]
<1> USE DEF Bound, Fetched, NotSevered, Attested, Corroborated, Accepted
<1>1. /\ pc # "idle" /\ pc \in Stages
      /\ configured' = configured /\ path' = path
      /\ \/ UNCHANGED lastList
         \/ pc = "refresh" /\ RefreshRevocations(Listed) /\ configured
  BY DEF WalkStep, RefreshRevocations, LookupAddr, SelectFactsUrl, FollowRegistry,
         FetchFacts, CheckSeverance, VerifyProvider, VerifyAuditor, EnforceThreshold,
         SurfaceContestations, Act, client, walk, Stages
<1>2. /\ active \in Terminals /\ Plan \in ThePlans /\ Plan.texts[active][k] = o
      /\ o.op = "walk" /\ Running(active)
  BY <1>1, TheWalk
<1>3. Fares(Plan, active, k, Client, seen[active])
  BY <1>2 DEF Calm, Running, Mine
<1>4. /\ Asks(Plan, active, k) => configured
      /\ HasFiled(Plan, active, k, seen[active]) /\ path \in o.paths
      /\ addr # None => \E a \in LeadsTo(Plan, active, k, o.name) : addr = Signed(a)
      /\ url # None => url = Url(HostAsked(addr, path), addr.agent_id)
      /\ configured /\ pc \in {"lookup"} \cup Bound =>
            \A i \in Withdrawn(Plan, active, k) : Lists(lastList, i)
  <2>1. /\ Client.pc = pc /\ Client.addr = addr /\ Client.path = path /\ Client.url = url
        /\ Client.configured = configured /\ Client.lastList = lastList
    BY DEF Client
  <2> QED BY <1>1, <1>2, <1>3, <2>1 DEF Fares
<1>5. SUFFICES /\ addr' # None => \E a \in LeadsTo(Plan, active, k, o.name) : addr' = Signed(a)
               /\ url' # None => url' = Url(HostAsked(addr', path), addr'.agent_id)
               /\ configured /\ pc' \in {"lookup"} \cup Bound =>
                     \A i \in Withdrawn(Plan, active, k) : Lists(lastList', i)
               /\ pc' = "refused" /\ o.end \in {"resolves", "surfaces"} => bundle' # None
  <2>1. /\ Client'.pc = pc' /\ Client'.addr = addr' /\ Client'.path = path
        /\ Client'.url = url' /\ Client'.configured = configured
        /\ Client'.lastList = lastList' /\ Client'.bundle = bundle'
    BY <1>1 DEF Client
  <2> HIDE DEF Bound, Fetched, NotSevered, Attested, Corroborated, Accepted
  <2> QED BY <1>2, <1>4, <1>5, <2>1 DEF Fares
<1> DEFINE there == o.end \in {"resolves", "surfaces"}
<1>6. /\ TypeOK /\ SourceInvariant /\ Unreachable # Garbled
      /\ addr # None =>
            /\ addr \in Addrs /\ AddrVerified(addr)
            /\ addr.primary_facts_url = Url("primary", addr.agent_id)
            /\ addr.private_facts_url \in {None, Url("neutral", addr.agent_id)}
            /\ addr.registry_url \in {None, RegistryUrl(addr.agent_id)}
            /\ \A h \in Hosts : Url(h, addr.agent_id) # None
            /\ there /\ HostAsked(addr, path) = "neutral" => addr.private_facts_url # None
  BY <1>1, CalmWalk, NoAnswerAssumption DEF Inv, ClientOK
<1> HIDE DEF o, k
<1>7. CASE RefreshRevocations(Listed)
  <2>1. UNCHANGED <<addr, url, bundle>> /\ pc' \in {"lookup", "raised"}
    BY <1>7 DEF RefreshRevocations, walk
  <2>2. /\ Listed \notin {Unreachable, Garbled}
        /\ \A c : Marked(Plan, revocations, c) => Lists(Listed, c)
    BY TheAnswers, ListedIsList, NoAnswerAssumption DEF Inv, IndexOK
  <2>3. configured => lastList' = Listed
    BY <1>7, <2>2 DEF RefreshRevocations
  <2>4. \A c \in Withdrawn(Plan, active, k) : Marked(Plan, revocations, c)
    BY <1>2 DEF Calm, Running, k
  <2> QED BY <1>4, <2>1, <2>2, <2>3, <2>4
<1>8. CASE LookupAddr(Lookup(o.name))
  <2>1. pc = "lookup" /\ UNCHANGED <<url, bundle, lastList>> /\ url = None /\ addr = None
    BY <1>6, <1>8 DEF LookupAddr, client, SourceInvariant
  <2>2. UNCHANGED addr \/ (addr' = entries[o.name] /\ entries[o.name] # Nothing)
    BY <1>8, FailureAssumption DEF LookupAddr, Lookup
  <2>3. entries[o.name] # Nothing =>
           \E a \in LeadsTo(Plan, active, k, o.name) : entries[o.name] = Signed(a)
    BY <1>1, CalmWalk DEF o, k
  <2>4. ASSUME pc' = "refused", there PROVE FALSE
    <3>1. entries[o.name] # Nothing
      BY <1>1, <2>4, CalmWalk DEF o
    <3>2. PICK a \in LeadsTo(Plan, active, k, o.name) : entries[o.name] = Signed(a)
      BY <2>3, <3>1
    <3>3. PICK w \in Registering(Plan, o.name) : a = w.addr
      BY <1>2, LeadsToRegistered
    <3>4. w \in Written(Plan, "register")
      BY <3>3 DEF Registering
    <3>5. Signed(w.addr) \in Addrs /\ AddrVerified(Signed(w.addr))
      BY <1>2, <3>4, AddressLeads, EntryVerifies
    <3> QED BY <1>8, <2>4, <3>1, <3>2, <3>3, <3>5, FailureAssumption DEF LookupAddr, Lookup
  <2> QED BY <1>4, <2>1, <2>2, <2>3, <2>4
<1>9. CASE SelectFactsUrl
  <2>1. /\ pc = "select" /\ UNCHANGED <<addr, bundle, lastList>> /\ addr # None /\ url = None
        /\ ~ Routed
    BY <1>6, <1>9 DEF SelectFactsUrl, client, SourceInvariant, TypeOK
  <2>2. HostAsked(addr, path) = IF path = "private" THEN "neutral" ELSE "primary"
    BY <1>6, <2>1 DEF HostAsked, Routed, TypeOK
  <2>3. IF path = "private" THEN GoTo(addr.private_facts_url, "neutral")
        ELSE GoTo(addr.primary_facts_url, "primary")
    BY <1>9 DEF SelectFactsUrl
  <2> DEFINE u == Url(HostAsked(addr, path), addr.agent_id)
  <2>4. (url' = u \/ url' = url) /\ (pc' = "refused" => ~ there)
    BY <1>6, <2>1, <2>2, <2>3 DEF GoTo, Hosts
  <2> QED BY <1>4, <2>1, <2>4
<1>10. CASE FollowRegistry(Routing)
  <2>1. /\ pc = "select" /\ UNCHANGED <<addr, bundle, lastList>> /\ addr # None /\ url = None
        /\ Routed
    BY <1>6, <1>10 DEF FollowRegistry, client, SourceInvariant, TypeOK
  <2> DEFINE u == Url("primary", addr.agent_id)
  <2>2. Routing.facts_url = u /\ Routing.private_facts_url = None /\ u # None
    BY <1>6, <2>1 DEF Routing, Routed, RegistryUrl, Url, Hosts
  <2>3. Routing \notin {Unreachable, Garbled}
    BY <2>1, TheAnswers, NoAnswerAssumption
  <2>4. GoTo(Routing.facts_url, "enterprise")
    BY <1>10, <2>2, <2>3 DEF FollowRegistry
  <2>5. HostAsked(addr, path) = "primary"
    BY <2>1 DEF HostAsked, Routed
  <2>6. url' = u /\ pc' = "fetch"
    BY <2>2, <2>4 DEF GoTo
  <2> QED BY <1>4, <2>1, <2>5, <2>6
<1>11. CASE FetchFacts(Served)
  <2>1. pc = "fetch" /\ UNCHANGED <<addr, url, lastList>>
    BY <1>11 DEF FetchFacts, client
  <2>2. ASSUME there PROVE pc' = "exit"
    <3>1. Served \notin {Unreachable, Garbled}
      BY <2>1, <2>2, ServedFactsOfWalk, NoAnswerAssumption DEF o
    <3> QED BY <1>11, <3>1 DEF FetchFacts
  <2> QED BY <1>1, <1>4, <2>1, <2>2
<1>12. CASE CheckSeverance \/ VerifyProvider \/ VerifyAuditor \/ EnforceThreshold
            \/ SurfaceContestations \/ Act(FALSE)
  <2>1. pc \in Fetched /\ UNCHANGED <<addr, url, lastList, bundle>>
    BY <1>12 DEF CheckSeverance, VerifyProvider, VerifyAuditor, EnforceThreshold,
                 SurfaceContestations, Act, client, walk
  <2>2. bundle # None
    BY <1>6, <2>1 DEF TypeOK
  <2> QED BY <1>4, <2>1, <2>2
<1> QED BY <1>7, <1>8, <1>9, <1>10, <1>11, <1>12 DEF WalkStep, o
-----------------------------------------------------------------------------
(* Who is undisturbed and runs, ran so before, and went at most a step on. *)
LEMMA CalmSince ==
    ASSUME Inv, Still, SavedOK, KnownOK, CalmOK, [SystemNext]_system,
           NEW t \in Terminals, t \notin disturbed', outcome'[t] = "running"
    PROVE  /\ t \notin disturbed /\ outages = {} /\ outages' = {}
           /\ outcome[t] = "running" /\ Running(t) /\ Calm(t)
           /\ Plan' = Plan /\ Plan \in ThePlans /\ Plan.texts[t] \in Seq(Instruction)
           /\ at[t] \in Nat \ {0} /\ at[t] \in DOMAIN Plan.texts[t]
           /\ at'[t] \in DOMAIN Plan.texts[t]
           /\ Plan.texts[t][at[t]] = Op(t) /\ Op(t) \in Instruction
           /\ \/ at'[t] = at[t]
              \/ at'[t] = at[t] + 1 /\ (ScriptStep(t) \/ (EndWalk /\ t = active))
           /\ ~ \E s \in {"index", "primary", "neutral"} : Restart(s)
<1>1. /\ t \notin disturbed /\ outages = {} /\ outages' = {} /\ Calm(t)
      /\ ClientOK /\ Places /\ Plan' = Plan /\ Plan \in ThePlans
      /\ DOMAIN outcome = Terminals /\ DOMAIN at = Terminals
  BY StillCalm, PlacesGrow, ThePlan DEF CalmOK, Calm, Inv, Places, Plan
<1>2. \/ UNCHANGED <<at[t], outcome[t]>>
      \/ at'[t] = at[t] + 1 /\ (ScriptStep(t) \/ (EndWalk /\ t = active)) /\ Running(t)
  BY <1>1, CalmMoves DEF Advance
<1>3. outcome[t] = "running" /\ Running(t)
  BY <1>1, <1>2 DEF Calm, Running
<1>4. /\ at[t] \in Nat \ {0} /\ at[t] \in DOMAIN Plan.texts[t]
      /\ Plan.texts[t][at[t]] = Op(t) /\ Op(t) \in Instruction
      /\ Plan.texts[t] \in Seq(Instruction)
  BY <1>1, <1>3, TheInstruction DEF Text, Plan, Op
<1>5. at'[t] \in DOMAIN Plan.texts[t]
  <2>1. Places'
    BY PlacesStep DEF Inv
  <2>2. Text(t)' = Plan'.texts[t] /\ Running(t)'
    BY DEF Text, Plan, Running
  <2> QED BY <1>1, <2>1, <2>2 DEF Places
<1>6. ~ \E s \in {"index", "primary", "neutral"} : Restart(s)
  BY DEF Restart
<1> QED BY <1>1, <1>2, <1>3, <1>4, <1>5, <1>6

(* A name that t has registered is registered by nobody else since. *)
LEMMA CalmEntries ==
    ASSUME Inv, Still, SavedOK, KnownOK, CalmOK, [SystemNext]_system,
           NEW t \in Terminals, t \notin disturbed', outcome'[t] = "running",
           NEW n \in Names, entries'[n] # Nothing
    PROVE  \E a \in LeadsTo(Plan, t, at'[t], n) : entries'[n] = Signed(a)
<1> DEFINE o == Op(t)
           k == at[t]
<1>1. /\ k \in Nat \ {0} /\ Plan \in ThePlans /\ Plan.texts[t][k] = o /\ o \in Instruction
      /\ k \in DOMAIN Plan.texts[t]
      /\ \/ at'[t] = k
         \/ at'[t] = k + 1 /\ (ScriptStep(t) \/ (EndWalk /\ t = active))
      /\ entries[n] # Nothing =>
            \E a \in LeadsTo(Plan, t, k, n) : entries[n] = Signed(a)
      /\ ~ \E s \in {"index", "primary", "neutral"} : Restart(s)
      /\ ClientOK /\ Places /\ entries \in [Names -> Addrs \cup {Nothing}]
      /\ Plan.texts[t] = Text(t)
  BY CalmSince DEF Calm, Inv, IndexOK, EntriesOK, Text, Plan
<1>2. UNCHANGED entries \/ \E u \in Terminals : RegisterAddr(u)
  BY <1>1 DEF SystemNext, Finished, ScriptStep, BeginPut, Switch, RequestLost, LoadFiles, SaveFiles,
              HostFacts, FileComplaint, FileSeverance, RevokeCredential, Index!Revoke,
              TamperAddr, ReadFacts, GiveVerdict, BeginWalk, WalkStep, FetchFails, EndWalk,
              system, servers, index
<1>3. at'[t] = k + 1 /\ o.op = "register" => RegisterAddr(t)
  BY <1>1, EndWalkMoves
     DEF ScriptStep, LoadFiles, SaveFiles, HostFacts, FileComplaint, FileSeverance,
         RevokeCredential, TamperAddr, ReadFacts, GiveVerdict, Doing
<1>4. ASSUME NEW u \in Terminals, RegisterAddr(u)
      PROVE  /\ Op(u) \in Registering(Plan, Op(u).name) /\ Op(u).name \in Names
             /\ entries' = [entries EXCEPT ![Op(u).name] = Signed(Op(u).addr)]
  BY <1>1, <1>4, TheInstruction, Arguments
     DEF RegisterAddr, Index!Register, Doing, Registering
<1>5. ASSUME entries'[n] = entries[n], at'[t] = k + 1 => o \notin Registering(Plan, n)
      PROVE  \E a \in LeadsTo(Plan, t, at'[t], n) : entries'[n] = Signed(a)
  <2>1. LeadsTo(Plan, t, at'[t], n) = LeadsTo(Plan, t, k, n)
    <3> HIDE DEF o, k
    <3> QED BY <1>1, <1>5, OneMore
  <2> QED BY <1>1, <1>5, <2>1
<1>6. CASE UNCHANGED entries
  <2>1. ASSUME at'[t] = k + 1, o \in Registering(Plan, n)
        PROVE  \E a \in LeadsTo(Plan, t, at'[t], n) : entries'[n] = Signed(a)
    <3>1. RegisterAddr(t) /\ o.name = n
      BY <1>3, <2>1 DEF Registering, Written
    <3>2. entries'[n] = Signed(o.addr)
      BY <1>1, <1>4, <3>1
    <3>3. o.addr \in LeadsTo(Plan, t, k + 1, n)
      <4> HIDE DEF o, k
      <4> QED BY <1>1, <2>1, OneMore
    <3> QED BY <2>1, <3>2, <3>3
  <2> QED BY <1>5, <1>6, <2>1
<1>7. ASSUME RegisterAddr(t)
      PROVE  \E a \in LeadsTo(Plan, t, at'[t], n) : entries'[n] = Signed(a)
  <2>1. at'[t] = k + 1
    <3>1. DOMAIN at = Terminals /\ DOMAIN outcome = Terminals
      BY <1>1 DEF Places
    <3> QED BY <1>1, <1>7, <3>1 DEF RegisterAddr, Advance
  <2>2. CASE n = o.name
    <3>1. entries'[n] = Signed(o.addr) /\ o \in Registering(Plan, n)
      BY <1>1, <1>4, <1>7, <2>2
    <3>2. o.addr \in LeadsTo(Plan, t, k + 1, n)
      <4> HIDE DEF o, k
      <4> QED BY <1>1, <3>1, OneMore
    <3> QED BY <2>1, <3>1, <3>2
  <2>3. CASE n # o.name
    <3>1. entries'[n] = entries[n] /\ o \notin Registering(Plan, n)
      BY <1>1, <1>4, <1>7, <2>3 DEF Registering
    <3> QED BY <1>5, <3>1
  <2> QED BY <2>2, <2>3
<1>8. ASSUME NEW u \in Terminals \ {t}, RegisterAddr(u)
      PROVE  \E a \in LeadsTo(Plan, t, at'[t], n) : entries'[n] = Signed(a)
  <2>1. at'[t] = k
    <3>1. Running(u) /\ Moves(u) /\ plan' = plan
      BY <1>1, <1>8, ScriptMoves DEF ScriptStep
    <3> QED BY <1>1, <1>8, <3>1, MovesPlace
  <2>2. CASE n # Op(u).name
    <3>1. entries'[n] = entries[n]
      BY <1>1, <1>4, <1>8, <2>2
    <3> QED BY <1>1, <2>1, <3>1
  <2>3. CASE n = Op(u).name
    <3>1. entries'[n] = Signed(Op(u).addr) /\ Op(u) \in Registering(Plan, n)
      BY <1>1, <1>4, <1>8, <2>3
    <3>2. t \notin Users(n)
      BY <1>8, <2>3 DEF RegisterAddr
    <3>3. \A j \in 1..(k - 1) : Plan.texts[t][j] \notin Registering(Plan, n)
      BY <1>1, <3>2 DEF Users, Registering, Written
    <3>4. Op(u).addr \in LeadsTo(Plan, t, k, n)
      <4> HIDE DEF k
      <4> QED BY <1>1, <3>1, <3>3, OneMore
    <3> QED BY <2>1, <3>1, <3>4
  <2> QED BY <2>2, <2>3
<1> QED BY <1>2, <1>6, <1>7, <1>8

(* A PUT that does not disturb t has undone nothing that t filed. *)
LEMMA FiledKept ==
    ASSUME Plan \in ThePlans, NEW t \in Terminals, NEW k \in DOMAIN Text(t), NEW u,
           t \notin Filers(Undone(u)), NEW marks, HasFiled(Plan, t, k, marks)
    PROVE  HasFiled(Plan, t, k, marks \ Undone(u))
<1> SUFFICES ASSUME NEW o \in Before(Plan.texts[t], k)
             PROVE  /\ o.op = "file" => <<o.host, Summarizer, "contested">> \notin Undone(u)
                    /\ o.op = "sever" => <<o.host, o.agent, "severed">> \notin Undone(u)
  BY DEF HasFiled
<1>1. Text(t) \in Seq(Instruction) /\ Plan.texts[t] = Text(t)
  BY ScriptsAssumption DEF Text, Plan
<1>2. PICK j \in 1..(k - 1) : Text(t)[j] = o
  BY <1>1 DEF Before
<1>3. j \in DOMAIN Text(t) /\ o \in Instruction
  BY <1>1, <1>2
<1>4. ASSUME NEW m \in Undone(u)
      PROVE  /\ m[3] = "severed" => o # Sever(m[1], m[2])
             /\ m[3] = "contested" => o # File(m[1])
  BY <1>2, <1>3 DEF Filers
<1>5. /\ o.op = "file" => o = File(o.host)
      /\ o.op = "sever" => o = Sever(o.host, o.agent)
  BY <1>3, Arguments
<1>6. ASSUME o.op = "file" PROVE <<o.host, Summarizer, "contested">> \notin Undone(u)
  <2> DEFINE m == <<o.host, Summarizer, "contested">>
  <2>1. m[3] = "contested" /\ m[1] = o.host
    OBVIOUS
  <2> HIDE DEF m
  <2>2. m \notin Undone(u)
    BY <1>4, <1>5, <1>6, <2>1
  <2> QED BY <2>2 DEF m
<1>7. ASSUME o.op = "sever" PROVE <<o.host, o.agent, "severed">> \notin Undone(u)
  <2> DEFINE m == <<o.host, o.agent, "severed">>
  <2>1. m[3] = "severed" /\ m[1] = o.host /\ m[2] = o.agent
    OBVIOUS
  <2> HIDE DEF m
  <2>2. m \notin Undone(u)
    BY <1>4, <1>5, <1>7, <2>1
  <2> QED BY <2>2 DEF m
<1> QED BY <1>6, <1>7

(* What t has filed before step k stays acknowledged, and stays what its    *)
(* walk is held to, whatever a script that does not disturb t does.         *)
LEMMA FiledStands ==
    ASSUME Plan \in ThePlans, NEW t \in Terminals, NEW k \in DOMAIN Text(t), t \notin disturbed',
           NEW u \in Terminals, ScriptStep(u) \/ BeginPut(u) \/ Switch(u) \/ RequestLost(u),
           DOMAIN seen = Terminals
    PROVE  /\ HasFiled(Plan, t, k, acked) => HasFiled(Plan, t, k, acked')
           /\ HasFiled(Plan, t, k, seen[t]) => HasFiled(Plan, t, k, seen'[t])
<1>1. CASE RevokeCredential(u)
  <2>1. /\ \A m \in acked : m[3] # "revoked" => m \in acked'
        /\ \A m \in seen[t] : m[3] # "revoked" => m \in seen'[t]
    BY <1>1 DEF RevokeCredential
  <2> QED BY <2>1 DEF HasFiled
<1>2. CASE ~ RevokeCredential(u) /\ HostFacts(u)
  <2>1. t \notin Filers(Undone(u)) /\ seen'[t] = seen[t] \ Undone(u)
        /\ acked \ Undone(u) \subseteq acked'
    BY <1>2 DEF HostFacts, Answered
  <2>2. HasFiled(Plan, t, k, acked \ Undone(u)) => HasFiled(Plan, t, k, acked')
    BY <2>1 DEF HasFiled
  <2> QED BY <2>1, <2>2, FiledKept
<1>3. CASE ~ RevokeCredential(u) /\ ~ HostFacts(u)
  <2>1. acked \subseteq acked' /\ UNCHANGED seen
    BY <1>3, ScriptMarks
  <2> QED BY <2>1 DEF HasFiled
<1> QED BY <1>1, <1>2, <1>3

(* What t has filed stays acknowledged, and what it files is. *)
LEMMA CalmFiled ==
    ASSUME Inv, Still, SavedOK, KnownOK, CalmOK, [SystemNext]_system,
           NEW t \in Terminals, t \notin disturbed', outcome'[t] = "running"
    PROVE  HasFiled(Plan, t, at'[t], acked')
<1> DEFINE o == Op(t)
           k == at[t]
<1>1. /\ k \in Nat \ {0} /\ Plan \in ThePlans /\ Plan.texts[t][k] = o
      /\ k \in DOMAIN Text(t) /\ DOMAIN seen = Terminals
      /\ \/ at'[t] = k
         \/ at'[t] = k + 1 /\ (ScriptStep(t) \/ (EndWalk /\ t = active))
      /\ HasFiled(Plan, t, k, acked) /\ ClientOK /\ Places
      /\ ~ \E s \in {"index", "primary", "neutral"} : Restart(s)
  BY CalmSince DEF Calm, Inv, SeenAcked, Text, Plan
<1>2. HasFiled(Plan, t, k, acked')
  <2>1. ASSUME NEW u \in Terminals, ScriptStep(u) \/ BeginPut(u) \/ Switch(u) \/ RequestLost(u)
        PROVE  HasFiled(Plan, t, k, acked')
    BY <1>1, <2>1, FiledStands
  <2>2. CASE BeginWalk \/ WalkStep \/ FetchFails \/ EndWalk \/ UNCHANGED system
    BY <1>1, <2>2 DEF BeginWalk, WalkStep, FetchFails, EndWalk, system, notes
  <2> QED BY <1>1, <2>1, <2>2 DEF SystemNext, Finished
<1>4. ASSUME at'[t] = k + 1
      PROVE  /\ o.op = "file" => <<o.host, Summarizer, "contested">> \in acked'
             /\ o.op = "sever" => <<o.host, o.agent, "severed">> \in acked'
  <2>1. at'[t] # at[t] /\ DOMAIN at = Terminals
    BY <1>1, <1>4 DEF Places
  <2>2. ASSUME NEW h, NEW a, NEW what, Filed(t, h, a, what)
        PROVE  <<h, a, what>> \in acked'
    BY <1>1, <2>1, <2>2 DEF Filed, Answered, Refused, End
  <2>4. ASSUME o.op = "file" PROVE <<o.host, Summarizer, "contested">> \in acked'
    <3>1. FileComplaint(t)
      BY <1>1, <1>4, <2>4, EndWalkMoves
         DEF ScriptStep, LoadFiles, SaveFiles, HostFacts, RegisterAddr, FileSeverance,
             RevokeCredential, TamperAddr, ReadFacts, GiveVerdict, Doing
    <3>2. Filed(t, o.host, Summarizer, "contested")
      BY <3>1 DEF FileComplaint, Complaint
    <3> QED BY <2>2, <3>2
  <2>5. ASSUME o.op = "sever" PROVE <<o.host, o.agent, "severed">> \in acked'
    <3>1. FileSeverance(t)
      BY <1>1, <1>4, <2>5, EndWalkMoves
         DEF ScriptStep, LoadFiles, SaveFiles, HostFacts, RegisterAddr, FileComplaint,
             RevokeCredential, TamperAddr, ReadFacts, GiveVerdict, Doing
    <3>2. Filed(t, o.host, o.agent, "severed")
      BY <3>1 DEF FileSeverance
    <3> QED BY <2>2, <3>2
  <2> QED BY <2>4, <2>5
<1>5. Before(Plan.texts[t], k + 1) = Before(Plan.texts[t], k) \cup {o}
  <2> HIDE DEF o, k
  <2> QED BY <1>1, OneMore
<1> HIDE DEF o, k
<1> QED BY <1>1, <1>2, <1>4, <1>5 DEF HasFiled

(* What t has revoked stays on the list: who else files an entry under the  *)
(* same id, disturbs it.                                                    *)
LEMMA CalmWithdrawn ==
    ASSUME Inv, Still, SavedOK, KnownOK, CalmOK, [SystemNext]_system,
           NEW t \in Terminals, t \notin disturbed', outcome'[t] = "running",
           NEW c \in Withdrawn(Plan, t, at'[t])
    PROVE  Marked(Plan, revocations', c)
<1> DEFINE o == Op(t)
           k == at[t]
<1>1. /\ k \in Nat \ {0} /\ Plan \in ThePlans /\ Plan.texts[t][k] = o
      /\ k \in DOMAIN Plan.texts[t] /\ Plan.texts[t] = Text(t) /\ Text(t) \in Seq(Instruction)
      /\ \/ at'[t] = k
         \/ at'[t] = k + 1 /\ (ScriptStep(t) \/ (EndWalk /\ t = active))
      /\ \A i \in Withdrawn(Plan, t, k) : Marked(Plan, revocations, i)
      /\ ClientOK /\ Places /\ DOMAIN revocations = CredIds
      /\ ~ \E s \in {"index", "primary", "neutral"} : Restart(s)
  BY CalmSince DEF Calm, Inv, IndexOK, ListOK, Text, Plan
<1>2. UNCHANGED revocations \/ \E u \in Terminals : RevokeCredential(u)
  <2>1. ASSUME NEW u \in Terminals, ScriptStep(u) \/ BeginPut(u) \/ Switch(u) \/ RequestLost(u),
               ~ RevokeCredential(u)
        PROVE  UNCHANGED revocations
    BY <2>1, ScriptMarks
  <2>2. CASE BeginWalk \/ WalkStep \/ FetchFails \/ EndWalk \/ UNCHANGED system
    BY <2>2 DEF BeginWalk, WalkStep, FetchFails, EndWalk, system, servers, index
  <2> QED BY <1>1, <2>1, <2>2 DEF SystemNext, Finished
<1>3. \/ c \in Withdrawn(Plan, t, k)
      \/ /\ at'[t] = k + 1 /\ o.op = "revoke" /\ o.issuer = ProviderIssuer
         /\ c = ProviderVC(o.agent).id
  <2>1. Before(Plan.texts[t], k + 1) = Before(Plan.texts[t], k) \cup {o}
    <3>1. Plan \in ThePlans /\ k \in Nat \ {0} /\ Plan.texts[t][k] = o
      BY <1>1
    <3> HIDE DEF o, k
    <3> QED BY <3>1, OneMore
  <2> HIDE DEF o, k
  <2> QED BY <1>1, <2>1 DEF Withdrawn
<1>4. \E j \in DOMAIN Text(t) : Text(t)[j].op = "revoke"
  <2>1. CASE c \in Withdrawn(Plan, t, k)
    <3>1. PICK r \in Before(Plan.texts[t], k) : r.op = "revoke"
      BY <2>1 DEF Withdrawn
    <3>2. PICK j \in 1..(k - 1) : Text(t)[j].op = "revoke"
      BY <1>1, <3>1 DEF Before
    <3>3. j \in DOMAIN Text(t)
      BY <1>1
    <3> QED BY <3>2, <3>3
  <2>2. CASE o.op = "revoke"
    BY <1>1, <2>2
  <2> QED BY <1>3, <2>1, <2>2
<1>5. ASSUME NEW u \in Terminals, RevokeCredential(u)
      PROVE  LET id == ProviderVC(Op(u).agent).id
             IN  /\ id \in CredIds /\ Op(u) \in Written(Plan, "revoke")
                 /\ revocations' = [revocations EXCEPT ![id] = ProvidersEntry(id)]
  <2>1. Op(u).issuer = ProviderIssuer
    BY <1>4, <1>5 DEF RevokeCredential
  <2> QED BY <1>1, <1>5, <2>1, RevocationIsRecord DEF ProvidersEntry
<1>6. CASE c \in Withdrawn(Plan, t, k)
  <2>1. Marked(Plan, revocations, c)
    BY <1>1, <1>6
  <2>2. revocations'[c] = revocations[c] \/ revocations'[c] = ProvidersEntry(c)
    <3>1. ASSUME NEW u \in Terminals, RevokeCredential(u)
          PROVE  revocations'[c] \in {revocations[c], ProvidersEntry(c)}
      <4> DEFINE id == ProviderVC(Op(u).agent).id
      <4>1. revocations' = [revocations EXCEPT ![id] = ProvidersEntry(id)]
        BY <1>5, <3>1
      <4>2. c \in DOMAIN revocations
        BY <1>1, <2>1 DEF Marked
      <4> HIDE DEF id
      <4> QED BY <4>1, <4>2
    <3> QED BY <1>2, <3>1
  <2> QED BY <2>1, <2>2 DEF Marked
<1>7. ASSUME at'[t] = k + 1, o.op = "revoke", c = ProviderVC(o.agent).id
      PROVE  Marked(Plan, revocations', c)
  <2>1. RevokeCredential(t)
    BY <1>1, <1>7, EndWalkMoves
       DEF ScriptStep, LoadFiles, SaveFiles, HostFacts, RegisterAddr, FileComplaint,
           FileSeverance, TamperAddr, ReadFacts, GiveVerdict, Doing
  <2>2. /\ c \in CredIds /\ o \in Written(Plan, "revoke")
        /\ revocations' = [revocations EXCEPT ![c] = ProvidersEntry(c)]
    BY <1>5, <1>7, <2>1
  <2>3. revocations'[c] = ProvidersEntry(c)
    BY <1>1, <2>2
  <2> QED BY <1>7, <2>2, <2>3 DEF Marked
<1> QED BY <1>3, <1>6, <1>7
(* A walk of an undisturbed script fares as it should. *)
LEMMA CalmFares ==
    ASSUME Inv, Still, SavedOK, KnownOK, CalmOK, [SystemNext]_system,
           NEW t \in Terminals, t \notin disturbed', outcome'[t] = "running"
    PROVE  Fares(Plan, t, at'[t], Mine(t)', seen'[t])
<1> DEFINE o == Op(t)
           k == at[t]
<1>1. /\ k \in Nat \ {0} /\ Plan \in ThePlans /\ Plan.texts[t][k] = o
      /\ \/ at'[t] = k
         \/ at'[t] = k + 1 /\ (ScriptStep(t) \/ (EndWalk /\ t = active))
      /\ Fares(Plan, t, k, Mine(t), seen[t]) /\ HasFiled(Plan, t, k, acked) /\ Calm(t)
      /\ k \in DOMAIN Text(t)
      /\ ClientOK /\ Places /\ DOMAIN seen = Terminals /\ active \in Terminals
      /\ DOMAIN at = Terminals
      /\ ~ \E s \in {"index", "primary", "neutral"} : Restart(s)
  BY CalmSince DEF Calm, Inv, SeenAcked, Places, Text, Plan
<1>2. ASSUME Idle(Mine(t)') \/ Mine(t)'.pc = "idle",
             Asks(Plan, t, at'[t]) => Mine(t)'.configured
      PROVE  Fares(Plan, t, at'[t], Mine(t)', seen'[t])
  BY <1>2 DEF Fares, Idle
<1>3. Asks(Plan, t, k) => Mine(t).configured
  BY <1>1 DEF Fares
<1>4. /\ at'[t] = k + 1 /\ o.op # "load" /\ Asks(Plan, t, at'[t]) => Asks(Plan, t, k)
      /\ at'[t] = k + 1 /\ o.op = "load" /\ Asks(Plan, t, at'[t]) => o = Load({TRUE})
  <2>1. k \in Nat \ {0} /\ Plan \in ThePlans /\ Plan.texts[t][k] = o
    BY <1>1
  <2> HIDE DEF o, k
  <2> QED BY <2>1, OneMore
<1>5. ASSUME ScriptStep(t), at'[t] = k + 1
      PROVE  Fares(Plan, t, at'[t], Mine(t)', seen'[t])
  <2>1. CASE LoadFiles(t)
    <3>1. PICK c \in o.configured : Activate(t, NewClient(c))
      BY <2>1 DEF LoadFiles
    <3>2. Alike(Mine(t)', NewClient(c))
      BY <1>1, <3>1, MineActivated
    <3>3. Mine(t)'.pc = "idle" /\ Mine(t)'.configured = c
      BY <3>2, NewIdle DEF Alike, Idle
    <3>4. o.op = "load"
      BY <2>1 DEF LoadFiles, Doing
    <3>5. ASSUME Asks(Plan, t, at'[t]) PROVE Mine(t)'.configured
      <4>1. o = Load({TRUE})
        BY <1>4, <1>5, <3>4, <3>5
      <4>2. o.configured = {TRUE}
        BY <4>1 DEF Load
      <4>3. c = TRUE
        BY <3>1, <4>2, Zenon
      <4> QED BY <3>3, <4>3, Zenon
    <3> QED BY <1>2, <3>3, <3>5
  <2>2. CASE ~ LoadFiles(t)
    <3>1. UNCHANGED clients /\ o.op # "walk"
      BY <1>1, <1>5, <2>2, ScriptMoves
    <3>2. o.op # "load"
      BY <1>5, <2>2
         DEF ScriptStep, SaveFiles, HostFacts, RegisterAddr, FileComplaint, FileSeverance,
             RevokeCredential, TamperAddr, ReadFacts, GiveVerdict, Doing
    <3>3. Mine(t)' = Mine(t)
      BY <3>1, MineKept
    <3>4. Mine(t).pc = "idle"
      BY <1>1, <3>1, ClientFields DEF Mine, Places, Doing
    <3> QED BY <1>2, <1>3, <1>4, <1>5, <3>2, <3>3, <3>4
  <2> QED BY <2>1, <2>2
<1>6. ASSUME EndWalk, t = active PROVE Fares(Plan, t, at'[t], Mine(t)', seen'[t])
  <2>1. Idle(Mine(t)') /\ Mine(t)'.configured = Mine(t).configured
    <3>1. Idle(Client') /\ Client'.configured = configured /\ UNCHANGED <<active, parked>>
      BY <1>6, EndIdle
    <3> QED BY <1>6, <3>1, MineOthers, ClientFields
  <2>2. o.op # "load"
    BY <1>1, <1>6, EndWalkMoves
  <2> QED BY <1>1, <1>2, <1>3, <1>4, <2>1, <2>2
<1> SUFFICES ASSUME at'[t] = k, ~ (EndWalk /\ t = active)
             PROVE  Fares(Plan, t, at'[t], Mine(t)', seen'[t])
  BY <1>1, <1>5, <1>6
<1>7. ASSUME Alike(Mine(t)', Mine(t)),
             HasFiled(Plan, t, k, seen[t]) => HasFiled(Plan, t, k, seen'[t])
      PROVE  Fares(Plan, t, at'[t], Mine(t)', seen'[t])
  BY <1>1, <1>7, FaresAlike
<1>8. Mine(t)' = Mine(t) => Alike(Mine(t)', Mine(t))
  BY DEF Alike
<1>9. ASSUME NEW u \in Terminals, ScriptStep(u) \/ RequestLost(u)
      PROVE  Fares(Plan, t, at'[t], Mine(t)', seen'[t])
  <2>1. HasFiled(Plan, t, k, seen[t]) => HasFiled(Plan, t, k, seen'[t])
    BY <1>1, <1>9, FiledStands
  <2>2. Mine(t)' = Mine(t)
    <3>1. CASE LoadFiles(u)
      <4>1. u # t
        BY <1>1, <3>1 DEF LoadFiles, Advance
      <4>2. PICK c : Activate(u, NewClient(c))
        BY <3>1 DEF LoadFiles
      <4> QED BY <1>1, <4>1, <4>2, MineActivated
    <3>2. CASE ~ LoadFiles(u)
      BY <1>1, <1>9, <3>2, ScriptMoves, MineKept
    <3> QED BY <3>1, <3>2
  <2> QED BY <1>7, <1>8, <2>1, <2>2
<1>10. ASSUME NEW u \in Terminals, Switch(u)
       PROVE  Fares(Plan, t, at'[t], Mine(t)', seen'[t])
  <2>1. Activate(u, parked[u]) /\ u # active /\ UNCHANGED seen
    BY <1>10 DEF Switch, notes
  <2>2. Alike(Mine(t)', Mine(t))
    <3>1. CASE u = t
      BY <1>1, <2>1, <3>1, MineActivated DEF Mine
    <3>2. CASE u # t
      BY <1>1, <1>8, <2>1, <3>2, MineActivated
    <3> QED BY <3>1, <3>2
  <2> QED BY <1>7, <2>1, <2>2
<1>11. ASSUME NEW u \in Terminals, BeginPut(u)
       PROVE  Fares(Plan, t, at'[t], Mine(t)', seen'[t])
  <2>1. UNCHANGED <<clients, seen>>
    BY <1>11 DEF BeginPut, notes
  <2> QED BY <1>1, <1>7, <1>8, <2>1, MineKept
<1>12. ASSUME BeginWalk \/ WalkStep \/ FetchFails \/ EndWalk, t # active
       PROVE  Fares(Plan, t, at'[t], Mine(t)', seen'[t])
  <2>1. UNCHANGED <<active, parked>> /\ seen'[t] = seen[t]
    BY <1>1, <1>12 DEF BeginWalk, WalkStep, FetchFails, EndWalk, notes
  <2> QED BY <1>1, <1>7, <1>8, <1>12, <2>1, MineOthers
<1>13. CASE BeginWalk /\ t = active
  <2>1. /\ UNCHANGED <<active, parked, configured>> /\ seen'[t] = acked
        /\ path' \in o.paths /\ pc' = "refresh" /\ addr' = None /\ url' = None
    BY <1>1, <1>13 DEF BeginWalk, Start, client
  <2>2. /\ Mine(t)' = Client' /\ Mine(t).configured = configured
    BY <1>1, <1>13, <2>1, MineOthers, ClientFields
  <2>3. /\ Client'.configured = configured /\ Client'.pc = "refresh" /\ Client'.path = path'
        /\ Client'.addr = None /\ Client'.url = None
    BY <2>1 DEF Client
  <2> QED BY <1>1, <1>3, <2>1, <2>2, <2>3
          DEF Fares, Bound, Fetched, NotSevered, Attested, Corroborated, Accepted
<1>14. CASE WalkStep /\ t = active
  <2>1. UNCHANGED <<active, parked, seen>>
    BY <1>14 DEF WalkStep, notes
  <2>2. Fares(Plan, t, at'[t], Client', seen'[t])
    BY <1>1, <1>14, <2>1, FaresWalk
  <2> QED BY <1>1, <1>14, <2>1, <2>2, MineOthers
<1>15. ~ (FetchFails /\ t = active)
  BY DEF FetchFails
<1>16. CASE UNCHANGED system
  <2>1. UNCHANGED <<clients, seen>>
    BY <1>16 DEF system, notes
  <2> QED BY <1>1, <1>7, <1>8, <2>1, MineKept
<1> QED BY <1>1, <1>9, <1>10, <1>11, <1>12, <1>13, <1>14, <1>15, <1>16
        DEF SystemNext, Finished

(* Undisturbed scripts go on as they should. *)
LEMMA CalmStep ==
    ASSUME Inv, Still, SavedOK, KnownOK, CalmOK, [SystemNext]_system
    PROVE  CalmOK'
<1> SUFFICES ASSUME NEW t \in Terminals \ disturbed' PROVE Calm(t)'
  BY DEF CalmOK
<1>1. /\ outages' = {} /\ outcome'[t] \in {"running", "done"} /\ Plan' = Plan
  <2>1. /\ outages = {} /\ outages' = outages /\ outcome[t] \in {"running", "done"}
        /\ plan' = plan /\ DOMAIN outcome = Terminals
    BY StillCalm, PlacesGrow DEF CalmOK, Calm, Inv, Places
  <2>2. UNCHANGED outcome[t] \/ Advance(t)
    BY CalmMoves
  <2> QED BY <2>1, <2>2 DEF Advance, Plan
<1>2. ASSUME outcome'[t] = "running"
      PROVE  /\ \A n \in Names : entries'[n] # Nothing =>
                   \E a \in LeadsTo(Plan, t, at'[t], n) : entries'[n] = Signed(a)
             /\ HasFiled(Plan, t, at'[t], acked')
             /\ \A c \in Withdrawn(Plan, t, at'[t]) : Marked(Plan, revocations', c)
             /\ Fares(Plan, t, at'[t], Mine(t)', seen'[t])
  BY <1>2, CalmEntries, CalmFiled, CalmWithdrawn, CalmFares
<1> QED BY <1>1, <1>2 DEF Calm

(* At first nobody knows, has saved, or has filed anything. *)
LEMMA InitCause ==
    ASSUME SystemInit
    PROVE  CauseInv
<1>1. Inv
  BY InitInv
<1>2. Still
  BY DEF SystemInit, Init, Still, RefusedLate
<1>3. Plan \in ThePlans /\ \A t \in Terminals : Text(t) \in Seq(Instruction) /\ at[t] = 1
  BY ThePlan DEF SystemInit
<1>4. SavedOK
  <2>1. ~ saved
    BY DEF SystemInit
  <2>2. \A t \in Terminals : \A j \in DOMAIN Text(t) : ~ (j < at[t])
    BY <1>3
  <2> QED BY <2>1, <2>2 DEF SavedOK
<1>5. \A t \in Terminals : Idle(Mine(t)) /\ Mine(t).lastList = <<>>
  BY NewIdle DEF SystemInit, Init, Mine, Client, Idle
<1>6. KnownOK
  BY <1>5 DEF KnownOK, Known, Idle, SystemInit, Index!Init
<1>7. ASSUME NEW t \in Terminals PROVE Calm(t)
  <2>1. outages = {} /\ outcome[t] \in {"running", "done"} /\ \A n \in Names : entries[n] = Nothing
    BY DEF SystemInit, Index!Init
  <2>2. Before(Plan.texts[t], at[t]) = {} /\ ~ Asks(Plan, t, at[t])
    BY <1>3 DEF Before, Asks
  <2> QED BY <1>5, <2>1, <2>2 DEF Calm, HasFiled, Withdrawn, Fares, Idle
<1> QED BY <1>1, <1>2, <1>4, <1>6, <1>7 DEF CalmOK, CauseInv

(* Every step keeps what the failures are traced by. *)
LEMMA CauseStep ==
    ASSUME CauseInv, [SystemNext]_system
    PROVE  CauseInv'
BY InvStep, StillStep, SavedStep, KnownStep, CalmStep DEF CauseInv

(* A script stops or fails only if a request or an answer of its own was    *)
(* lost, a server restarted, another script used its names or its           *)
(* credential id, or a PUT undid, or forestalled, what it filed.            *)
THEOREM FailuresHaveCause == SystemSpec => []ScriptsFailOnlyForCause
<1>1. CauseInv => ScriptsFailOnlyForCause
  BY DEF CauseInv, CalmOK, Calm, ScriptsFailOnlyForCause
<1> QED BY <1>1, InitCause, CauseStep, PTL DEF SystemSpec
=============================================================================
