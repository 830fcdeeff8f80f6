------------------------------- MODULE Nanda -------------------------------
(***************************************************************************)
(* The system put together: the index, the provider's and the neutral      *)
(* facts host, and terminals that run the scenario scripts against them,   *)
(* with clients that resolve.  The servers are those of IndexService and   *)
(* FactsHost, a walk is Resolver's, its answers are what the servers hold. *)
(*                                                                         *)
(* Resolver's variables are the client of one terminal, the active one;    *)
(* the others' are parked.  A server may restart (docker-compose.yml:      *)
(* restart: unless-stopped), a request or its answer may be lost, a fetch  *)
(* may fail.  The clock stands still, and every answer is JSON.            *)
(***************************************************************************)
EXTENDS Resolver, Scripts, SequencesExt

CONSTANTS
    Terminals,
    Plans,      \* what the terminals run, and how many faults may occur
    Names,      \* names registered
    Nothing     \* no entry of a server

(* What scripts are made of (Scripts.tla). *)
Hosts == {"primary", "neutral"}
Filings(ids) ==     \* contestations by their id
    {f \in [ids -> Seq(Contestation)] :
        \A i \in ids : \A n \in DOMAIN f[i] : f[i][n].contestation_id = i}
FactsBundle ==
    [agent_id : AgentIds,
     creds : [provider_vc : Opt(Credential), auditor_vc : Opt(Credential)],
     contestations : Filings(Opt(ContestationIds)), severance : Opt(Severance)]
Instruction ==
    [op : {"load"}, configured : SUBSET BOOLEAN]
    \cup [op : {"save", "verdict"}]
    \cup [op : {"host"}, host : Hosts, body : FactsBundle]
    \cup [op : {"register"}, name : Names, addr : AgentAddr]
    \cup [op : {"file"}, host : Hosts]
    \cup [op : {"sever"}, host : Hosts, agent : AgentIds]
    \cup [op : {"revoke"}, agent : AgentIds, issuer : Dids]
    \cup [op : {"tamper", "read"}, name : Names]
    \cup [op : {"walk"}, name : Names, paths : SUBSET {"primary", "private"}, act : BOOLEAN,
           end : {"resolves", "refused", "rejected", "surfaces", "any"}]

(* The instructions of a plan, and what the index signs for one. *)
Written(p, op) ==
    {o \in UNION {{p.texts[t][k] : k \in DOMAIN p.texts[t]} : t \in Terminals} : o.op = op}
Signed(a) == [a EXCEPT !.vm = ResolverDid, !.by = ResolverDid]
Severing(p) == {o.agent : o \in Written(p, "sever")}
ThePlans == {Plans[n] : n \in DOMAIN Plans}

ASSUME TerminalsAssumption == Terminals # {}
ASSUME ScriptsAssumption ==
    \A p \in ThePlans : /\ p.texts \in [Terminals -> Seq(Instruction)] /\ p.faults \in Nat
                         /\ p.exits \subseteq (AgentIds \cap WellFormed) \X AgentIds
(* An address names the facts of its own entry, on both hosts or on one. *)
ASSUME AddressesAssumption ==
    \A p \in ThePlans : \A o \in Written(p, "register") :
        LET a == o.addr.agent_id
        IN  /\ Signed(o.addr) \in Addrs /\ a \in AgentIds
            /\ o.addr.primary_facts_url = Url("primary", a)
            /\ o.addr.private_facts_url \in {None, Url("neutral", a)}
            /\ o.addr.registry_url \in {None, RegistryUrl(a)}
            /\ \A h \in Hosts : Url(h, a) \in Urls

(* Who exits, or is complained of, is registered under a handle of its own. *)
ASSUME IdentityAssumption ==
    \A p \in ThePlans :
        /\ {Summarizer, AffectedParty} \cup Severing(p) \subseteq WellFormed
        /\ Summarizer \in AgentIds
        /\ \A o \in Written(p, "register") :
              o.addr.agent_id \in {Summarizer} \cup Severing(p)
                  => o.addr.agent_did = o.addr.agent_id

(* Nobody else issues under an id that the provider revokes. *)
ASSUME IssuerAssumption ==
    /\ ProviderIssuer \in TrustedIssuers \cap WellFormed
    /\ \A p \in ThePlans : \A r \in Written(p, "revoke") :
          LET id == ProviderVC(r.agent).id
          IN  /\ id \in CredIds
              /\ \A o \in Written(p, "host") :
                    \A c \in {o.body.creds.provider_vc, o.body.creds.auditor_vc} \ {None} :
                       c.id = id => c.issuer = ProviderIssuer

(* A script that saw something wrong comes to its verdict. *)
ASSUME VerdictAssumption ==
    \A p \in ThePlans : \A t \in Terminals : \A k \in DOMAIN p.texts[t] :
        LET o == p.texts[t][k]
        IN  o.op = "tamper" \/ (o.op = "walk" /\ o.end = "rejected")
              => \E n \in (k + 1)..Len(p.texts[t]) : p.texts[t][n].op = "verdict"

(* Step k of a text comes after a step that hosts a on host h. *)
HostedBefore(text, k, h, a) ==
    \E j \in 1..(k - 1) : /\ text[j].op = "host" /\ text[j].host = h
                          /\ text[j].body.agent_id = a
RegisteredBefore(text, k, name) ==
    \E j \in 1..(k - 1) : text[j].op = "register" /\ text[j].name = name

(* By its own request, or inside a bundle. *)
Exits(o, a) == \/ o.op = "sever" /\ o.agent = a
               \/ o.op = "host" /\ o.body.agent_id = a /\ o.body.severance = ExitOf(a)

(* Scripts host before they register, and have the successor of an identity *)
(* in place before they file its exit.                                      *)
ASSUME OrderAssumption ==
    \A p \in ThePlans : \A t \in Terminals : \A k \in DOMAIN p.texts[t] :
        LET o == p.texts[t][k]
        IN  /\ o.op = "register" =>
                  \A u \in {o.addr.primary_facts_url, o.addr.private_facts_url} \ {None} :
                      HostedBefore(p.texts[t], k, u[1], u[2])
            /\ \A e \in p.exits : Exits(o, e[1]) =>
                      /\ \A h \in Hosts : HostedBefore(p.texts[t], k, h, e[2])
                      /\ RegisteredBefore(p.texts[t], k, "exitable-v2")
            /\ o.op = "register" /\ o.name = "exitable-v2" =>
                  o.addr.agent_id \in {e[2] : e \in p.exits}

(* What a text has done when it comes to step k. *)
Before(text, k) == {text[j] : j \in 1..(k - 1)}

(* One of these instructions has been carried out when t comes to step k: in *)
(* its own text or, since loading waits for the files, in a text that saves. *)
Reached(p, t, k, what) ==
    \/ Before(p.texts[t], k) \cap what # {}
    \/ /\ \E o \in Before(p.texts[t], k) : o.op = "load"
       /\ \A u \in Terminals : \A i \in DOMAIN p.texts[u] :
             p.texts[u][i].op = "save" => Before(p.texts[u], i) \cap what # {}
Registering(p, name) == {o \in Written(p, "register") : o.name = name}
Hosting(p, h, a) == {o \in Written(p, "host") : o.host = h /\ o.body.agent_id = a}

(* The addresses a name may lead t to: the one t registered last, or anyone's. *)
LeadsTo(p, t, k, name) ==
    LET own == {j \in 1..(k - 1) : p.texts[t][j] \in Registering(p, name)}
    IN  IF own = {} THEN {o.addr : o \in Registering(p, name)}
        ELSE {p.texts[t][j].addr : j \in {i \in own : \A m \in own : m <= i}}
CredsOf(p, a) == {o.body.creds : o \in {w \in Written(p, "host") : w.body.agent_id = a}}
HostAsked(a, way) == IF \/ way = "primary"
                        \/ a.registration_type = "enterprise" /\ a.registry_url # None
                     THEN "primary" ELSE "neutral"

(* What a client asks of credentials, but for revocations by their issuers. *)
Shown(creds) == {creds.provider_vc, creds.auditor_vc} \ {None}
Fit(did, creds) ==
    /\ creds.provider_vc # None
    /\ \A c \in Shown(creds) : /\ VerifyCredential(c, TrustedIssuers, 0) = "verified"
                               /\ ~ IsRevoked(c, Revoked) /\ c.subject = did
    /\ RequiredIssuers \subseteq {c.issuer : c \in Shown(creds)}

(* Only t severs this agent or revokes its credentials, from step k on; a *)
(* bundle with a severance that does not verify is no exit.               *)
Standing(p, t, k, a, creds) ==
    \A u \in Terminals : \A j \in DOMAIN p.texts[u] :
        LET o == p.texts[u][j]
        IN  \/ u = t /\ j >= k
            \/ /\ o.op = "sever" => o.agent # a.agent_id
               /\ o.op = "host" /\ o.body.agent_id = a.agent_id =>
                     ~ VerifySeverance(o.body.severance, a.agent_did, a.agent_id)
               /\ o.op = "revoke" => \A c \in Shown(creds) :
                     o.issuer = c.issuer => ProviderVC(o.agent).id \notin {c.id, c.status}

(* The client of t asks for revocations: so it was loaded last. *)
Asks(p, t, k) ==
    \E j \in 1..(k - 1) : /\ p.texts[t][j] = Load({TRUE})
                          /\ \A i \in (j + 1)..(k - 1) : p.texts[t][i].op # "load"

(* What a script expects of a walk it has prepared itself: to resolve what is *)
(* fit and in force, to be refused what is not fit, or severed or revoked by  *)
(* it, and to surface the complaint it filed.                                 *)
Prepared(p, t, k, a, creds) ==
    LET o == p.texts[t][k]
        done == Before(p.texts[t], k)
        asked == {HostAsked(a, w) : w \in o.paths}
    IN  /\ o.end \in {"resolves", "surfaces"} =>
              /\ Fit(a.agent_did, creds) /\ Standing(p, t, k, a, creds)
              /\ "neutral" \in asked => a.private_facts_url # None
        /\ o.end = "surfaces" => a.agent_id = Summarizer /\ \A h \in asked : File(h) \in done
        /\ o.end = "rejected" => ~ Fit(a.agent_did, creds)
        /\ o.end = "refused" =>
              \/ \A h \in asked : Sever(h, a.agent_id) \in done
              \/ /\ Asks(p, t, k)
                 /\ \E r \in done : /\ r.op = "revoke" /\ r.issuer = ProviderIssuer
                                    /\ \E c \in Shown(creds) : c.id = ProviderVC(r.agent).id

ASSUME PreparationAssumption ==
    \A p \in ThePlans : \A t \in Terminals : \A k \in DOMAIN p.texts[t] :
        LET o == p.texts[t][k]
        IN  /\ o.op \in {"tamper", "read"} \/ (o.op = "walk" /\ o.end # "any") =>
                  Reached(p, t, k, Registering(p, o.name))
            /\ o.op = "walk" /\ o.end # "any" =>
                  \A a \in LeadsTo(p, t, k, o.name) : \A c \in CredsOf(p, a.agent_id) :
                      Prepared(p, t, k, a, c)
            /\ o.op = "file" => Reached(p, t, k, Hosting(p, o.host, Summarizer))
            /\ o.op = "sever" => Reached(p, t, k, Hosting(p, o.host, o.agent))

(* Scripts register identities, and sign credentials with dates. *)
ASSUME SigningAssumption ==
    \A p \in ThePlans :
        /\ \A o \in Written(p, "register") : o.addr.agent_did # None
        /\ \A o \in Written(p, "host") : \A c \in Shown(o.body.creds) :
              {c.validFrom, c.validUntil} \subseteq Times

VARIABLES
    entries, revocations,            \* the index
    pstore, papplied, pposted,       \* the provider's host
    nstore, napplied, nposted,       \* the neutral host
    reply,                           \* the last answer of a host
    prior,                           \* what the PUT of a terminal in progress found stored
    saved,                           \* the trust policy and the state file are there
    plan, at, outcome,               \* the plan chosen; each terminal's place in it, its end
    active, parked,                  \* whose client Resolver's variables are; the others'
    spent,                           \* faults so far
    outages,     \* history: servers that restarted
    acked,       \* history: <<server, subject, what>> answered 200 and not undone since
    seen,        \* history: seen[t], those of them when t's walk began
    disturbed    \* history: terminals a fault, or what another filed or published, may affect

P == INSTANCE FactsHost
       WITH Agents <- AgentIds, Ids <- ContestationIds, NoId <- None,
            Claims <- Contestation, Sevs <- Severance, NoSeverance <- None,
            Creds <- [provider_vc : Opt(Credential), auditor_vc : Opt(Credential)],
            NoBundle <- Nothing, Bodies <- {}, store <- pstore, applied <- papplied,
            posted <- pposted
N == INSTANCE FactsHost
       WITH Agents <- AgentIds, Ids <- ContestationIds, NoId <- None,
            Claims <- Contestation, Sevs <- Severance, NoSeverance <- None,
            Creds <- [provider_vc : Opt(Credential), auditor_vc : Opt(Credential)],
            NoBundle <- Nothing, Bodies <- {}, store <- nstore, applied <- napplied,
            posted <- nposted
Index == INSTANCE IndexService
           WITH NoAddr <- Nothing, RevokeRecords <- Revocation, NoRevocation <- Nothing

ASSUME NothingAssumption == /\ Nothing \notin Addrs \cup Revocation
                            /\ Nothing \notin P!Bundle \cup P!Body
                            /\ None \notin P!Bundle \cup {Nothing} \cup Contestation
ASSUME NoAnswerAssumption ==
    /\ {Unreachable, Garbled} \cap (Seq(Revocation) \cup RegistryAnswer \cup Bundle) = {}
    /\ Unreachable # Garbled
ASSUME ComplaintAssumption == /\ None \notin ContestationIds /\ ComplaintId \in ContestationIds
                              /\ IsFiniteSet(ContestationIds) /\ InteractionId \in InteractionIds

index == <<entries, revocations>>
phost == <<pstore, papplied, pposted>>
nhost == <<nstore, napplied, nposted>>
servers == <<index, phost, nhost, reply, prior>>
clients == <<pc, walk, client, clock, active, parked>>
notes == <<outages, acked, seen, disturbed>>
system == <<servers, clients, saved, plan, at, outcome, spent, notes>>

Text(t) == Plans[plan].texts[t]
Running(t) == outcome[t] \in {"running", "spoiled"}
Op(t) == Text(t)[at[t]]
Doing(t, op) == Running(t) /\ Op(t).op = op
FaultLeft == spent < Plans[plan].faults
-----------------------------------------------------------------------------
(* A client as a value. *)
Client == [configured |-> configured, live |-> live, lastList |-> lastList, pc |-> pc,
           path |-> path, act |-> act, addr |-> addr, url |-> url, role |-> role,
           bundle |-> bundle, provider |-> provider, auditor |-> auditor,
           surfaced |-> surfaced, acted |-> acted]
NewClient(c) ==
    [configured |-> c, live |-> {}, lastList |-> <<>>, pc |-> "idle", path |-> "primary",
     act |-> FALSE, addr |-> None, url |-> None, role |-> None, bundle |-> None,
     provider |-> None, auditor |-> None, surfaced |-> {}, acted |-> None]

Become(c) ==
    /\ configured' = c.configured /\ live' = c.live /\ lastList' = c.lastList
    /\ pc' = c.pc /\ path' = c.path /\ act' = c.act /\ addr' = c.addr
    /\ url' = c.url /\ role' = c.role /\ bundle' = c.bundle
    /\ provider' = c.provider /\ auditor' = c.auditor
    /\ surfaced' = c.surfaced /\ acted' = c.acted
    /\ UNCHANGED clock

Activate(t, c) ==
    /\ active' = t
    /\ parked' = [parked EXCEPT ![active] = Client, ![t] = NewClient(FALSE)]
    /\ Become(c)

(* The stages that ask a server.  The others read nothing that another may  *)
(* change, so they are taken at once.                                       *)
Quiet == \/ pc \in {"idle", "refresh", "lookup", "fetch"}
         \/ pc = "select" /\ Routed

Switch(t) ==
    /\ Quiet /\ t # active /\ Doing(t, "walk")
    /\ Activate(t, parked[t])
    /\ UNCHANGED <<servers, saved, plan, at, outcome, spent, notes>>
-----------------------------------------------------------------------------
(* What a step of a script leads to. *)
End(t, o) == outcome' = [outcome EXCEPT ![t] = o] /\ UNCHANGED at

Advance(t) ==
    /\ at' = [at EXCEPT ![t] = @ + 1]
    /\ outcome' = IF at[t] = Len(Text(t)) THEN [outcome EXCEPT ![t] = "done"] ELSE outcome

(* A request was handled and answered 200: go on, or the answer is lost and *)
(* the exception ends the script.  For the history: the marks it sets, those *)
(* it undoes, and the terminals that this affects.                           *)
Answered(t, sets, undoes, affects) ==
    \/ /\ Advance(t) /\ UNCHANGED spent
       /\ acked' = (acked \ undoes) \cup sets
       /\ disturbed' = disturbed \cup affects
    \/ /\ FaultLeft /\ spent' = spent + 1
       /\ End(t, "stopped")
       /\ acked' = acked \ undoes
       /\ disturbed' = disturbed \cup affects \cup {t}

(* raise_for_status *)
Refused(t) == End(t, "stopped") /\ UNCHANGED <<acked, spent, disturbed>>

LoadFiles(t) ==
    /\ Quiet /\ Doing(t, "load") /\ saved
    /\ \E c \in Op(t).configured : Activate(t, NewClient(c))
    /\ Advance(t)
    /\ UNCHANGED <<servers, saved, plan, spent, notes>>

SaveFiles(t) ==
    /\ Quiet /\ Doing(t, "save")
    /\ saved' = TRUE
    /\ Advance(t)
    /\ UNCHANGED <<servers, clients, plan, spent, notes>>

StoreOf(h) == IF h = "primary" THEN pstore ELSE nstore

(* What clients are shown of a bundle as its severance, or under the id of *)
(* the complaint; and what should stand there.                             *)
Stands(b, what) ==
    IF b = Nothing THEN None
    ELSE IF what = "severed" THEN b.severance
    ELSE IF b.contestations[ComplaintId] = <<>> THEN None
    ELSE Head(b.contestations[ComplaintId])
Genuine(a, what) == IF what = "severed" THEN ExitOf(a) ELSE Complaint

(* A PUT of body that found read stored undoes an exit, or a complaint: by  *)
(* what it carries itself or, silent, because it read before that was filed. *)
Undoes(body, read, what) ==
    Stands(IF Stands(body, what) # None THEN body ELSE read, what)
        # Genuine(body.agent_id, what)
Undone(t) == {m \in acked : \E what \in {"severed", "contested"} :
                 /\ m = <<Op(t).host, Op(t).body.agent_id, what>>
                 /\ Undoes(Op(t).body, prior[t], what)}

(* The terminals whose script files one of these. *)
Filers(marks) ==
    {u \in Terminals : \E k \in DOMAIN Text(u) : \E m \in marks :
        \/ m[3] = "severed" /\ Text(u)[k] = Sever(m[1], m[2])
        \/ m[3] = "contested" /\ Text(u)[k] = File(m[1])}

(* host_bundle, one of its two PUTs: put_facts finds the bundle on file ... *)
BeginPut(t) ==
    /\ Quiet /\ Doing(t, "host") /\ prior[t] = None
    /\ prior' = [prior EXCEPT ![t] = StoreOf(Op(t).host)[Op(t).body.agent_id]]
    /\ UNCHANGED <<index, phost, nhost, reply, clients, saved, plan, at, outcome, spent, notes>>

(* ... and stores the merged one. *)
HostFacts(t) ==
    LET o == Op(t)
        a == o.body.agent_id
    IN  /\ Quiet /\ Doing(t, "host") /\ prior[t] # None
        /\ \/ o.host = "primary" /\ P!PutOver(a, prior[t], o.body) /\ UNCHANGED nhost
           \/ o.host = "neutral" /\ N!PutOver(a, prior[t], o.body) /\ UNCHANGED phost
        /\ prior' = [prior EXCEPT ![t] = None]
        /\ Answered(t, {<<o.host, a, "hosted">>}, Undone(t), Filers(Undone(t)))
        /\ seen' = [u \in Terminals |-> seen[u] \ Undone(t)]
        /\ UNCHANGED <<index, clients, saved, plan, outages>>

(* The terminals whose script has registered this name before. *)
Users(name) ==
    {t \in Terminals : \E k \in 1..(at[t] - 1) : /\ Text(t)[k].op = "register"
                                                 /\ Text(t)[k].name = name}

RegisterAddr(t) ==
    LET o == Op(t)
        affected == Users(o.name) \ {t}
    IN  /\ Quiet /\ Doing(t, "register")
        /\ Index!Register(o.name, Signed(o.addr))
        /\ \/ Advance(t) /\ disturbed' = disturbed \cup affected /\ UNCHANGED spent
           \/ /\ FaultLeft /\ spent' = spent + 1
              /\ End(t, "stopped")
              /\ disturbed' = disturbed \cup affected \cup {t}
        /\ UNCHANGED <<phost, nhost, reply, prior, clients, saved, plan, outages, acked, seen>>

(* A POST is answered.  "duplicate" acknowledges nothing when what stands *)
(* there is another object; the script does not look.                     *)
Filed(t, h, a, what) ==
    IF reply'.status # 200 THEN Refused(t)
    ELSE IF Stands(StoreOf(h)[a], what) \in {None, Genuine(a, what)}
    THEN Answered(t, {<<h, a, what>>}, {}, {})
    ELSE Answered(t, {}, {}, {t})

FileComplaint(t) ==
    LET o == Op(t)
        a == Complaint.agent_id
        i == Complaint.contestation_id
    IN  /\ Quiet /\ Doing(t, "file")
        /\ \/ /\ o.host = "primary" /\ UNCHANGED nhost
              /\ (P!AddContestation(a, i, Complaint) \/ P!ContestationNotAdded(a, i))
           \/ /\ o.host = "neutral" /\ UNCHANGED phost
              /\ (N!AddContestation(a, i, Complaint) \/ N!ContestationNotAdded(a, i))
        /\ Filed(t, o.host, a, "contested")
        /\ UNCHANGED <<index, prior, clients, saved, plan, outages, seen>>

FileSeverance(t) ==
    LET o == Op(t)
        a == o.agent
    IN  /\ Quiet /\ Doing(t, "sever")
        /\ \/ /\ o.host = "primary" /\ UNCHANGED nhost
              /\ (P!SetSeverance(a, ExitOf(a)) \/ P!SeveranceNotSet(a))
           \/ /\ o.host = "neutral" /\ UNCHANGED phost
              /\ (N!SetSeverance(a, ExitOf(a)) \/ N!SeveranceNotSet(a))
        /\ Filed(t, o.host, a, "severed")
        /\ UNCHANGED <<index, prior, clients, saved, plan, outages, seen>>

(* Another issuer's entry of the same id displaces the provider's. *)
RevokeCredential(t) ==
    LET o == Op(t)
        c == ProviderVC(o.agent).id
        own == <<"index", c, "revoked">>
    IN  /\ Quiet /\ Doing(t, "revoke")
        /\ Index!Revoke([credential_id |-> c, issuer_did |-> o.issuer, by |-> o.issuer])
        /\ \/ /\ Advance(t) /\ UNCHANGED spent
              /\ acked' = IF o.issuer = ProviderIssuer THEN acked \cup {own} ELSE acked \ {own}
           \/ /\ FaultLeft /\ spent' = spent + 1
              /\ End(t, "stopped")
              /\ acked' = acked \ {own}
        /\ seen' = [u \in Terminals |-> IF o.issuer = ProviderIssuer THEN seen[u]
                                        ELSE seen[u] \ {own}]
        /\ disturbed' = disturbed
              \cup (IF o.issuer = ProviderIssuer THEN {}
                    ELSE {u \in Terminals : \E k \in DOMAIN Text(u) : Text(u)[k].op = "revoke"})
              \cup (IF outcome'[t] = "stopped" THEN {t} ELSE {})
        /\ UNCHANGED <<phost, nhost, reply, prior, clients, saved, plan, outages>>

(* verify_agentaddr on the genuine record, then on changed copies. *)
TamperAddr(t) ==
    LET a == entries[Op(t).name]
    IN  /\ Quiet /\ Doing(t, "tamper")
        /\ IF a = Nothing \/ ~ AddrVerified(a) THEN End(t, "stopped")
           ELSE IF AddrVerified([a EXCEPT !.by = None])
           THEN /\ at' = [at EXCEPT ![t] = @ + 1]
                /\ outcome' = [outcome EXCEPT ![t] = "spoiled"]
           ELSE Advance(t)
        /\ UNCHANGED <<servers, clients, saved, plan, spent, notes>>

ReadFacts(t) ==
    LET a == entries[Op(t).name]
    IN  /\ Quiet /\ Doing(t, "read")
        /\ IF a # Nothing /\ P!Hosted(a.primary_facts_url[2]) THEN Advance(t)
           ELSE End(t, "stopped")
        /\ UNCHANGED <<servers, clients, saved, plan, spent, notes>>

GiveVerdict(t) ==
    /\ Quiet /\ Doing(t, "verdict")
    /\ IF outcome[t] = "spoiled" THEN End(t, "failed") ELSE Advance(t)
    /\ UNCHANGED <<servers, clients, saved, plan, spent, notes>>
-----------------------------------------------------------------------------
BeginWalk ==
    LET o == Op(active)
    IN  /\ pc = "idle" /\ Doing(active, "walk")
        /\ \E p \in o.paths : Start(p, o.act)
        /\ seen' = [seen EXCEPT ![active] = acked]
        /\ UNCHANGED <<servers, active, parked, saved, plan, at, outcome, spent, outages,
                       acked, disturbed>>

(* The servers' answers: 404 is an HTTP error. *)
Listed == SetToSeq({revocations[c] : c \in CredIds} \ {Nothing})
Lookup(name) == IF entries[name] = Nothing THEN Unreachable ELSE entries[name]
Routing == [facts_url |-> Url(addr.registry_url[1], addr.registry_url[2]),
            private_facts_url |-> None]

(* A bundle's contestations as a list: the first entry of every id, which is *)
(* the one a client looks at, before the others.                             *)
InList(filed) ==
    LET first == SetToSeq({i \in ContestationIds : filed[i] # <<>>})
        later == SetToSeq(UNION {{i} \X (2..Len(filed[i])) : i \in ContestationIds})
    IN  [n \in DOMAIN first |-> Head(filed[first[n]])]
            \o [n \in DOMAIN later |-> filed[later[n][1]][later[n][2]]]

Served ==
    LET b == IF url[1] = "primary" THEN pstore[url[2]] ELSE nstore[url[2]]
    IN  IF b = Nothing THEN Unreachable
        ELSE [severance |-> b.severance, provider_vc |-> b.creds.provider_vc,
              auditor_vc |-> b.creds.auditor_vc, contestations |-> InList(b.contestations)]

WalkStep ==
    /\ \/ RefreshRevocations(Listed)
       \/ LookupAddr(Lookup(Op(active).name))
       \/ SelectFactsUrl
       \/ FollowRegistry(Routing)
       \/ FetchFacts(Served)
       \/ CheckSeverance \/ VerifyProvider \/ VerifyAuditor \/ EnforceThreshold
       \/ SurfaceContestations \/ Act(FALSE)
    /\ UNCHANGED <<servers, active, parked, saved, plan, at, outcome, spent, notes>>

(* A fetch of the walk fails; without a list the walk knows no more than    *)
(* before.                                                                  *)
FetchFails ==
    /\ FaultLeft /\ spent' = spent + 1
    /\ \/ /\ configured /\ RefreshRevocations(Unreachable)
          /\ seen' = [seen EXCEPT ![active] = {s \in @ : s[1] # "index"}]
       \/ /\ \/ LookupAddr(Unreachable)
             \/ FollowRegistry(Unreachable)
             \/ FetchFacts(Unreachable)
          /\ UNCHANGED seen
    /\ disturbed' = disturbed \cup {active}
    /\ UNCHANGED <<servers, active, parked, saved, plan, at, outcome, outages, acked>>

(* Mutant: the next walk finds the last one's variables. *)
EndWalk_Keeps ==
    /\ pc \in Final /\ Running(active)
    /\ Advance(active)
    /\ UNCHANGED <<servers, clients, saved, plan, spent, notes>>

(* What the script makes of a walk; its client keeps the revocations. *)
EndWalk ==
    LET end == Op(active).end
        good == pc = "resolved"
    IN  /\ pc \in Final /\ Running(active)
        /\ CASE \/ end = "any"
                \/ end \in {"refused", "rejected"} /\ pc = "refused"
                \/ end = "resolves" /\ good
                \/ end = "surfaces" /\ good /\ surfaced # {} -> Advance(active)
             [] end = "rejected" /\ good ->
                  /\ at' = [at EXCEPT ![active] = @ + 1]
                  /\ outcome' = [outcome EXCEPT ![active] = "spoiled"]
             [] good /\ (end = "refused" \/ (end = "surfaces" /\ surfaced = {})) ->
                  End(active, "failed")
             [] OTHER -> End(active, "stopped")
        /\ Become([NewClient(configured) EXCEPT !.live = live, !.lastList = lastList])
        /\ seen' = [seen EXCEPT ![active] = {}]
        /\ UNCHANGED <<servers, active, parked, saved, plan, spent, outages, acked, disturbed>>
-----------------------------------------------------------------------------
InFlight(t, s) == prior[t] # None /\ Op(t).host = s

(* A server ends, and with it the PUTs it has begun, and starts again. *)
Restart(s) ==
    /\ Quiet /\ FaultLeft /\ spent' = spent + 1
    /\ CASE s = "index" -> Index!Restart /\ UNCHANGED <<phost, nhost, reply>>
         [] s = "primary" -> P!Restart /\ UNCHANGED <<index, nhost>>
         [] s = "neutral" -> N!Restart /\ UNCHANGED <<index, phost>>
    /\ prior' = [t \in Terminals |-> IF InFlight(t, s) THEN None ELSE prior[t]]
    /\ outcome' = [t \in Terminals |-> IF InFlight(t, s) THEN "stopped" ELSE outcome[t]]
    /\ outages' = outages \cup {s}
    /\ acked' = {k \in acked : k[1] # s}
    /\ seen' = [t \in Terminals |-> {k \in seen[t] : k[1] # s}]
    /\ disturbed' = Terminals
    /\ UNCHANGED <<clients, saved, plan, at>>

(* Mutant: the helpers do not raise, and the script goes on. *)
RequestLost_GoesOn(t) ==
    /\ Quiet /\ FaultLeft /\ spent' = spent + 1
    /\ Running(t) /\ prior[t] = None
    /\ Op(t).op \in {"host", "register", "file", "sever", "revoke", "read", "tamper"}
    /\ Advance(t)
    /\ disturbed' = disturbed \cup {t}
    /\ UNCHANGED <<servers, clients, saved, plan, outages, acked, seen>>

(* A request of a script does not arrive. *)
RequestLost(t) ==
    /\ Quiet /\ FaultLeft /\ spent' = spent + 1
    /\ Running(t) /\ prior[t] = None
    /\ Op(t).op \in {"host", "register", "file", "sever", "revoke", "read", "tamper"}
    /\ End(t, "stopped")
    /\ disturbed' = disturbed \cup {t}
    /\ UNCHANGED <<servers, clients, saved, plan, outages, acked, seen>>

Waiting(t) == Doing(t, "load") /\ ~ saved
Finished == /\ \A t \in Terminals : ~ Running(t) \/ Waiting(t)
            /\ UNCHANGED system

SystemInit ==
    /\ Init /\ configured = FALSE
    /\ Index!Init /\ P!Init /\ N!Init
    /\ prior = [t \in Terminals |-> None]
    /\ saved = FALSE
    /\ plan \in DOMAIN Plans
    /\ at = [t \in Terminals |-> 1]
    /\ outcome = [t \in Terminals |-> IF Text(t) = <<>> THEN "done" ELSE "running"]
    /\ active = CHOOSE t \in Terminals : TRUE
    /\ parked = [t \in Terminals |-> NewClient(FALSE)]
    /\ spent = 0 /\ outages = {} /\ acked = {} /\ disturbed = {}
    /\ seen = [t \in Terminals |-> {}]

ScriptStep(t) ==
    \/ LoadFiles(t) \/ SaveFiles(t) \/ HostFacts(t) \/ RegisterAddr(t)
    \/ FileComplaint(t) \/ FileSeverance(t) \/ RevokeCredential(t)
    \/ TamperAddr(t) \/ ReadFacts(t) \/ GiveVerdict(t)

SystemNext ==
    \/ \E t \in Terminals : ScriptStep(t) \/ BeginPut(t) \/ Switch(t) \/ RequestLost(t)
    \/ BeginWalk \/ WalkStep \/ FetchFails \/ EndWalk
    \/ \E s \in {"index", "primary", "neutral"} : Restart(s)
    \/ Finished

SystemSpec == SystemInit /\ [][SystemNext]_system
-----------------------------------------------------------------------------
Outcomes == {"running", "spoiled", "done", "failed", "stopped"}

(* A client is in a walk only while its script is at that walk, and nobody  *)
(* is both active and parked.                                               *)
SystemTypeOK ==
    /\ TypeOK
    /\ entries \in [Names -> Addrs \cup {Nothing}]
    /\ \A c \in CredIds : revocations[c] # Nothing => Index!Genuine(revocations[c])
    /\ at \in [Terminals -> Nat] /\ outcome \in [Terminals -> Outcomes]
    /\ \A t \in Terminals : prior[t] # None => Doing(t, "host")
    /\ pc # "idle" => Doing(active, "walk")
    /\ parked[active] = NewClient(FALSE)
    /\ \A t \in Terminals : parked[t].pc # "idle" => Doing(t, "walk")
    /\ spent \in 0..Plans[plan].faults

(* Prior authority is inexecutable: no walk that begins after a host has    *)
(* acknowledged an exit, and is answered by that host, resolves the exited  *)
(* identity, whoever walks, whatever credentials and complaints are         *)
(* published again and however far the exit script got (exit.py 3-6,        *)
(* 59-79).  Three things undo an exit: a restart, a PUT that carries        *)
(* another severance, and one that had begun when the exit was filed.  A    *)
(* "duplicate" answered when another severance is on file is no             *)
(* acknowledgement.                                                         *)
ExitHolds ==
    pc = "resolved" => <<url[1], addr.agent_id, "severed">> \notin seen[active]

(* A client that asks for revocations refuses a credential that its issuer  *)
(* had revoked, with the index's acknowledgement, before the walk began, if *)
(* it got the list in this walk (revoke.py 3-4, 52-66).  An index that      *)
(* restarts, and an entry another issuer files under the same id, end it.   *)
RevocationHolds ==
    pc = "resolved" /\ configured =>
        \A c \in {provider, auditor} \ {None} : <<"index", c.id, "revoked">> \notin seen[active]

(* What the affected party filed with a host is surfaced by every walk that *)
(* begins later and is answered by this host, also when the provider has    *)
(* published its bundle again meanwhile (contest.py 3-6, 50-71).  A restart *)
(* undoes it, and a PUT that carries another entry under its id or had      *)
(* begun when it was filed.                                                 *)
ComplaintSurfaces ==
    pc = "resolved" /\ <<url[1], addr.agent_id, "contested">> \in seen[active] =>
        \E n \in surfaced : bundle.contestations[n].contestation_id = ComplaintId

HostedAt(u) == CASE u[1] = "primary" -> P!Hosted(u[2])
                 [] u[1] = "neutral" -> N!Hosted(u[2])

(* Whoever finds an address finds its facts: every URL in the index is      *)
(* served, wherever a script has stopped, unless that host has restarted    *)
(* ("so either resolution path works", register.py 6-7).                    *)
RegisteredIsHosted ==
    \A n \in Names :
        entries[n] # Nothing =>
            \A u \in {entries[n].primary_facts_url, entries[n].private_facts_url} \ {None} :
                u[1] \in outages \/ HostedAt(u)

ExitOnFile(a) == \E h \in Hosts : Stands(StoreOf(h)[a], "severed") = ExitOf(a)

(* The agent continues: when the exit of an identity is on file anywhere,   *)
(* its successor is hosted on both hosts and the successors' name leads to  *)
(* it, wherever the exit script has stopped (exit.py 54-57); or it leads to *)
(* the successor of another exit of the plan, since the scripts share the   *)
(* name and the index keeps one entry of a name (exit.py:55).  A single     *)
(* exit leaves its own successor no rival.                                  *)
SuccessorReady ==
    \A e \in Plans[plan].exits :
        ExitOnFile(e[1]) =>
            /\ \A h \in Hosts : h \in outages \/ HostedAt(Url(h, e[2]))
            /\ \/ "index" \in outages
               \/ /\ entries["exitable-v2"] # Nothing
                  /\ entries["exitable-v2"].agent_id \in {f[2] : f \in Plans[plan].exits}

(* The agent's own domain does not see the request of a walk that is        *)
(* reported hidden: neither its host nor a registry it runs was asked       *)
(* (resolver.py 16-18, docker-compose.yml 13-14).                           *)
PrivateWalkUnseen ==
    role = "neutral" => /\ url[1] = "neutral"
                        /\ Routed => addr.registry_url[1] # "primary"

(* A script stops, or reports a failure of the system, only when a request  *)
(* or an answer of its own was lost, a server restarted, another script     *)
(* used its names or its credential id, or a PUT undid, or forestalled,     *)
(* what it filed (run_all.py 23-35).                                        *)
ScriptsFailOnlyForCause ==
    \A t \in Terminals : outcome[t] \in {"failed", "stopped"} => t \in disturbed
=============================================================================
