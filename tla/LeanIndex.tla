----------------------------- MODULE LeanIndex -----------------------------
(***************************************************************************)
(* The lean index (src/index/app.py): names to signed addresses, and the   *)
(* revocation list.  FastAPI runs the synchronous handlers in a pool of    *)
(* threads that share the dictionaries without a lock.  register writes    *)
(* two of them and list_agents walks one entry by entry, so these take     *)
(* several steps; every other handler touches shared state once.           *)
(*                                                                         *)
(* Addresses are signed with a key that outlives the process (KeyStore),   *)
(* so a signature is left out: what differs between two addresses of a     *)
(* name is the agent id and the rest of the record, its pointer.           *)
(***************************************************************************)
EXTENDS Naturals, Sequences, FiniteSets

CONSTANTS
    Names, AgentIds, Pointers,
    NewIds,        \* the ids uuid4 yields, never used before
    NoId,          \* a registration without an agent_id
    NoAddr,        \* no entry in _by_id
    CredIds, Dids, WellFormed,   \* credential ids, did:keys, those that decode
    Nobody,        \* by: no key verifies the signature
    Unreadable,    \* by: not base64
    NoRevocation,  \* no entry in _revocations
    Requests, Threads,
    MaxRequests    \* bound: requests taken up in a behaviour

AgentAddr == [agent_name : Names, agent_id : AgentIds \cup NewIds, pointer : Pointers]
Revocation == [credential_id : CredIds, issuer_did : Dids,
               by : WellFormed \cup {Nobody, Unreadable}]

RegisterRequest == [op : {"register"}, agent_name : Names,
                    agent_id : AgentIds \cup {NoId}, pointer : Pointers]
ResolveRequest == [op : {"resolve"}, name : Names]
ListRequest == [op : {"list"}]
RevokeRequest == [op : {"revoke"}, revocation : Revocation]
RevocationsRequest == [op : {"revocations"}]

ASSUME RequestsAssumption ==
    Requests \subseteq RegisterRequest \cup ResolveRequest \cup ListRequest
                         \cup RevokeRequest \cup RevocationsRequest
ASSUME IdsAssumption == NoId \notin AgentIds /\ AgentIds \cap NewIds = {}
ASSUME NothingAssumption == NoAddr \notin AgentAddr /\ NoRevocation \notin Revocation
ASSUME MaxRequestsAssumption == MaxRequests \in Nat

VARIABLES
    byName,    \* _by_name: the addresses in the order their names were added
    byId,      \* _by_id
    revoked,   \* _revocations
    pc, req,   \* the threads' handlers and the requests they handle
    addr,      \* addr[t]: the address register is storing
    listing,   \* listing[t]: what list_agents has gathered
    reply,     \* the last answer given
    minted,    \* ids drawn from NewIds
    begun,     \* requests taken up
    known,     \* history: known[t], the names there when t's request was taken up
    grew,      \* history: grew[t], a name has been added since
    shared,    \* history: ids two overlapping registrations, or two names, have used
    accepted   \* history: <<credential, issuer>> whose revocation was answered 200

tables == <<byName, byId, revoked>>
threads == <<pc, req, addr, listing, begun, minted>>
history == <<known, grew, shared, accepted>>
vars == <<tables, threads, reply, history>>

NoRequest == [op |-> "none"]
NoListing == [count |-> 0, size |-> 0, agents |-> <<>>]
Plain(status) == [op |-> "other", status |-> status]

NamesOf(table) == {table[n].agent_name : n \in DOMAIN table}

(* Mutant: entries are only ever added. *)
Stored_Appends(table, a) == Append(table, a)

(* Mutant: a re-registration is recognised by its agent id. *)
Stored_ById(table, a) ==
    IF \E n \in DOMAIN table : table[n].agent_id = a.agent_id
    THEN [n \in DOMAIN table |-> IF table[n].agent_id = a.agent_id THEN a ELSE table[n]]
    ELSE Append(table, a)

(* _by_name[a.agent_name] = a: in place, or as the last entry. *)
Stored(table, a) ==
    IF a.agent_name \in NamesOf(table)
    THEN [n \in DOMAIN table |-> IF table[n].agent_name = a.agent_name THEN a
                                 ELSE table[n]]
    ELSE Append(table, a)
-----------------------------------------------------------------------------
Begin(t, r) ==
    /\ pc[t] = "idle" /\ begun < MaxRequests
    /\ begun' = begun + 1
    /\ pc' = [pc EXCEPT ![t] = r.op]
    /\ req' = [req EXCEPT ![t] = r]
    /\ known' = [known EXCEPT ![t] = NamesOf(byName)]
    /\ grew' = [grew EXCEPT ![t] = FALSE]
    /\ UNCHANGED <<tables, addr, listing, minted, reply, shared, accepted>>

Answer(t, answer) ==
    /\ pc' = [pc EXCEPT ![t] = "idle"]
    /\ req' = [req EXCEPT ![t] = NoRequest]
    /\ addr' = [addr EXCEPT ![t] = NoAddr]
    /\ listing' = [listing EXCEPT ![t] = NoListing]
    /\ known' = [known EXCEPT ![t] = {}]
    /\ grew' = [grew EXCEPT ![t] = FALSE]
    /\ reply' = answer
    /\ UNCHANGED <<begun, minted>>

(* Registrations in progress that store under id, besides t's. *)
Storing(t, id) == {u \in Threads \ {t} : addr[u] # NoAddr /\ addr[u].agent_id = id}

(* An id whose entries need not agree: it belongs to a registration beside *)
(* this one, or to another name.                                           *)
SharedBy(t, a) == \/ Storing(t, a.agent_id) # {}
                  \/ /\ byId[a.agent_id] # NoAddr
                     /\ byId[a.agent_id].agent_name # a.agent_name

(* register, 98-111: the address is built and signed. *)
RegisterSign(t) ==
    /\ pc[t] = "register"
    /\ \E id \in IF req[t].agent_id = NoId THEN NewIds \ minted ELSE {req[t].agent_id} :
          LET a == [agent_name |-> req[t].agent_name, agent_id |-> id,
                    pointer |-> req[t].pointer]
          IN  /\ addr' = [addr EXCEPT ![t] = a]
              /\ minted' = minted \cup (NewIds \cap {id})
              /\ shared' = IF SharedBy(t, a) THEN shared \cup {id} ELSE shared
    /\ pc' = [pc EXCEPT ![t] = "register_name"]
    /\ UNCHANGED <<tables, req, listing, begun, reply, known, grew, accepted>>

(* 112 *)
RegisterName(t) ==
    /\ pc[t] = "register_name"
    /\ byName' = Stored(byName, addr[t])
    /\ grew' = IF addr[t].agent_name \in NamesOf(byName) THEN grew
               ELSE [u \in Threads |-> TRUE]
    /\ pc' = [pc EXCEPT ![t] = "register_id"]
    /\ UNCHANGED <<byId, revoked, req, addr, listing, begun, minted, reply, known,
                   shared, accepted>>

(* Mutant: only the first address of an id is stored. *)
RegisterId_First(t) ==
    /\ pc[t] = "register_id"
    /\ byId' = IF byId[addr[t].agent_id] = NoAddr
               THEN [byId EXCEPT ![addr[t].agent_id] = addr[t]] ELSE byId
    /\ Answer(t, Plain(200))
    /\ UNCHANGED <<byName, revoked, shared, accepted>>

(* 113-114 *)
RegisterId(t) ==
    /\ pc[t] = "register_id"
    /\ byId' = [byId EXCEPT ![addr[t].agent_id] = addr[t]]
    /\ Answer(t, Plain(200))
    /\ UNCHANGED <<byName, revoked, shared, accepted>>

(* resolve *)
Resolve(t) ==
    /\ pc[t] = "resolve"
    /\ Answer(t, Plain(IF req[t].name \in NamesOf(byName) THEN 200 ELSE 404))
    /\ UNCHANGED <<tables, shared, accepted>>

(* list_agents, 130: the count. *)
ListCount(t) ==
    /\ pc[t] = "list"
    /\ listing' = [listing EXCEPT ![t].count = Len(byName)]
    /\ pc' = [pc EXCEPT ![t] = "list_walk"]
    /\ UNCHANGED <<tables, req, addr, begun, minted, reply, history>>

(* 138: the iterator remembers the size of the dictionary. *)
ListWalk(t) ==
    /\ pc[t] = "list_walk"
    /\ listing' = [listing EXCEPT ![t].size = Len(byName)]
    /\ pc' = [pc EXCEPT ![t] = "list_next"]
    /\ UNCHANGED <<tables, req, addr, begun, minted, reply, history>>

(* Mutant: the walk goes on over a dictionary that has changed its size, up *)
(* to the size it had.                                                      *)
ListNext_Unchecked(t) ==
    LET l == listing[t]
        done == Len(l.agents)
    IN  /\ pc[t] = "list_next"
        /\ \/ /\ done = l.count
              /\ Answer(t, [op |-> "list", status |-> 200, count |-> l.count,
                            agents |-> l.agents, known |-> known[t], grew |-> grew[t],
                            names |-> NamesOf(byName)])
              /\ UNCHANGED <<shared, accepted>>
           \/ /\ done < l.count
              /\ listing' = [listing EXCEPT ![t].agents = Append(@, byName[done + 1])]
              /\ UNCHANGED <<pc, req, addr, begun, minted, reply, history>>
        /\ UNCHANGED tables

(* 131-139: the next entry; the iterator raises RuntimeError when the size  *)
(* is not what it was, at the end as well.                                  *)
ListNext(t) ==
    LET l == listing[t]
        done == Len(l.agents)
        answer(status) == [op |-> "list", status |-> status, count |-> l.count,
                           agents |-> l.agents, known |-> known[t], grew |-> grew[t],
                           names |-> NamesOf(byName)]
    IN  /\ pc[t] = "list_next"
        /\ \/ /\ Len(byName) # l.size
              /\ Answer(t, answer(500))
              /\ UNCHANGED <<shared, accepted>>
           \/ /\ Len(byName) = l.size /\ done = l.size
              /\ Answer(t, answer(200))
              /\ UNCHANGED <<shared, accepted>>
           \/ /\ Len(byName) = l.size /\ done < l.size
              /\ listing' = [listing EXCEPT ![t].agents = Append(@, byName[done + 1])]
              /\ UNCHANGED <<pc, req, addr, begun, minted, reply, history>>
        /\ UNCHANGED tables

(* Mutant: an invalid signature is answered 403 after the entry is stored. *)
Revoke_StoresFirst(t) ==
    LET r == req[t].revocation
        genuine == r.issuer_did \in WellFormed /\ r.by = r.issuer_did
    IN  /\ pc[t] = "revoke"
        /\ revoked' = [revoked EXCEPT ![r.credential_id] = r]
        /\ accepted' = IF genuine THEN accepted \cup {<<r.credential_id, r.issuer_did>>}
                       ELSE accepted
        /\ Answer(t, Plain(IF genuine THEN 200 ELSE 403))
        /\ UNCHANGED <<byName, byId, shared>>

(* revoke: the signature must verify with the key of the issuer_did given;  *)
(* one that is not base64 raises.  An entry displaces another of its id.    *)
Revoke(t) ==
    LET r == req[t].revocation
    IN  /\ pc[t] = "revoke"
        /\ \/ /\ r.issuer_did \notin WellFormed
              /\ Answer(t, Plain(422)) /\ UNCHANGED <<revoked, accepted>>
           \/ /\ r.issuer_did \in WellFormed /\ r.by = Unreadable
              /\ Answer(t, Plain(500)) /\ UNCHANGED <<revoked, accepted>>
           \/ /\ r.issuer_did \in WellFormed /\ r.by \notin {r.issuer_did, Unreadable}
              /\ Answer(t, Plain(403)) /\ UNCHANGED <<revoked, accepted>>
           \/ /\ r.issuer_did \in WellFormed /\ r.by = r.issuer_did
              /\ revoked' = [revoked EXCEPT ![r.credential_id] = r]
              /\ accepted' = accepted \cup {<<r.credential_id, r.issuer_did>>}
              /\ Answer(t, Plain(200))
        /\ UNCHANGED <<byName, byId, shared>>

(* revocations: list() copies the values without letting another thread in. *)
Revocations(t) ==
    /\ pc[t] = "revocations"
    /\ Answer(t, Plain(200))
    /\ UNCHANGED <<tables, shared, accepted>>

Init ==
    /\ byName = <<>>
    /\ byId = [i \in AgentIds \cup NewIds |-> NoAddr]
    /\ revoked = [c \in CredIds |-> NoRevocation]
    /\ pc = [t \in Threads |-> "idle"]
    /\ req = [t \in Threads |-> NoRequest]
    /\ addr = [t \in Threads |-> NoAddr]
    /\ listing = [t \in Threads |-> NoListing]
    /\ reply = Plain(200)
    /\ minted = {} /\ begun = 0
    /\ known = [t \in Threads |-> {}]
    /\ grew = [t \in Threads |-> FALSE]
    /\ shared = {} /\ accepted = {}

(* The process ends with its requests: names and revocations are gone. *)
Restart ==
    /\ byName' = <<>>
    /\ byId' = [i \in AgentIds \cup NewIds |-> NoAddr]
    /\ revoked' = [c \in CredIds |-> NoRevocation]
    /\ pc' = [t \in Threads |-> "idle"]
    /\ req' = [t \in Threads |-> NoRequest]
    /\ addr' = [t \in Threads |-> NoAddr]
    /\ listing' = [t \in Threads |-> NoListing]
    /\ reply' = Plain(200)
    /\ known' = [t \in Threads |-> {}]
    /\ grew' = [t \in Threads |-> FALSE]
    /\ shared' = {} /\ accepted' = {}
    /\ UNCHANGED <<begun, minted>>

Step(t) ==
    \/ RegisterSign(t) \/ RegisterName(t) \/ RegisterId(t)
    \/ Resolve(t)
    \/ ListCount(t) \/ ListWalk(t) \/ ListNext(t)
    \/ Revoke(t) \/ Revocations(t)

Next == \/ \E t \in Threads : Step(t) \/ \E r \in Requests : Begin(t, r)
        \/ Restart

Spec == Init /\ [][Next]_vars
-----------------------------------------------------------------------------
Locations == {"idle", "register", "register_name", "register_id", "resolve",
              "list", "list_walk", "list_next", "revoke", "revocations"}

(* _by_name has one entry per name, its addresses are of the right shape,   *)
(* and a thread has what its handler reads.                                 *)
TypeOK ==
    /\ byName \in Seq(AgentAddr)
    /\ Cardinality(NamesOf(byName)) = Len(byName)
    /\ byId \in [AgentIds \cup NewIds -> AgentAddr \cup {NoAddr}]
    /\ \A i \in AgentIds \cup NewIds : byId[i] # NoAddr => byId[i].agent_id = i
    /\ revoked \in [CredIds -> Revocation \cup {NoRevocation}]
    /\ pc \in [Threads -> Locations]
    /\ req \in [Threads -> Requests \cup {NoRequest}]
    /\ addr \in [Threads -> AgentAddr \cup {NoAddr}]
    /\ listing \in [Threads -> [count : Nat, size : Nat, agents : Seq(AgentAddr)]]
    /\ minted \subseteq NewIds
    /\ known \in [Threads -> SUBSET Names] /\ grew \in [Threads -> BOOLEAN]
    /\ shared \subseteq AgentIds \cup NewIds /\ accepted \subseteq CredIds \X Dids
    /\ \A t \in Threads : /\ pc[t] = "idle" <=> req[t] = NoRequest
                          /\ pc[t] \in {"register_name", "register_id"} <=> addr[t] # NoAddr
                          /\ Len(listing[t].agents) <= listing[t].size
    /\ begun \in 0..MaxRequests

(* A listing that is answered is the whole table: it names every agent      *)
(* registered when the request came and every one there when it is          *)
(* answered, each once, although registrations ran beside it (list_agents   *)
(* walks the live dictionary).  It fails, or shows a count that is not the  *)
(* number of its agents, only when a new name was added while it ran.       *)
ListingIsWhole ==
    reply.op = "list" =>
        LET listed == {reply.agents[n].agent_name : n \in DOMAIN reply.agents}
        IN  \/ reply.grew /\ reply.status # 200
            \/ /\ reply.status = 200
               /\ reply.known \subseteq listed
               /\ listed = reply.names
               /\ Cardinality(listed) = Len(reply.agents)
               /\ reply.count = Len(reply.agents) \/ reply.grew

(* The two tables agree: the address a name resolves to is the one on file  *)
(* under its id, unless its registration is between its two writes, or two  *)
(* registrations of the id overlapped or came under different names         *)
(* (register, 112-113).                                                     *)
TablesAgree ==
    \A n \in DOMAIN byName :
        LET a == byName[n]
        IN  \/ byId[a.agent_id] = a
            \/ a.agent_id \in shared
            \/ \E t \in Threads : pc[t] = "register_id" /\ addr[t] = a

(* Every revocation that was answered 200 keeps its credential on the list  *)
(* until the process ends, under this issuer or under another that was      *)
(* accepted for the same id; and every entry can be verified by whoever     *)
(* reads it ("each entry is independently verifiable", revocations).        *)
RevocationsAccountable ==
    /\ \A p \in accepted : revoked[p[1]] # NoRevocation
    /\ \A c \in CredIds :
          revoked[c] # NoRevocation =>
              /\ revoked[c].by = revoked[c].issuer_did
              /\ <<c, revoked[c].issuer_did>> \in accepted

(* The service its users see: an address becomes visible when it is written *)
(* under its name.                                                          *)
ServedEntries ==
    [n \in Names |->
        IF n \in NamesOf(byName)
        THEN byName[CHOOSE k \in DOMAIN byName : byName[k].agent_name = n] ELSE NoAddr]

Service == INSTANCE IndexService
             WITH Addrs <- AgentAddr, RevokeRecords <- Revocation,
                  entries <- ServedEntries, revocations <- revoked

(* However its threads interleave, the index is the service: a request      *)
(* writes one name or one credential id, at one moment, only from a record  *)
(* given to it for that name and, for a revocation, signed by the issuer it *)
(* names; two requests never mix their records (index/app.py 97-163).       *)
ImplementsService == Service!Spec
=============================================================================
