-------------------------- MODULE FactsHostThreads --------------------------
(***************************************************************************)
(* The AgentFacts host (src/facts/app.py) as it runs: FastAPI gives every  *)
(* request to a synchronous handler to a thread of a pool, the handlers    *)
(* share _store and the bundle objects it refers to, and nothing locks.    *)
(* A step below is a stretch of a handler that reads or writes the shared  *)
(* objects once, or that may be taken for one because what it reads is     *)
(* only appended to: the loops over a contestation list (lines 64-68 and   *)
(* 101) end on the list's length of that moment, so they are read whole at *)
(* their end.                                                              *)
(*                                                                         *)
(* The variables reply, applied and posted are those of FactsHost: with    *)
(* one thread this module implements that one.                             *)
(***************************************************************************)
EXTENDS Naturals, FiniteSets, Sequences

CONSTANTS
    Agents, Ids, NoId, Claims, Creds, Sevs, NoSeverance, NoBundle,
    Requests,      \* the requests clients may send
    Threads,       \* the pool
    MaxRequests    \* bound: requests taken up in a behaviour

(* An entry of a contestation list as it was sent. *)
Entry == [id : Ids \cup {NoId}, claim : Claims]

BundleObject == [creds : Creds, contestations : Seq(Entry),
                 severance : Sevs \cup {NoSeverance}]

PutRequest == [op : {"put"}, agent : Agents, agent_id : Agents, bundle : BundleObject]
ContestRequest == [op : {"contest"}, agent : Agents, entry : Entry]
SeverRequest == [op : {"sever"}, agent : Agents, severance : Sevs \cup {NoSeverance}]
GetRequest == [op : {"get"}, agent : Agents]

ASSUME RequestsAssumption ==
    Requests \subseteq PutRequest \cup ContestRequest \cup SeverRequest \cup GetRequest
ASSUME MaxRequestsAssumption == MaxRequests \in Nat
ASSUME NoIdAssumption == NoId \notin Ids
ASSUME NoSeveranceAssumption == NoSeverance \notin Sevs
ASSUME NoBundleAssumption ==
    NoBundle \notin [creds : Creds, contestations : [Ids -> Seq(Claims)],
                     severance : Sevs \cup {NoSeverance}]

VARIABLES
    heap,      \* the bundle objects published so far; an index is a reference
    store,     \* _store: a reference for every hosted agent, 0 for the others
    pc,        \* pc[t]: where thread t is in its handler
    req,       \* req[t]: the request it handles
    obj,       \* obj[t]: the reference it read from _store (prior, bundle)
    stored,    \* stored[t]: the bundle put_facts is building
    begun,     \* number of requests taken up
    met,       \* history: the operations on the same agent t's request overlapped
    reply, applied, posted,   \* as in FactsHost
    quiet,     \* history: <<agent, id>> answered 200 with no PUT overlapped
    clash,     \* history: <<agent, id>> two POSTs of which overlapped
    exited     \* history: agents whose severance was answered 200 to with no
               \* PUT and no other severance POST overlapped

shared == <<heap, store>>
locals == <<pc, req, obj, stored, begun, met>>
history == <<applied, posted, quiet, clash, exited>>
vars == <<shared, locals, reply, history>>

Ok        == [status |-> 200, duplicate |-> FALSE]
Duplicate == [status |-> 200, duplicate |-> TRUE]
NotFound  == [status |-> 404, duplicate |-> FALSE]
Unprocessable == [status |-> 422, duplicate |-> FALSE]

NoObject == 0
NoRequest == [op |-> "none"]
EmptyBundle == [contestations |-> <<>>, severance |-> NoSeverance]   \* prior = {}

Deref(ref) == IF ref = NoObject THEN EmptyBundle ELSE heap[ref]
IdsOf(list) == {list[n].id : n \in DOMAIN list} \ {NoId}

(* A list comprehension with a condition: the entries at the positions that *)
(* meet it, in the order of the list.                                       *)
Nth(positions, k) ==
    CHOOSE n \in positions : Cardinality({m \in positions : m <= n}) = k
Comprehend(list, positions) ==
    [k \in 1..Cardinality(positions) |-> list[Nth(positions, k)]]

(* Lines 62-68: the id-bearing entries of the new body, then the entries on *)
(* file whose id is not among those kept before them.                       *)
IdBearing(list) == Comprehend(list, {n \in DOMAIN list : list[n].id # NoId})

(* Mutant: what is on file is appended without looking at what was kept. *)
MergeLists_Unseen(kept, existing) == kept \o existing

Unseen(kept, existing) ==
    {n \in DOMAIN existing :
        /\ existing[n].id \notin IdsOf(kept) \cup {NoId}
        /\ \A m \in 1..(n - 1) : existing[m].id # existing[n].id}
MergeLists(kept, existing) == kept \o Comprehend(existing, Unseen(kept, existing))

(* The view of a bundle FactsHost has: per id, the contents in list order. *)
PerId(list, ids) ==
    [i \in ids |-> LET of == {n \in DOMAIN list : list[n].id = i}
                   IN  [k \in 1..Cardinality(of) |-> list[Nth(of, k)].claim]]
BundleView(b) == [creds |-> b.creds, severance |-> b.severance,
                  contestations |-> PerId(b.contestations, Ids)]
BodyView(r) == [agent_id |-> r.agent_id, creds |-> r.bundle.creds,
                severance |-> r.bundle.severance,
                contestations |-> PerId(r.bundle.contestations, Ids \cup {NoId})]
-----------------------------------------------------------------------------
Active(a) == {t \in Threads : pc[t] # "idle" /\ req[t].agent = a}

(* A thread takes up a request. *)
Begin(t, r) ==
    LET others == Active(r.agent)
    IN  /\ pc[t] = "idle"
        /\ begun < MaxRequests
        /\ begun' = begun + 1
        /\ req' = [req EXCEPT ![t] = r]
        /\ pc' = [pc EXCEPT ![t] = r.op]
        /\ met' = [u \in Threads |->
                     IF u = t THEN {req[v].op : v \in others}
                     ELSE IF u \in others THEN met[u] \cup {r.op} ELSE met[u]]
        /\ UNCHANGED <<shared, obj, stored, reply, history>>

(* The handler of t returns an answer. *)
Answer(t, answer) ==
    /\ pc' = [pc EXCEPT ![t] = "idle"]
    /\ req' = [req EXCEPT ![t] = NoRequest]
    /\ obj' = [obj EXCEPT ![t] = NoObject]
    /\ stored' = [stored EXCEPT ![t] = EmptyBundle]
    /\ met' = [met EXCEPT ![t] = {}]
    /\ reply' = answer
    /\ UNCHANGED begun

(* An id is reported on file, with no PUT having run beside the request. *)
NoteQuiet(t, ids) ==
    quiet' = IF "put" \in met[t] THEN quiet
             ELSE quiet \cup {<<req[t].agent, i>> : i \in ids}

(* A severance is reported on file, with nothing that writes one having run *)
(* beside the request.                                                      *)
NoteExit(t, filed) ==
    exited' = IF filed /\ met[t] \cap {"put", "sever"} = {}
              THEN exited \cup {req[t].agent} ELSE exited

GetFacts(t) ==
    /\ pc[t] = "get"
    /\ Answer(t, IF store[req[t].agent] = NoObject THEN NotFound ELSE Ok)
    /\ UNCHANGED <<shared, history>>

(* Mutant: the prior bundle is the one published last, whosever it is. *)
PutRead_LastPublished(t) ==
    LET r == req[t]
    IN  /\ pc[t] = "put" /\ r.agent_id = r.agent
        /\ obj' = [obj EXCEPT ![t] = Len(heap)]
        /\ stored' = [stored EXCEPT ![t] =
              [r.bundle EXCEPT !.contestations = IdBearing(@)]]
        /\ pc' = [pc EXCEPT ![t] = "put_merge"]
        /\ UNCHANGED <<shared, req, begun, met, reply, history>>

(* put_facts, 55-63: reject, or read the prior bundle and filter the body. *)
PutRead(t) ==
    LET r == req[t]
    IN  /\ pc[t] = "put"
        /\ \/ /\ r.agent_id # r.agent
              /\ Answer(t, Unprocessable)
              /\ UNCHANGED <<shared, history>>
           \/ /\ r.agent_id = r.agent
              /\ obj' = [obj EXCEPT ![t] = store[r.agent]]
              /\ stored' = [stored EXCEPT ![t] =
                    [r.bundle EXCEPT !.contestations = IdBearing(@)]]
              /\ pc' = [pc EXCEPT ![t] = "put_merge"]
              /\ UNCHANGED <<shared, req, begun, met, reply, history>>

(* Mutant: no merge. *)
PutMerge_Skipped(t) ==
    /\ pc[t] = "put_merge"
    /\ pc' = [pc EXCEPT ![t] = "put_severance"]
    /\ UNCHANGED <<shared, req, obj, stored, begun, met, reply, history>>

(* 64-69 *)
PutMerge(t) ==
    /\ pc[t] = "put_merge"
    /\ stored' = [stored EXCEPT ![t].contestations =
                     MergeLists(@, Deref(obj[t]).contestations)]
    /\ pc' = [pc EXCEPT ![t] = "put_severance"]
    /\ UNCHANGED <<shared, req, obj, begun, met, reply, history>>

(* Mutant: line 72 is gone. *)
PutSeverance_Skipped(t) ==
    /\ pc[t] = "put_severance"
    /\ pc' = [pc EXCEPT ![t] = "put_store"]
    /\ UNCHANGED <<shared, req, obj, stored, begun, met, reply, history>>

(* 72-73 *)
PutSeverance(t) ==
    /\ pc[t] = "put_severance"
    /\ stored' = [stored EXCEPT ![t].severance =
                     IF @ = NoSeverance THEN Deref(obj[t]).severance ELSE @]
    /\ pc' = [pc EXCEPT ![t] = "put_store"]
    /\ UNCHANGED <<shared, req, obj, begun, met, reply, history>>

(* 74-75 *)
PutStore(t) ==
    LET r == req[t]
    IN  /\ pc[t] = "put_store"
        /\ heap' = Append(heap, stored[t])
        /\ store' = [store EXCEPT ![r.agent] = Len(heap) + 1]
        /\ applied' = [applied EXCEPT ![r.agent] = @ \cup {BodyView(r)}]
        /\ NoteQuiet(t, IdsOf(r.bundle.contestations))
        /\ NoteExit(t, r.bundle.severance # NoSeverance)
        /\ Answer(t, Ok)
        /\ UNCHANGED <<posted, clash>>

(* Mutant: the 404 of line 91 is gone. *)
ContestGet_Unhosted(t) ==
    /\ pc[t] = "contest"
    /\ obj' = [obj EXCEPT ![t] = store[req[t].agent]]
    /\ pc' = [pc EXCEPT ![t] = "contest_scan"]
    /\ UNCHANGED <<shared, req, stored, begun, met, reply, history>>

(* add_contestation, 90-93 *)
ContestGet(t) ==
    LET ref == store[req[t].agent]
    IN  /\ pc[t] = "contest"
        /\ \/ ref = NoObject /\ Answer(t, NotFound)
           \/ /\ ref # NoObject
              /\ obj' = [obj EXCEPT ![t] = ref]
              /\ pc' = [pc EXCEPT ![t] = "contest_scan"]
              /\ UNCHANGED <<req, stored, begun, met, reply>>
        /\ UNCHANGED <<shared, history>>

(* 96-107 *)
ContestScan(t) ==
    LET e == req[t].entry
        onFile == e.id \in IdsOf(heap[obj[t]].contestations)
    IN  /\ pc[t] = "contest_scan"
        /\ \/ /\ e.id = NoId
              /\ Answer(t, Unprocessable)
              /\ UNCHANGED history
           \/ /\ e.id # NoId /\ onFile
              /\ Answer(t, Duplicate)
              /\ NoteQuiet(t, {e.id})
              /\ UNCHANGED <<applied, posted, clash, exited>>
           \/ /\ e.id # NoId /\ ~ onFile
              /\ pc' = [pc EXCEPT ![t] = "contest_append"]
              /\ UNCHANGED <<req, obj, stored, begun, met, reply, history>>
        /\ UNCHANGED shared

(* 108-109 *)
ContestAppend(t) ==
    LET e == req[t].entry
        a == req[t].agent
    IN  /\ pc[t] = "contest_append"
        /\ heap' = [heap EXCEPT ![obj[t]].contestations = Append(@, e)]
        /\ posted' = [posted EXCEPT ![a] = @ \cup {<<e.id, e.claim>>}]
        /\ NoteQuiet(t, {e.id})
        /\ clash' = IF "contest" \in met[t] THEN clash \cup {<<a, e.id>>} ELSE clash
        /\ Answer(t, Ok)
        /\ UNCHANGED <<store, applied, exited>>

(* set_severance, 123-125 *)
SeverGet(t) ==
    LET ref == store[req[t].agent]
    IN  /\ pc[t] = "sever"
        /\ \/ ref = NoObject /\ Answer(t, NotFound)
           \/ /\ ref # NoObject
              /\ obj' = [obj EXCEPT ![t] = ref]
              /\ pc' = [pc EXCEPT ![t] = "sever_check"]
              /\ UNCHANGED <<req, stored, begun, met, reply>>
        /\ UNCHANGED <<shared, history>>

(* Mutant: the bundle is not looked at for a severance on file. *)
SeverCheck_Unchecked(t) ==
    /\ pc[t] = "sever_check"
    /\ pc' = [pc EXCEPT ![t] = "sever_set"]
    /\ UNCHANGED <<shared, req, obj, stored, begun, met, reply, history>>

(* 126-128 *)
SeverCheck(t) ==
    /\ pc[t] = "sever_check"
    /\ \/ /\ heap[obj[t]].severance # NoSeverance
          /\ Answer(t, Duplicate)
          /\ NoteExit(t, TRUE)
       \/ /\ heap[obj[t]].severance = NoSeverance
          /\ pc' = [pc EXCEPT ![t] = "sever_set"]
          /\ UNCHANGED <<req, obj, stored, begun, met, reply, exited>>
    /\ UNCHANGED <<shared, applied, posted, quiet, clash>>

(* 129-130 *)
SeverSet(t) ==
    /\ pc[t] = "sever_set"
    /\ heap' = [heap EXCEPT ![obj[t]].severance = req[t].severance]
    /\ NoteExit(t, req[t].severance # NoSeverance)
    /\ Answer(t, Ok)
    /\ UNCHANGED <<store, applied, posted, quiet, clash>>

Init ==
    /\ heap = <<>>
    /\ store = [a \in Agents |-> NoObject]
    /\ pc = [t \in Threads |-> "idle"]
    /\ req = [t \in Threads |-> NoRequest]
    /\ obj = [t \in Threads |-> NoObject]
    /\ stored = [t \in Threads |-> EmptyBundle]
    /\ begun = 0
    /\ met = [t \in Threads |-> {}]
    /\ reply = Ok
    /\ applied = [a \in Agents |-> {}]
    /\ posted = [a \in Agents |-> {}]
    /\ quiet = {}
    /\ clash = {}
    /\ exited = {}

(* The process ends, with the requests in it, and starts with nothing. *)
Restart ==
    /\ heap' = <<>>
    /\ store' = [a \in Agents |-> NoObject]
    /\ pc' = [t \in Threads |-> "idle"]
    /\ req' = [t \in Threads |-> NoRequest]
    /\ obj' = [t \in Threads |-> NoObject]
    /\ stored' = [t \in Threads |-> EmptyBundle]
    /\ met' = [t \in Threads |-> {}]
    /\ reply' = Ok
    /\ applied' = [a \in Agents |-> {}]
    /\ posted' = [a \in Agents |-> {}]
    /\ quiet' = {}
    /\ clash' = {}
    /\ exited' = {}
    /\ UNCHANGED begun

Step(t) ==
    \/ GetFacts(t)
    \/ PutRead(t) \/ PutMerge(t) \/ PutSeverance(t) \/ PutStore(t)
    \/ ContestGet(t) \/ ContestScan(t) \/ ContestAppend(t)
    \/ SeverGet(t) \/ SeverCheck(t) \/ SeverSet(t)

Next == \/ \E t \in Threads : Step(t) \/ \E r \in Requests : Begin(t, r)
        \/ Restart

Spec == Init /\ [][Next]_vars
-----------------------------------------------------------------------------
Locations == {"idle", "get", "put", "put_merge", "put_severance", "put_store",
              "contest", "contest_scan", "contest_append",
              "sever", "sever_check", "sever_set"}

TypeOK ==
    /\ heap \in Seq(BundleObject)
    /\ store \in [Agents -> 0..Len(heap)]
    /\ pc \in [Threads -> Locations]
    /\ \A t \in Threads :
          /\ req[t] \in Requests \cup {NoRequest}
          /\ pc[t] = "idle" <=> req[t] = NoRequest
          /\ pc[t] \in {"contest_scan", "contest_append", "sever_check", "sever_set"}
                => obj[t] # NoObject
    /\ obj \in [Threads -> 0..Len(heap)]
    /\ begun \in 0..MaxRequests
    /\ met \in [Threads -> SUBSET {"get", "put", "contest", "sever"}]

(* The served state, as FactsHost speaks of it. *)
View == [a \in Agents |-> IF store[a] = NoObject THEN NoBundle
                          ELSE BundleView(heap[store[a]])]
Host == INSTANCE FactsHost
          WITH store <- View,
               Bodies <- {BodyView(r) : r \in {q \in Requests : q.op = "put"}}

(* One request at a time: the handlers are the atomic ones of FactsHost. *)
SerialImplementsHost == Host!Spec

(* Under threads, too, nothing is served that was not submitted for this    *)
(* agent since the start: handlers share lists, and lists of one agent are  *)
(* never another's (put_facts 57-68).                                       *)
ServedWasSubmitted == Host!ServedWasSubmitted

(* A complaint the host answered 200 to is lost only to a PUT of the same   *)
(* agent that was being handled beside it: with no such PUT it is on file   *)
(* whatever POSTs and PUTs come after or run among themselves.              *)
LossNeedsPutBeside ==
    \A p \in quiet : Host!OnFile(p[1], p[2])

(* A complaint is served twice only if two POSTs of it overlapped or one    *)
(* body carried it twice: no merge of put_facts doubles one.                *)
DoubledNeedsPostsBeside ==
    \A a \in Agents, i \in Ids :
        Host!OnFile(a, i) /\ Len(View[a].contestations[i]) > 1
            => \/ <<a, i>> \in clash
               \/ \E b \in applied[a] : Len(b.contestations[i]) > 1

(* A severance is written over by a POST only when another POST of one was  *)
(* being handled beside it: otherwise the first one filed in a bundle stays *)
(* ("first-write-wins", set_severance).                                     *)
SeveranceOverwrittenOnlyBeside ==
    [][\A t \in Threads :
          SeverSet(t) /\ heap[obj[t]].severance # NoSeverance
              => "sever" \in met[t]]_vars

(* An exit the host answered 200 to is lost only to what was being handled  *)
(* beside it: a PUT of the agent that read the bundle before the exit was   *)
(* filed (put_facts 57, 72-74), or another severance POST past its check.   *)
(* Where neither ran, the agent stays severed whatever is handled later:    *)
(* every PUT carries the severance on file over or brings one of its own.   *)
SeveranceLossNeedsWriterBeside ==
    \A a \in exited : Host!Severed(a)
-----------------------------------------------------------------------------
(* A statement of the source that the threads do not keep.                  *)

(* "Re-hosting must NOT erase contestations already on file" (facts/app.py *)
(* :51): an accepted contestation stays on file.                            *)
AcceptedContestationStays ==
    \A a \in Agents : \A p \in posted[a] : Host!OnFile(a, p[1])
=============================================================================
