----------------------------- MODULE FactsHost -----------------------------
(***************************************************************************)
(* The AgentFacts host (src/facts/app.py) with its handlers taken one at a *)
(* time.  The host keeps, per agent id, the last bundle it was given: the  *)
(* provider's credentials, the contestations filed against the agent and   *)
(* the severance of its identity.  It verifies nothing.                    *)
(*                                                                         *)
(* Clients read only the first contestation of an id, so a bundle keeps,   *)
(* for every id, the sequence of the contents stored under it in served    *)
(* order; the order of different ids is left out.  FactsHostThreads has    *)
(* the lists as the code keeps them, and implements this module when one   *)
(* request is handled at a time.                                           *)
(***************************************************************************)
EXTENDS Naturals, Sequences

CONSTANTS
    Agents,        \* agent ids
    Ids,           \* contestation ids a client may send
    NoId,          \* a missing or empty contestation id
    Claims,        \* contents of a contestation
    Creds,         \* credential pairs of a bundle
    Sevs,          \* severance objects, genuine or not
    NoSeverance,   \* no severance: null, absent, or the empty object
    NoBundle,      \* no entry in _store
    Bodies         \* the bodies of the PUT requests considered

Bundle == [creds : Creds,
           contestations : [Ids -> Seq(Claims)],
           severance : Sevs \cup {NoSeverance}]

(* FactsBundle as the provider sends it: its contestation list may repeat *)
(* an id, and may have entries without one.                               *)
Body == [agent_id : Agents,
         creds : Creds,
         contestations : [Ids \cup {NoId} -> Seq(Claims)],
         severance : Sevs \cup {NoSeverance}]

ASSUME BodiesAssumption == Bodies \subseteq Body
ASSUME NoIdAssumption == NoId \notin Ids
ASSUME NoSeveranceAssumption == NoSeverance \notin Sevs
ASSUME NoBundleAssumption == NoBundle \notin Bundle

VARIABLES
    store,    \* _store
    reply,    \* the last answer given
    applied,  \* history: the PUT bodies accepted for an agent since the start
    posted    \* history: the <<id, claim>> POSTed and accepted since the start

vars == <<store, reply, applied, posted>>
history == <<applied, posted>>

Reply == [status : {200, 404, 422}, duplicate : BOOLEAN]
Ok        == [status |-> 200, duplicate |-> FALSE]
Duplicate == [status |-> 200, duplicate |-> TRUE]
NotFound  == [status |-> 404, duplicate |-> FALSE]
Unprocessable == [status |-> 422, duplicate |-> FALSE]

Hosted(a) == store[a] # NoBundle
OnFile(a, i) == Hosted(a) /\ store[a].contestations[i] # <<>>
Severed(a) == Hosted(a) /\ store[a].severance # NoSeverance
-----------------------------------------------------------------------------
(* Mutant: of the entries on file under an id the last one is kept, as when *)
(* a dictionary keyed by the id collects them.                              *)
KeptUnder_Last(sent, existing) ==
    IF sent # <<>> THEN sent
    ELSE IF existing = <<>> THEN <<>> ELSE <<existing[Len(existing)]>>

(* The contestations kept under one id: those of the new body as they come *)
(* or, when it has none, the first one already on file.                    *)
KeptUnder(sent, existing) ==
    IF sent # <<>> THEN sent
    ELSE IF existing = <<>> THEN <<>> ELSE <<Head(existing)>>

(* Mutant: the body replaces the contestations on file. *)
Merged_Replaces(prior, body) ==
    [creds |-> body.creds,
     contestations |-> [i \in Ids |-> body.contestations[i]],
     severance |-> IF body.severance = NoSeverance /\ prior # NoBundle
                   THEN prior.severance ELSE body.severance]

(* Mutant: re-hosting takes the severance of the body, or none. *)
Merged_Unsevers(prior, body) ==
    LET existing(i) == IF prior = NoBundle THEN <<>> ELSE prior.contestations[i]
    IN  [creds |-> body.creds,
         contestations |->
            [i \in Ids |-> KeptUnder(body.contestations[i], existing(i))],
         severance |-> body.severance]

(* Mutant: entries without an id are kept (the filter of line 62 is gone). *)
Merged_KeepsIdless(prior, body) ==
    [Merged_Unsevers(prior, body) EXCEPT !.contestations =
        [i \in Ids \cup {NoId} |-> IF i = NoId THEN body.contestations[i] ELSE @[i]]]

(* The bundle that replaces prior when body is accepted. *)
Merged(prior, body) ==
    LET existing == IF prior = NoBundle THEN [i \in Ids |-> <<>>]
                    ELSE prior.contestations
        filed == IF prior = NoBundle THEN NoSeverance ELSE prior.severance
    IN  [creds |-> body.creds,
         contestations |->
            [i \in Ids |-> KeptUnder(body.contestations[i], existing[i])],
         severance |-> IF body.severance = NoSeverance THEN filed
                       ELSE body.severance]

(* Mutant: an agent hosted for the first time shares another one's list, as *)
(* with a mutable default value.                                            *)
PutFacts_SharesDefault(a, body) ==
    LET others == {x \in Agents : Hosted(x)}
        prior == IF Hosted(a) \/ others = {} THEN store[a]
                 ELSE store[CHOOSE x \in others : TRUE]
    IN  /\ body.agent_id = a
        /\ store' = [store EXCEPT ![a] = Merged(prior, body)]
        /\ reply' = Ok
        /\ applied' = [applied EXCEPT ![a] = @ \cup {body}]
        /\ UNCHANGED posted

(* put_facts when prior is what it found stored for the agent. *)
PutOver(a, prior, body) ==
    /\ body.agent_id = a
    /\ store' = [store EXCEPT ![a] = Merged(prior, body)]
    /\ reply' = Ok
    /\ applied' = [applied EXCEPT ![a] = @ \cup {body}]
    /\ UNCHANGED posted

PutFacts(a, body) == PutOver(a, store[a], body)

PutRejected(a, body) ==
    /\ body.agent_id # a
    /\ reply' = Unprocessable
    /\ UNCHANGED <<store, history>>

GetFacts(a) ==
    /\ reply' = IF Hosted(a) THEN Ok ELSE NotFound
    /\ UNCHANGED <<store, history>>

(* Mutant: the duplicate check of line 101 is gone. *)
AddContestation_Unchecked(a, i, claim) ==
    /\ Hosted(a)
    /\ i # NoId
    /\ store' = [store EXCEPT ![a].contestations[i] = Append(@, claim)]
    /\ reply' = Ok
    /\ posted' = [posted EXCEPT ![a] = @ \cup {<<i, claim>>}]
    /\ Len(store[a].contestations[i]) < 2
    /\ UNCHANGED applied

(* add_contestation when it appends. *)
AddContestation(a, i, claim) ==
    /\ Hosted(a)
    /\ i # NoId
    /\ ~ OnFile(a, i)
    /\ store' = [store EXCEPT ![a].contestations[i] = Append(@, claim)]
    /\ reply' = Ok
    /\ posted' = [posted EXCEPT ![a] = @ \cup {<<i, claim>>}]
    /\ UNCHANGED applied

(* add_contestation when it answers without changing anything: no bundle, *)
(* no id, or the id is on file already.                                   *)
ContestationNotAdded(a, i) ==
    /\ \/ ~ Hosted(a) /\ reply' = NotFound
       \/ Hosted(a) /\ i = NoId /\ reply' = Unprocessable
       \/ Hosted(a) /\ i # NoId /\ OnFile(a, i) /\ reply' = Duplicate
    /\ UNCHANGED <<store, history>>

(* set_severance when it writes; the empty object is written, too. *)
SetSeverance(a, sev) ==
    /\ Hosted(a)
    /\ ~ Severed(a)
    /\ store' = [store EXCEPT ![a].severance = sev]
    /\ reply' = Ok
    /\ UNCHANGED history

SeveranceNotSet(a) ==
    /\ \/ ~ Hosted(a) /\ reply' = NotFound
       \/ Severed(a) /\ reply' = Duplicate
    /\ UNCHANGED <<store, history>>

(* The process ends and starts again: _store is nowhere but in memory. *)
Restart ==
    /\ store' = [a \in Agents |-> NoBundle]
    /\ reply' = Ok
    /\ applied' = [a \in Agents |-> {}]
    /\ posted' = [a \in Agents |-> {}]

Init ==
    /\ store = [a \in Agents |-> NoBundle]
    /\ reply = Ok
    /\ applied = [a \in Agents |-> {}]
    /\ posted = [a \in Agents |-> {}]

Put == \E a \in Agents, b \in Bodies : PutFacts(a, b) \/ PutRejected(a, b)

Next ==
    \/ Put
    \/ \E a \in Agents : GetFacts(a) \/ SeveranceNotSet(a)
    \/ \E a \in Agents, i \in Ids, c \in Claims : AddContestation(a, i, c)
    \/ \E a \in Agents, i \in Ids \cup {NoId} : ContestationNotAdded(a, i)
    \/ \E a \in Agents, s \in Sevs \cup {NoSeverance} : SetSeverance(a, s)
    \/ Restart

Spec == Init /\ [][Next]_vars
-----------------------------------------------------------------------------
TypeOK ==
    /\ store \in [Agents -> Bundle \cup {NoBundle}]
    /\ reply \in Reply
    /\ applied \in [Agents -> SUBSET Bodies]
    /\ posted \in [Agents -> SUBSET (Ids \X Claims)]

(* The ids on file and the severances on file are what the ledger speaks of. *)
LedgerHosted == {a \in Agents : Hosted(a)}
LedgerFiled == [a \in Agents |-> {i \in Ids : OnFile(a, i)}]
LedgerSevered == {a \in Agents : Severed(a)}

Ledger == INSTANCE CorrectionLedger
            WITH hosted <- LedgerHosted, filed <- LedgerFiled,
                 severed <- LedgerSevered

(* Ids and severances only: no request, in any order, leaves an agent       *)
(* without some entry under an id that was on file, or without some         *)
(* severance once it had one (put_facts 57-74).  The entry itself is not    *)
(* kept, see ExistingContestationsPreserved below.                          *)
LedgerSpec == Ledger!Spec

(* An id is served more than once only when the provider itself sent it     *)
(* more than once in one body: retried and competing POSTs, and re-hosting  *)
(* on top of them, never amplify a complaint (put_facts 60-68,              *)
(* add_contestation 99-107).                                                *)
AmplifiedOnlyByProvider ==
    \A a \in Agents, i \in Ids :
        OnFile(a, i) /\ Len(store[a].contestations[i]) > 1
            => \E b \in applied[a] : Len(b.contestations[i]) > 1

(* What is served was submitted for this very agent since the process      *)
(* started: nothing moves between agents and nothing survives a restart.   *)
ServedWasSubmitted ==
    \A a \in Agents, i \in Ids :
        OnFile(a, i) =>
            \A n \in DOMAIN store[a].contestations[i] :
                LET c == store[a].contestations[i][n]
                IN  \/ <<i, c>> \in posted[a]
                    \/ \E b \in applied[a] :
                         \E k \in DOMAIN b.contestations[i] :
                             b.contestations[i][k] = c

(* What the host answered 200 to stays on file until the process ends: every *)
(* id of an accepted body or POST, and a severance once a body carried one.  *)
AcceptedStaysOnFile ==
    \A a \in Agents :
        /\ \A b \in applied[a] :
              /\ Hosted(a)
              /\ \A i \in Ids : b.contestations[i] # <<>> => OnFile(a, i)
              /\ b.severance # NoSeverance => Severed(a)
        /\ \A p \in posted[a] : OnFile(a, p[1])

(* A PUT delivered again, however late and whatever was filed since, adds *)
(* nothing to the ids on file and nothing to the severances on file: the  *)
(* ledger is the one that stood before the duplicate arrived.             *)
LateDuplicatePutKeepsLedger ==
    [][\A a \in Agents, b \in Bodies :
          PutFacts(a, b) /\ b \in applied[a]
              => LedgerFiled' = LedgerFiled /\ LedgerSevered' = LedgerSevered]_vars

(* What clients are shown under an id, which is its first entry, and the    *)
(* severance they are shown are displaced in one way only, by a PUT of this *)
(* agent whose body itself has another under that id, or another severance; *)
(* no POST, no PUT that is silent about it, and no PUT for another id does. *)
DisplacedOnlyByBody ==
    [][\A a \in Agents :
          Hosted(a) /\ Hosted(a)' =>
              /\ \A i \in Ids :
                    LET old == store[a].contestations[i]
                        new == store'[a].contestations[i]
                    IN  old # <<>> /\ (new = <<>> \/ Head(new) # Head(old)) =>
                          \E b \in Bodies : /\ PutFacts(a, b)
                                            /\ b.contestations[i] # <<>>
                                            /\ new = b.contestations[i]
              /\ Severed(a) /\ store'[a].severance # store[a].severance =>
                    \E b \in Bodies : /\ PutFacts(a, b)
                                      /\ b.severance # NoSeverance
                                      /\ b.severance = store'[a].severance]_vars
-----------------------------------------------------------------------------
(* Statements of the source that the code does not keep.                    *)

(* "existing contestations are preserved (and merged with any in the new   *)
(* bundle)" (facts/app.py:53): what was on file under an id before a PUT is *)
(* among what is served under it after.                                     *)
ExistingContestationsPreserved ==
    [][\A a \in Agents, i \in Ids :
          OnFile(a, i) /\ Put =>
              \E n \in DOMAIN store'[a].contestations[i] :
                  store'[a].contestations[i][n] = Head(store[a].contestations[i])]_vars

(* "A severance, once filed, is permanent" (facts/app.py:70) and the test  *)
(* severance_is_permanent_first_write_wins: the object filed first stays    *)
(* served.                                                                  *)
FirstSeverancePermanent ==
    [][\A a \in Agents :
          Severed(a) /\ Put => store'[a].severance = store[a].severance]_vars
=============================================================================
