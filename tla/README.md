# A verification of the NANDA correction surface

The repository resolves an agent name to something a client can verify and act
on, and gives the parties an agent affects a way to answer back: they file
*contestations* next to the issuers' claims, and an agent can retire its own
identity with a *severance*. No server is trusted: what is right is decided by
the client, from signatures. This directory holds TLA+ models of the servers and
of the client, TLC configurations that check them on small instances, and proofs
of the theorems that matter most for all instances. All paths below are under
`src/`.

## 1. Inventory

| Part | State | Operations | Talks to |
|---|---|---|---|
| **Lean index** `index/app.py` | `_by_name`, `_by_id`, `_revocations` (memory), resolver key (file) | `register`, `resolve`, `list_agents`, `revoke`, `revocations` | answers scripts and clients; loads its key from the key store |
| **Facts host** `facts/app.py`, run twice (provider's and neutral host) | `_store`: one bundle per agent, with contestations and severance (memory) | `put_facts`, `get_facts`, `add_contestation`, `set_severance`, a constant registry answer | providers, affected parties, agents, clients |
| **Client** `client/resolver.py` | the trust policy, `_revoked_live` between resolutions; the hop variables within one | `resolve`: revocations, index, registry, host, exit gate, two credentials, threshold, contestations, act | index, registry, host, endpoint |
| **Signed objects** `nanda_core/vc.py`, `contest.py`, `severance.py`, `crypto.py`, `models.py` | none | issue/mint/sign and verify | called by all |
| **Trust policy** `nanda_core/trust.py` | resolver, trusted and required issuers, static revocations | `is_revoked`, load, save | client |
| **Key store** `nanda_core/keystore.py` | a key file | `load_or_create_private_key` | every process that imports the index |
| Issuer `issuer/issue.py` | none | issues the two credentials | scripts |
| Explorer trace `explorer/trace.py` | none | `walk`: a replay of the hops for display | nothing: makes its own world |
| Scenario scripts `demo/*.py` | the trust policy and a state file in `shared/` | sequences of requests, walks and verdicts | index, both hosts, client |
| Agent runtime, A2A card, console, schemas, static pages, CI | none | echo, projection, formatting, configuration | |

**What is hard.**

- *Threads.* The handlers of index and hosts are plain `def` functions: FastAPI
  runs each in a thread of a pool, and the dictionaries they share have no lock.
  A handler that reads and then writes can be overtaken (`facts/app.py` 57-74,
  101-108, 126-129; `index/app.py` 112-113, 130-139).
- *Retries and late duplicates.* PUTs and POSTs are repeated when an answer is
  lost; what was filed in between must survive.
- *Restarts.* Stores are in memory; the resolver key, the policy and the scripts'
  state are on disk, and each file is truncated in one step and written in another.
- *Sequences of requests.* A script talks to three servers and two files; it may end
  between any two requests, or run beside another that uses the same names.
- *Untrusted answers.* Each of the four fetches of a walk may fail, be garbled,
  or return an object that is genuine but about somebody else. The order of the
  checks decides what a later check may assume. Time passes and a revocation
  list goes stale while the walk runs.
- *Boundaries.* Validity windows, missing ids, empty objects, repeated ids.

**What correctness means, per part.** Host: what it acknowledged stays on file,
is not amplified, is not moved to another agent. Client: it never succeeds on
objects that are not, taken together, right; it refuses only for a cause; it
shows both sides; it does not claim a privacy it has not got. Index:
listings are whole, the two tables agree, every acknowledged revocation stays on
the list and can be checked. Key store: the identity clients pinned is the one
that later processes use. System: what a server acknowledged is honoured by every
later walk it answers; what can be found is served; an agent that exits has its
successor in place; a script fails only for a cause.

`PROJECT.json` lists the hazards line by line with the properties that cover them.

## 2. Modules

| Module | What it is |
|---|---|
| `CorrectionLedger` | abstract promise of a host: ids on file and retired identities only grow, except that a restart loses everything |
| `FactsHost` | the host, one handler at a time; implements `CorrectionLedger` |
| `FactsHost_proofs` | proofs about it |
| `FactsHostThreads` | the host as it runs, handlers split into steps of several threads; implements `FactsHost` with one thread |
| `FactsHostThreads_proofs` | proofs about it |
| `TrustObjects` | signed objects and the verification functions, as operators |
| `Resolver` | the client against servers that answer anything |
| `Resolver_proofs` | proofs about it |
| `IndexService` | what the index is to its users: an address per name, a revocation per credential id |
| `LeanIndex` | the index, handlers split into steps of several threads; implements `IndexService` |
| `LeanIndex_proofs` | proofs about it |
| `ExplorerTrace` | the explorer page, beside a client of `Resolver` that gets the same objects |
| `ExplorerTrace_proofs` | proofs about it |
| `KeyStore`, `KeyStore_proofs` | processes that load or create the resolver key, and proofs |
| `SharedDir`, `SharedDir_proofs` | `KeyStore` with the policy and the state file that scripts write and read beside it, and proofs |
| `Scripts` | the scenario scripts as sequences of steps, and the objects they sign |
| `Nanda` | the system: `Scripts` run at terminals, `IndexService`, two `FactsHost`s, clients of `Resolver` |
| `Nanda_proofs` | proofs about it |
| `MC*` | the small instances TLC checks |

Operators named `X_Y` next to an operator `X`, introduced as *Mutant*, are plausible
bugs in the code behind `X`. They appear in no specification; putting one in the
place of `X` makes the property named in `PROJECT.json` fail.

### FactsHost

`store[a]` is `_store[a]`: the credentials, the severance, and for every id the
contents filed under it in order. A client looks at the first entry of an id
only, so the order *between* ids is left out; this makes the state small without
losing a property. `{}` and `null` severances are one value, `NoSeverance`, since
the code tests for truth; `SetSeverance` may write it, as the code does. `reply`
is the last answer; `applied` and `posted` are histories of what was answered 200.
Each handler is one action per outcome: `PutFacts`/`PutRejected`, `GetFacts`,
`AddContestation`/`ContestationNotAdded`, `SetSeverance`/`SeveranceNotSet`, and
`Restart`. `PutOver` is `put_facts` with the prior bundle as a parameter: `PutFacts` gives it the
one that is stored, `Nanda` one that was stored earlier.

`put_facts` merges by id: an entry in the new body displaces a filed one of the same id,
whatever its contents, against the docstring (lines 51-54). The run
`facts_host_contents` shows it. What is kept is that *something* is on file under the id, which is
all `CorrectionLedger` promises, and `DisplacedOnlyByBody` says that a body which has the id (or a
severance) itself is the only thing that displaces what clients are shown.

### FactsHostThreads

`heap` holds bundle objects, `store` references into it, as in Python: a PUT
publishes a *new* object, a POST changes the object it *got*. `put_facts` is four
steps (read the prior bundle; merge the lists; take over the severance; publish),
`add_contestation` three, `set_severance` three. Loops over a list that others
only append to are taken as read at their end, because a Python list iterator
stops at the list's length of that moment. The history `met` knows which
operations overlapped; `quiet`, `clash` and `exited` (agents whose severance was answered 200 to
with no other writer of it beside the request) are drawn from it. All of it speaks of ids and of
whether there is a severance: what an entry under an id contains, a later PUT may displace
without any overlap.

### TrustObjects and Resolver

Signatures are ideal: `by` is the identity whose key verifies an object as it
stands, `None` if none does. A did:key stands for its key; malformed ones are
outside `WellFormed`. The four verification functions keep every condition of the
code, among them the date that is missing, unparsable, without an offset, or not
a string, which the code treats in four different ways (`DatesRaise`).

`Resolver` has one action per hop, with an answer chosen from the given objects,
`Unreachable` (HTTP error or timeout) or `Garbled` (not a JSON object). `pc` ends in
`resolved`, `refused` (a `VerificationFailure`) or `raised` (another exception).
`Act(odd)` is the call of the endpoint; an answer that is JSON but no object (`odd`) raises after
the call was made (line 419 is outside the `try`), so `FailClosed` asks of every call, and not
only of every success, that it rests on verified objects (`RestsOnVerified`).
`live` survives from walk to walk; a failed refresh leaves it alone. `Tick` lets
the clock move between any two checks. Answers are bound to nothing but their
signatures, so an address for another entry, a severance of another agent, or a
receipt of another interaction can come at any hop.

### LeanIndex

`byName` is the dictionary in insertion order, as the iterator of `list_agents` sees
it. `register` is three steps (sign, write by name, write by id), `list_agents`
takes the count, then an iterator that remembers the size, then one entry at a
time, raising (`500`) when the size has changed. `revoke` and `revocations` touch
the table once. Keys and signatures of addresses are left to `KeyStore`.

`IndexService` has one table of addresses and one of revocations, each changed in one
step; `Service` in `LeanIndex` maps the table that `resolve` reads (`ServedEntries`) and
the list to them. The write of `_by_id` between a registration's first write and its
answer is then a stutter, for no other handler that a client or a script calls reads
it. `Nanda` uses the abstract index for this reason.

### ExplorerTrace

`walk` repeats the client's hops with code of its own, over a world it makes for
each call and spoils as its scenario asks. `AddrIn(s)` and `BundleIn(s)` are the address and
the bundle of scenario `s`, `addrShown` and `bundleShown` those of the page's own, `steps` the page's list with a title and a status per
step, and there is one action per hop. A client of `Resolver` steps in between,
answered with the same objects; the clock may pass the end of the credentials. On other
objects than those of the scenarios the two would differ (the page asks for no
revocations, wants an auditor, keeps no threshold and does not de-duplicate
complaints), but `walk` never has such objects.

### KeyStore

A process looks for the file; it reads it, or creates it empty and then writes the
key; it may end at any point and be launched again. Power failures, which would
matter because nothing is flushed to disk explicitly, are left out.

### SharedDir

`policy` and `state` are the two files; `Empty` is one that is open for writing or was
left so. `BeginRegister` is the part of `register.py` before its files: issuers of its own
and the resolver's identity, asked of an index that serves. Then the policy is
opened and written, then the state (`TrustPolicy.save`, `write_json`); `StopRegister`
ends it anywhere. A script reads both files in either order, as the scripts differ
in it, and fails on one that is missing or does not parse. The histories `alone`,
`broken` and `unsettled` say whether saving runs overlapped or were cut short, and
whether a reader read in between.

### Scripts and Nanda

A script is a sequence of records, one for each request, file access, walk and verdict
of its `main`, in the order of the code; helpers of the code that several scripts call
are operators (`HostBundle`, `Publish`, `Rogue`). Identities a script generates are
parameters, names are fixed, as in the code. `run_all.py` is the concatenation.

`Nanda` gives each record its action: `BeginPut` and `HostFacts`, `FileComplaint`, `FileSeverance` are
steps of a host (`P` or `N`, instances of `FactsHost`), `RegisterAddr` and `RevokeCredential` of the index,
`LoadFiles` and `SaveFiles` of the files, `TamperAddr`, `ReadFacts`, `GiveVerdict` of the script
itself. A walk is a walk of `Resolver`, whose answers are what the servers hold at that
moment; `EndWalk` is what the script makes of the result. The client of one terminal is
in `Resolver`'s variables, the others are parked; `Switch` changes over. Switching, and the
steps of others, happen only when the client is about to ask a server, or between
walks (`Quiet`): the stages in between read only the client's own variables, and
nothing another does can be seen by them, so every interleaving has an equal one
among these.

A PUT is two steps. `BeginPut` is `put_facts` up to line 58: `prior[t]` is the bundle it found stored.
`HostFacts` stores the merge of the body and of *that* bundle, so an exit or a complaint that
another terminal filed in between is lost, as between lines 57 and 74 of the code. Bodies are
what `FactsBundle` of `models.py` admits: any severance, any contestations (`Filings`). A server that restarts
ends the PUTs it had begun (`InFlight`).

Faults are spent from a budget of the plan: a request that does not arrive
(`RequestLost`), one that is handled and whose answer is lost (`Answered`, `RegisterAddr`,
`RevokeCredential`), a fetch of a walk that fails (`FetchFails`), a server that ends and starts
again empty (`Restart`). The scripts retry nothing, so the first three end a script or
a walk.

`acked` has what each server acknowledged and what has not been undone since, `seen` that part of it
a walk can be held to because it began afterwards, and `disturbed` the terminals that a
fault, another script's use of a name or credential id, or a PUT that undoes what they file
may have affected. Exactly these undo a mark: for an exit or a complaint, a restart of its host, a PUT
whose body has another severance, or another first entry under the id, and a silent PUT that had
read the bundle before the exit or complaint was there (`Undoes`); for a revocation, a restart of the index
and another issuer's entry under the id. A POST answered "duplicate" while another object stands
there acknowledges nothing (`Filed`).

Behaviours that surprised us, and where the properties end because of them (the first two are
findings, section 3): a bundle that is hosted again displaces a filed complaint by an entry of the same
id, and a filed exit by a severance of its own, which need not verify; a PUT in flight loses the
exit or complaint that is acknowledged before it stores; of two exits at once the successors
share one name, so the first one's successor is hosted, but no name leads to it; an endpoint that
answers a JSON list turns a resolution that had succeeded into an exception; an exit filed with one host only leaves the other path open; another issuer's
entry on the revocation list displaces the issuer's own; a restarted index
serves an empty list and clients then admit again what was revoked; two exit scripts
run at once report a severed identity that still resolves, because the name is the
other's by then; and `exit.py` and `revoke.py` take a walk that failed because a server
did not answer for the refusal they want to see.

## 3. Runs

| Run | Instance | Shows |
|---|---|---|
| `facts_host` | 2 agents, 2 ids, 2 contents, 5 bodies | handlers one at a time keep the ids and severances of the ledger (`LedgerSpec`), the ids that were acknowledged (`AcceptedStaysOnFile`), origin (`ServedWasSubmitted`); only a provider's own body repeats an id (`AmplifiedOnlyByProvider`) or displaces what is shown (`DisplacedOnlyByBody`); late duplicates change nothing in the ledger (`LateDuplicatePutKeepsLedger`) |
| `facts_host_threads` | 3 threads, 4 requests of 9 | what overlapping handlers can do to the ledger: lose an acknowledged id only to a PUT beside its POST (`LossNeedsPutBeside`), double it only with another POST beside it (`DoubledNeedsPostsBeside`), lose an acknowledged severance only to a PUT or severance POST beside it (`SeveranceLossNeedsWriterBeside`), write a severance over by a POST only beside another (`SeveranceOverwrittenOnlyBeside`); and nothing is served that was not submitted (`ServedWasSubmitted`) |
| `resolver` | 8 addresses, 3 registry answers, 43 bundles or so, 6 revocation lists, 2 walks, clock 0..2 | `FailClosed`, `RefusedForCause`, `SurfacedHaveStanding`, `NeutralOnlyWhenOffered` |
| `explorer` | all scenarios, 1 client walk, credentials valid until 1 of 0..2 | `PageAgreesWithClient`, `PageAsAnnounced` |
| `index` | 2 threads, 5 requests of 13, 2 names, ids given and generated | `ListingIsWhole`, `TablesAgree`, `RevocationsAccountable`, and `ImplementsService` |
| `shared_dir` | 2 index processes, 2 keys; 2 terminals that register, 3 runs; 1 reader | `IdentityIsStable`, `FailsOnlyForCause`, `LoadedPairMatches`, `LoadFailsOnlyForCause`, `PolicySurvivesRestarts` |
| `nanda` | 3 terminals, 8 plans, see below; 293390 states | `ExitHolds`, `RevocationHolds`, `ComplaintSurfaces`, `RegisteredIsHosted`, `SuccessorReady`, `PrivateWalkUnseen`, `ScriptsFailOnlyForCause` |
| `facts_host_contents` | as `facts_host` | *violated:* re-hosting preserves the contestations on file |
| `facts_host_severance` | as `facts_host` | *violated:* a filed severance is permanent |
| `threads_loss` | as `facts_host_threads` | *violated:* re-hosting never erases an acknowledged complaint |
| `resolver_dropped` | as `resolver` | *violated:* no complaint with standing is dropped |
| `resolver_raises` | as `resolver` | *violated:* what fails verification is a `VerificationFailure` |

The last five state what a docstring or comment says and the code does not do;
the findings in `PROJECT.json` quote it. The positive properties say how far the
code does keep each promise.

**Plans of `nanda`.** (1) `run_all` alone, with two faults anywhere. (2) An exit, a stranger's
walk of the exited name on the primary path, and the provider hosting the exited
identity's bundle again on the primary host, one fault. (3) The same on the private path and the neutral host,
with a bundle that carries a severance somebody else signed, no fault. (4) Two exits at once. (5) A revocation, a stranger
who asks for the list and walks twice, and another issuer revoking the same id, one
fault. (6) A complaint, a stranger's two walks, and the contested bundle hosted again
on the primary host, one fault. (7) The same on both hosts with a bundle that has an entry without standing under the complaint's id, the walk on
either path, no fault. (8) The two other kinds of registration and a stranger who walks, with and
without the list, one fault. Plans 2, 3, 5 and 8 start from the files of an earlier run of `register.py`,
whose services have been restarted since, which spares the walks of that script; in 2 and 3, 6 and 7 the PUT
of the third terminal may read before and store after any step of the first. One fault is enough for each way a script can be
cut short; the second in plan 1 is for a restart after a loss. The assumptions `Nanda` names
about scripts (what is hosted before it is registered, who issues under which id, that
a verdict follows, what a script has prepared before a walk) are evaluated by TLC on
every script of every plan. Deadlock is checked: a
state in which a script or a walk can go neither on nor end would be reported, and
`Finished` is enabled only when every script has ended or waits for the files.

**Bounds.** `MaxRequests`, `MaxWalks`, `MaxTime`, `MaxKeys`, `MaxRuns` and the faults of a plan are the
only bounds inside actions. `MaxWalks` is never reached in `nanda`, where the scripts
bound the walks. Three runs of `register.py` allow one that is stopped or crossed after
a finished one, and one that repairs it. A race in these handlers needs two requests for one agent and one before
them to host it, a third thread to read: three threads and four requests suffice,
and two agents show that nothing moves between them. Two walks are needed because
revocations are the only thing kept from one to the next. A clock of 0..2 puts a
moment before, at and after each boundary. The objects given to the client are
the good one and, for each condition in the code, one that differs in that
condition alone, so a check that is missing lets exactly one of them through.
Threads and processes are interchangeable, which is why they are declared
symmetric; no temporal property is checked in those runs but step properties.
In `resolver` and `explorer` deadlock is not checked: after the last walk (`MaxWalks`) at the
last moment (`MaxTime`) nothing is left to do.

**Fairness.** None is assumed and no liveness property is stated. The timeout of the client
(`client/resolver.py` 62, 68) is httpx's: it bounds each connect and each read, not the
exchange, so a server that sends a byte now and then keeps a walk for as long as it likes. The
handlers of the servers wait for nothing. That nothing gets stuck for want of a next
step is what the deadlock check of `nanda`, `index`, `shared_dir` and the host runs shows.

## 4. Proofs

*FactsHost_proofs.* `TypeCorrect`; `ImplementsLedger` (`Spec => LedgerSpec`): the map
takes the ids with at least one entry, and the agents with a severance, to the
ledger's variables. The key lemma, `MergedKeeps`, says that `Merged` never loses an id
or a severance whatever body arrives; one lemma per writing handler then gives the
step of the ledger it takes. `AcceptedOnFile`: `AcceptedStaysOnFile` is inductive
once types are known, because its two histories grow in the same step as the
store. `LateDuplicateHarmless` follows from that invariant: everything a repeated
body could add is already there.

`Unamplified` and `ServedSubmitted` come from one invariant, `Origin`: under every id, each
entry on file was posted or came in a body, and more than one entry means one body with
more than one (`MergedEntries` says what a merge can leave under an id). `Displacements` is an action property: a POST
appends behind what is there (`AppendKeepsHead`), a merge without entries of its own keeps the first on file, and
a severance is only set where there is none; so of all handlers only `PutFacts` displaces what
is shown, by what its body has. None of these theorems says that the *contents* on file stay; that
is false.

*Resolver_proofs.* `TypeCorrect`; `WalkInvariance`; `FailsClosed`. `FailClosed` speaks of
the last stage only and is not inductive: a step into it relies on checks made up
to six steps before, of objects that must not have changed since, at other
moments. `WalkInvariant` says what is known at each stage, and that the dictionary
of revocations is the one built from the list last had. It needs
`RevocationIsLive` (an issuer's entry on a list without repeated ids is in the
dictionary), `VerifiedIsBacked` (what `_verify_credential` accepts is backed at this
moment) and `BackedOutlastsTicks` (what was backed during the walk remains so when
the clock moves). The converse, `RefusalsHaveCause`, needs the same the other way round: the
dictionary has nothing its issuer did not put on the list (`LiveIsRevoked`), so what is
rejected is unsound at this moment (`RejectedIsUnsound`), and this moment lies in the walk
for good. `NeutralWhenOffered` rests on `SourceInvariant` (the source of facts is chosen once,
from an address that does not change afterwards), `StandingSurfaced` on `WalkInvariant`.

*LeanIndex_proofs.* Everything the run `index` checks. `TypeInvariant` adds to the types that names
are distinct and that handlers have requests of their kind; `StoredShape` says what
`_by_name[...] = a` does to the table. `Implements`: of all steps only the write by name,
an accepted revocation and a restart change what the service shows (`OtherSteps`,
`ServedStored`). `TablesAgree` is not inductive: the write of `_by_id` could displace the address
of another registration. `WritesPaired` excludes it: between its two writes a registration
with an id nobody shares is the only one with that id, and no other name has it.
`ListingIsWhole` follows from `WalksFollow`: a walk has the names of the first entries of the table,
which never move, and its count and size are out of date only if a name was added.

*FactsHostThreads_proofs.* For any number of threads and requests: `TypeCorrect`,
`ServedSubmitted`, `QuietStaysOnFile`, `DoubledOnlyForCause`, `QuietExitStands`, `FirstSeveranceUnlessBeside`, and, for one
thread, `SerialRefines`, which no run checks. They rest on what the loops of `put_facts` compute. These are
comprehensions here and not recursions, so what they do for lists of every length can
be said without induction: the k-th of a set of positions is the one with k positions up
to it (`NthRank`, `NthOnto`, `NthIncreases`), so a comprehension has the entries at its
positions and no others, and `MergeListsKeeps` says of the merge that it loses no id of
either list, brings in no other entry, and doubles nothing the body had not doubled.

`Typing` strengthens `TypeOK` by the values of a handler at each of its places (lists being built
have ids throughout, so `add_contestation` finds no missing one). `Inv` then has seven parts. `Owned`:
a bundle object is one agent's, so a write in place shows for nobody else. `Noted`: requests
of one agent that are handled now have met. `Unwritten`: what a POST has found still stands
when it writes, unless one of its kind met it. `Current`: a POST that met no PUT writes to
the object that is served. `QuietKept`: what was quiet is in the served list, and in what a
PUT of that agent has read or built so far, so publishing it loses nothing; this is what makes
`LossNeedsPutBeside` inductive. `ExitKept` says the same of the severance of an agent in `exited`, for
`SeveranceLossNeedsWriterBeside`, and that no severance POST has found the agent without one. `GoodLists`: every list that is served, held or being built is made
of what was submitted for its agent, and doubled only for a cause.

`SerialRefines` needs the merge exactly. `MergeUnder`: under each id it leaves the body's
entries in their order, or else the first one on file, which is `KeptUnder` of `FactsHost`; the
order comes from `EnumeratedByNth` (an increasing enumeration of a set is that of `Nth`). `Serial`
says what the one handler has computed so far; every step but the writing ones is
then a stutter or an answer, and `PutStore` publishes `Merged` (`PublishesMerge`).

*ExplorerTrace_proofs.* `AsAnnounced`, `AgreesWithClient`, for any identities and any life of the
credentials. Neither is inductive: they speak of the end alone. `PageOK` says, for each
hop the page may be at in time, what it has told so far and which scenarios can have come so
far; `Along` the same of the client, with the objects it has accepted. Both start from `World`
and `Credentials` (what of a world verifies, and what a scenario spoils). The two are independent,
each a function of the scenario while in time, so they meet in the end without a word about
their interleaving. `ShownAssumption` and `WorldAssumption` say that the identities of a
world differ and that its clients trust its issuers.

*KeyStore_proofs.* `TypeCorrect`, then `Creation`: without a race there is one creator
at a time, and an empty file has its creator at work or lost. `StableIdentity` and
`FailuresHaveCause` follow.

*SharedDir_proofs.* A behaviour of `SharedDir` is one of `KeyStore` (`KeepsKeyStore`), so the theorems about
that hold. `PairInvariant`: a run that has been alone since it opened the policy has written
what it drafted and nobody else saves; finished files are a pair; a reader that saw no
saving has read what is still there. `PairsMatch` and `LoadFailuresHaveCause` follow.
`PinsServedKeys`: every policy, drafted, written or read, pins a key some index has served
with; with `StableIdentity` this is `PoliciesSurvive`.

*Nanda_proofs.* `SystemInvariance`, and from it the properties of the run `nanda`, for
any terminals, identities and faults, and any scripts that keep to the assumptions of
`Nanda`. The invariants of `Resolver` hold of every terminal's client, because what the system does in a
walk the client may do whatever the servers are (`WalksAreSteps`), and a client that is exchanged is
one that could have got there itself (`ClientParkable`, `BecomeOK`). None of the properties is inductive: they
relate a walk's end to what a server acknowledged before its beginning. `Inv` has what lies between:

- `Places`: each script is at an instruction of its text, and a walk belongs to one that is at a walk.
- `HostsOK`: what a host acknowledged, and nothing has undone, is what clients are shown there; a
  severance on file is one that some script has come to file or to publish. The lemmas on hosts
  use what `FactsHost` does and no more.
- `PutsOK`: a PUT in progress belongs to a script that is at it, and what it found is such a bundle, too. What it
  will undo is worked out at its store (`Undone`), so marks stay true whatever it had read.
- `IndexOK`: every entry is one some script registered, every revocation that was acknowledged is on
  the list.
- `Progress`: what a script has been through is done, unless a restart undid it. With
  `OrderAssumption` it gives `RegisteredIsHosted` and `SuccessorReady`, wherever scripts have stopped.
- `SeenAcked`, `AllLed`: what a walk can be held to is acknowledged still (a revocation may be
  displaced, but then the walk's list has it already); a walk goes to the facts of the address it
  was given, on the host it was led to.
- `FactsOK`: facts that were fetched have what the walk can be held to, from when they are fetched.

`ExitsHold` then follows from `FactsOK` and `FailsClosed` of the client (the exit gate would have refused),
`RevocationsHold` from the list the client got, `ComplaintsSurface` from `StandingSurfaced`.

`FailuresHaveCause`, for `ScriptsFailOnlyForCause`, goes the other way: not that what must be refused is
refused, but that nothing else is, whichever scripts run beside. What a script's text prepares is a
matter of the text, and `PreparationAssumption` says it there: before a walk is to have a result, its name
was registered, by this text or by one whose files it loads; a walk that is to succeed meets
credentials that are fit (a provider's, verified, from the required issuers, for this identity), which
no other script revokes or severs; one that is to be refused comes after this script's severance on every host
asked, or after its provider's revocation with a client that asks for revocations; one that is to surface
a complaint, after it was filed on every host asked; one that is to be rejected meets
credentials that are not fit. `LeadsTo`, `CredsOf` and `HostAsked` say which addresses, bodies and hosts a walk
may come to, given everything any script of the plan registers or hosts. No outcome of a walk occurs in it;
that these texts make the walks end as they do is what is proved. `CauseInv` adds to `Inv`:

- `Still`: clocks stand still, so dates that hold, hold, and no client raises; facts that were refused
  were not acceptable (`RefusedLate`, which every step of `Resolver` keeps).
- `SavedOK`: what a script loads was saved by one that had come to save, so what the files promise is done.
- `KnownOK`: every revocation on the list or in a client, and every address a client has, comes from an
  instruction some script has come to. Nothing is refused for a revocation nobody wrote.
- `CalmOK`: of a script nothing has disturbed, that its names lead to what it registered, what it filed
  and revoked is on record, and how its walk fares (`Fares`): on the path it chose, to the address and
  host its text leads to, with a list that has its revocations, and not refused before it has facts
  where it is to succeed.

`FaresWalk` is the step of the walk and `EndsAsExpected` its end, where what refusals and successes of
the client mean (`RefusedLate`, `FailsClosed`, `ListedIsRefused`, `ExitHolds`, `ComplaintSurfaces`) meets the text. `StillCalm` says that an undisturbed
script was never disturbed before, so nothing has to be said of the others but that they may not
touch its names and ids, which is what `disturbed` records. This proof found that two arms
of the `CASE` in `EndWalk` overlapped, where TLC had silently taken the first; they exclude each other now.

The proofs rest on the named assumptions in the modules: the "missing" values
are not objects, servers that do not answer are told from every answer, bodies, answers and
policies have the types given (a required issuer is trusted, as `TrustPolicy.__post_init__` enforces),
what scripts sign has dates within `Times` (`SigningAssumption`), exits are of well-formed identities, and the
successors' name is registered for successors of the plan's exits alone, after they are hosted (`OrderAssumption`).
No assumption restricts the severance or the contestations of a body. `ContestationIds` is finite
(`ComplaintAssumption`), so that a bundle can be served as a list; the other sets of
agents, names, ids, objects, requests, threads, processes, terminals and answers are arbitrary.

Model-checked only: that nothing deadlocks. Every property of a passing run is proved; the five
violations are traces TLC finds.

## 5. What is not modelled

- Base58, base64url, canonical JSON and Ed25519: signatures are ideal.
- JSON values of a wrong shape other than dates (a proof that is a list, an entry
  that is a string): the client would raise, and stop.
- Printing, schemas, the console, static pages, the A2A projection, the agent's
  echo: no state.
- In `Nanda`: the clock stands still and every answer is JSON, which `Resolver` covers; the
  index is the service that `LeanIndex` implements. Of a host's handlers a PUT is two moments, the
  read of the prior bundle and the store of the merge, and a POST or GET is one. A POST whose bundle
  object was replaced while it ran has the effect of a POST just before that store, and a POST that reaches
  a list while a PUT still reads it that of a POST before the read: both are among the interleavings.
  What is left to `FactsHostThreads`, which has every step: two POSTs at once (a complaint doubled), and
  a PUT that lost the complaint but not the exit, because it reads the list before the severance. A script that finds no files waits for them, and `SharedDir` has what it
  would find. The verdicts that report a forgery accepted are never reached, because
  the client refuses it.
- `_check_freshness` of the client: it only prints.

## 6. Plan

Everything of the code that keeps state or decides something is modelled, and every
safety property, action property and refinement the runs check is proved. What could be added:

1. That a client of `Nanda` which is let alone is a behaviour of `Resolver` as a whole, so that
   a later property of `Resolver` holds in the system without a proof of its own.
2. A clock in `Nanda`, for credentials that expire while scripts run: `Still` is the one part of
   `CauseInv` that would have to become a statement about dates.
