# Verification of agent-response-gateway

This directory holds TLA+ models of the gateway's stateful parts, TLC
configurations that check them on small instances, and TLAPS proofs of the
central properties of the store, the request path, the streams, the journal and
its adapters, the team front end and usage for every value of their constants.
`PROJECT.json` lists the runs, the source lines behind each definition, the
mutants that show each property can fail, the findings and the hazards.

Run a check from this directory, for example

    tlc -workers 2 -config MCContinuationStore.cfg MCContinuationStore
    tlapm ManagedProxyProofs.tla

## 1. The system

agent-response-gateway is a Rust gateway between an agent (Codex) and model
providers. It forwards or converts requests, and for *managed* routes keeps a
durable, encrypted record of each turn so that a conversation can be continued,
compacted or recovered. Around the gateway are a manager that owns a gateway
process on behalf of an administrator, a team front end that admits the requests
of several principals, and extension processes (usage recorder, observers,
provider plugins, codecs).

| Component | State | Operations | Interacts with | What is hard |
|---|---|---|---|---|
| Continuation store (`src/src/continuation/sqlite.rs`) | tables `sessions`, `attempts`, `records`, `transitions`, `protection` | `open`, `create`, `begin`, `finalize`, `uncertain`, `repair`, `transition` | request path and control API call it on blocking threads | crash between two transactions, compare-and-set, keys |
| Managed request path (`src/src/proxy_managed.rs`) | one future per connection: session copy, verified history, attempt guard | session lookup, `history`, `reserve_attempt`, provider call, `finalize_checked`, publish | store, provider, recorder, plugin | cancellation at each await, stale session copy, detached transactions |
| Control API (`src/src/continuation/control.rs`) | none | `create`, `transition` | store | decisions racing requests |
| Event validator, stream adapters (`src/src/ir/event.rs`, `src/src/adapters`) | state of one stream: items, parts, calls, what is held back | one provider event | relay loops of `proxy.rs` and `proxy_managed.rs` | interleaved items, early ends, calls released too soon |
| Codecs and provider plugins (`src/src/codecs`, `src/src/provider_plugins`) | worker process; progress shown so far | progress, completion | relay loops | progress and result disagree |
| Usage contract (`src/crates/usage-contract`) | counters accumulated over snapshots | extract, normalize, observe, validate | usage sink, recorder | inconsistent, falling, huge or missing counters |
| Usage sink (`src/src/usage`, `src/src/extensions/usage_runtime.rs`) | one attempt per call, a bounded queue, a worker thread | start, update, finish, drop, acknowledge | proxy, recorder process | full queue, dropped call, late answer, dead worker |
| Usage recorder (`src/extensions/usage-recorder`) | ledger, tombstones, outbox, destinations | record, export, prune, retry, change destinations | sink, export destinations | lost receipts, order, restart between delivery and its record |
| Management journal (`src/crates/management`) | tables `operations`, `events`; owner lease | `execute`, `reconcile`, `open`/`recover` | calls an adapter between two commits | crash around an effect, duplicates, event bound |
| Management API and dispatcher (`src/crates/management-api`, `src/crates/management-app`) | jobs, one writer, output slot, observation | `submit`, `deliver`, `reconcile`, `close_admission` | journal, adapters | queued jobs at shutdown, answers before results, secrets |
| Owned runtime (`src/crates/management-runtime`) | `state.json`, candidate files, receipts, child process, lease | `stage`, `select`, `start`, `stop`, `restart`, `reconcile` | adapter of the journal, parent of the gateway child | no transaction spans files, process and journal; host edits |
| Package adapters and profile packs (`src/crates/management-extensions`, `src/src/profile_packs`, `src/scripts/extension_manager.py`) | package files, `active.json`, lock or marker, receipts | `install`, `enable`, `select`, `disable`, `reconcile` | adapter of the journal, command line on the same store | helpers that outlive their caller, torn files, lost updates |
| Team access (`src/crates/team-access`) | subjects, credentials, effect receipts; cache of confirmed issuances | `register`, `permissions_change`, `issue`, `revoke`, `rotate`, `reconcile`; `principal`, `refresh_model` | adapter of the journal, asked by team HTTP | two stores that never commit together, revocation racing use |
| Team HTTP (`src/crates/team-http`) | admission ledger, session bindings, live requests, slots | `responses`, `create_session` | team access, peer gateway | lost answers, dropped streams |
| Routing, configuration, IR conversion, editing, command lines | none after startup | pure functions | all | wide case tables |

The web interface, documentation site, schemas, licensing, examples and tests
hold no protocol state and are not modelled.

What makes each component correct:

* store: the two tables that describe an attempt agree; an unknown outcome
  blocks its epoch; the records of an epoch are one chain; a settled outcome is
  final; revisions always advance; envelopes can be opened by every process
  that serves;
* request path: nothing is published before it is durable; nothing continues a
  response the client never got; a payload is inferred at most once per epoch; a
  provider call is made only for the current pending attempt;
* streams: whatever the provider sends and wherever it stops, the client sees a
  well-formed response that only grows and ends once; tool calls appear only
  with the end of a response that succeeded, and obey the request;
* usage: accumulated counters can always be recorded and agree with each other;
  in durable mode no call goes upstream and no result is released unrecorded;
  an attempt that holds a slot comes to a recorded end; the ledger settles and
  goes on owing what a destination has not stored;
* journal: a recorded outcome is true and final, an idempotency key applies once;
* management API: an acknowledged identifier is durably its caller's, a secret
  reaches only the answer to its own operation, closing admission is final for
  what is queued;
* adapters: they report to the journal only what is true; at most one child
  serves, and what was selected; an activation names whole packages and
  replaces the one it was made from;
* team access: a credential authenticates only once its issuance is recorded as
  succeeded, and a refresh notices every change;
* team HTTP: every call was admitted for its subject and carries only a session
  created for it, a change of authority lets at most one more request in, a
  cancelled caller leaves no active request behind.

## 2. Modules

| Module | Models | Variables → code |
|---|---|---|
| `ContinuationStore` | every transaction of `sqlite.rs` and process crashes | `session`, `attempt`, `record`, `transitions`, `bound` are the tables; `up` is the key of the process that owns the store |
| `ManagedProxy` (extends the store) | `proxy_managed.rs` and `Runtime::access` | `req` is what each future holds, `jobs` the submitted transactions whose caller is gone, `sends` and `published` record provider calls and what reached the client |
| `ResponseStream` | abstract: what a client may see of one response | `view` only |
| `EventValidator` | `ir/event.rs` | operators on the validator's state |
| `StreamAdapter` | what the adapters share: emitted events, tool rules | `proto`, `request`, `st` (the adapter), `val` (its validator), `out` (events not yet sent), `relay` (the loop), `view` (the client) |
| `ChatStreams`, `MessagesStreams`, `ResponsesStream`, `InteractionsStream` | the decoders of the four provider protocols, stateless and managed | actions on `st` |
| `PluginStreams` | progress and completion of provider plugins, and the output gate of external codecs | actions on `st` |
| `StreamRelay` | the loops of `proxy.rs` and `proxy_managed.rs` around any adapter | composes the five modules above; `Client` is the refinement to `ResponseStream` |
| `UsageContract` | counters: extraction, normalization, accumulation, validation | `profile`, `reported`, `usage`, `incomplete` of one accumulator, `session` with the plugin |
| `UsageRecorder` | the recorder's ledger, export and maintenance | `events`, `tombstones`, `identities`, `outbox`, `bound` are tables, `serving`, `batch` the process, `remote` the destinations, `owed` a history |
| `UsageAccounting` (extends the recorder) | attempts, queue and worker in the gateway | `phase`, `revision`, `permit`, `ack`, `goal` of each call; `queue`, `current`, `worker` of the sink; `sent`, `excused` histories |
| `ManagementJournal` | `journal.rs` over an abstract adapter | `operation`, `events` are the tables, `mode` the life of the process, `exec` the place of `execute`, `done` the effects that really happened |
| `ManagementApi` (extends the journal) | the mutating handlers of `server.rs` | `job` the blocking tasks, `closing`, `observation`, `secret` (the dispatcher's output); `acked`, `handed`, `late` histories |
| `ManagedRuntime` (extends the journal) | `management-runtime` and its child | `disk`/`mem` are `state.json` and its copy, `cfile`, `source`, `receipt` the files, `child`, `lease`, `owned`, `ready` the processes, `epoch`, `work` the place of `apply` |
| `ManagedPackages` (extends the journal) | both package drivers and the command line on their store | `stored`, `litter`, `active`, `lock` are the store, `writer` the place of each process, `proof` the receipts |
| `ManagementDispatch` | the dispatcher over the runtime and the packages | `target` the adapter commands are sent to |
| `TeamAccess` (extends the journal) | `team-access`: manager and authenticator | `member`, `credential`, `receipt` are the tables, `secret` the output slot, `delivered` the secrets the host got, `confirmed` the cache; `held` and `stale` say which version a caller holds and whether the rows changed since |
| `TeamHttp` | `team-http`: `responses`, `create_session` and the ledger | `conn` is what each future, its job and its guard hold, `row`, `intent`, `binding` are the ledger's tables, `live` the active requests, `auth`, `peer`, `posts`, `created`, `calls` the authority and the peer; `late` a history |
| `MC…` | instances for TLC | symmetry sets and constraints only |
| `ManagedProxyProofs` | theorems about the store and the request path | |
| `ManagementJournalProofs`, `ManagementApiProofs`, `ManagementDispatchProofs`, `TeamAccessProofs` | theorems about the journal and what runs under it | |
| `TeamHttpProofs` | theorems about team HTTP | |
| `UsageProofs` | theorems about the recorder, the accounting of calls and the counters | |
| `StreamProofs` | theorems about the client's stream | |

Conventions. A transaction that is refused changes nothing and is not a step. An
identifier that was never inserted is an `absent` row. Digests and ciphertexts
are the value they identify: a record stands for its own digest, `sealed` is the
key a payload was sealed under. Every commit, file write and process event that
another actor can observe is a step of its own; code between two of them is one
step. Definitions named `…Unchecked`, `…Stale`, `…None` and the like, commented
"Mutant of", are deliberate faults used to test the properties; no
specification uses them. The `…TypeOK` definitions state the types of a module's
variables and are proved where there is a proof module.

`ContinuationStore`. `StoreNext` is the store under callers that know its current
rows. `begin` takes the revision and head its caller believes in, so that
`ManagedProxy` can call it with stale ones. The bound `MaxEpoch` cuts host
decisions that open later epochs. `Open` commits recovery and then compares the
key, as `mod.rs` does: with a wrong key recovery is still visible.

`ManagedProxy`. A request moves through `verify` (history restored one token at
a time), `admitted`, `reserving`, `sent`, `finalizing`, `recording`. `Abandon`
is possible at each of them and stands for early returns, timeouts, invalid
replies and a disconnected client alike. What the guard does depends on the
stage: before the reservation there is no guard, after `mark_finalized` it does
nothing. A detached transaction is a member of `jobs` and runs, or is refused, at
any later time, or dies with the process. `MaxJobs` bounds their number.
The property `StoreSpec` states that every step of all this is a step of the
store as its callers assume it.

Streams. A provider may send any event at any time; an adapter handles one event
whole, runs what it emits through its validator, and the relay sends the events
one by one (`Deliver`). An error, in the adapter or in the validator, ends the
stream with a failure event; `Cut` drops it at any point. A managed stream is
decoded to its end, saved as a checkpoint and then finished; a stateless one ends
with its adapter. `Client!StreamSpec` is `ResponseStream` instantiated with the
client's view; `ClientStream` states that all adapters implement it. Text is a
sequence of tokens, tool arguments are prefixes of one JSON document (valid only
when whole), the parts of one provider chunk are steps of their own (which only
adds places for a cut), the status of an item and the `done` events of text parts
are left out, and the initial content of a Gemini step is accepted but not
streamed. A codec's held events are kept in order and without empty deltas.

Usage. `UsageContract` keeps the arithmetic: `MaxU64` is the largest count and
`CheckedAdd` fails beyond it. Objects with one path each reach what larger ones
do, because the counters of several paths are merged one by one. A plugin reports
whole snapshots: each is checked on its own (`ObserveSnapshot`), then against the
one before (`ObserveCumulative`: a counter that fell or vanished is invalid, and
with it a total derived from it), and the result is what is recorded; `session`
says whether the exchange goes on, which a broken rule forbids (`ensure_valid`).
Of a reply that cannot be decoded the usage is still read and recorded, without
the comparison (`PluginAttempt`, `capture_attempt`). In
`UsageRecorder` and `UsageAccounting` an event is its attempt, revision and kind:
what it counts is `UsageContract`'s subject. There is one producer; a destination
stands for its identifier and configuration together; the clock is left out, so a
pending row may be exported again at any time; an unsupported contract is a
permanent refusal. The worker thread is never restarted, and final events sent
after its death vanish, as in the code; `excused` names the attempts this is true
of.

`ManagementJournal`. The adapter is any that tells the truth about what it did
(`Truthful`); the crash inside `apply` chooses whether the effect happened.
`ManagedRuntime`, `ManagedPackages` and `TeamAccess` replace it by their real
steps and are checked to implement `JournalSpec`. There `done` is computed from
the step at which the target really changes (a file renamed, a child ready or
gone, a transaction committed), not from what is reported.

`ManagementApi`. A request becomes a job that waits for the writer; whether it is
refused is decided again once it holds it. `submit` answers when the intent is
durable, `deliver` when there is a result. A caller that leaves changes nothing.
Left out are reads, preflight, browser sessions and the Host and Origin checks.

`ManagedRuntime`. The host may edit the source, state.json and candidate files at
any time, with the restriction that `EditState` selects a staged candidate and
`Tamper` writes complete content. The child takes the lease, inspects its
candidate, serves and ends on its own schedule or not at all.

`ManagedPackages`. One procedure (lock, check what is expected, write or draft,
rename, return) for the manager, for the command line and for a native helper
whose manager has given up or died (`orphan`). The pack driver's lock is a marker
file that survives its process; the native driver's is a file lock. The host
removes markers and temporary files of dead writers but may leave a torn package.
Whether an orphaned helper will still change the store is fixed when it is
orphaned (`fate`), so that `done` can say at the report what will have happened.
Grants, recorder bindings, snapshots retained on disk and the manager's epoch are
left out.

`ManagementDispatch`. Adapters share nothing but the journal, whose executor runs
one operation at a time, so a behaviour sends its commands to one of them.

`TeamAccess`. The rows and the receipt of a command are one transaction, in which
`validate` was evaluated when the operation was accepted and which stays open
until `apply`; the journal's rows are others. A commit may report an error
although it happened. The permissions of a subject are one bit, whether they
allow anything; the version of an authorization is the triple the code takes the
digest of. `Lookup` and `Confirm` are the two reads of `principal`. A store may
start with subjects that were registered under an earlier journal.

`TeamHttp`. A connection holds one model request (plain, or managed with a public
session name) or one session creation. `LockRefresh`, `Admit` and `Return` are the
blocking job under the ledger's mutex; the mutex is held from the first to the
last, and the authority, in another process or thread, can change in between.
`gone` marks a job whose future was dropped: the job runs on with the request's
permit, and its guard ends with the unclaimed result. The authority is reduced to
a version and a flag per subject, which `TeamAccess` justifies
(`RefreshSeesChange`). Each subject has one credential and one managed route; the
peer handles a creation at any time or never. The read-only handlers change
nothing and are left out.

## 3. Runs

| Run | Configuration | Instance | Shows |
|---|---|---|---|
| `store` | `MCContinuationStore.cfg` | 2 sessions, 2 attempts, 2 keys, reservations and envelope sizes 1–2 under a limit of 3, 2 epochs | table agreement, keys, revisions, finality |
| `proxy` | `MCManagedProxy.cfg` | 2 connections, 1 session, 2 attempts, 2 payloads, built-in and plugin route, 2 epochs; one connection at a time once the second epoch is open | durability before publication, no fork, at-most-once inference, current calls, refinement of the store |
| `proxy_orphan` | `MCManagedProxyOrphan.cfg` | 1 connection, 2 epochs | violation, see Findings |
| `streams` | `MCStreamRelay.cfg` | nine adapters, 2 calls, 2 items, 2 parts, texts of up to 2 tokens, arguments of up to 4 characters, requests with parallel calls and free choice, with no tool allowed or with one required call | refinement of `ResponseStream`, held tools, tool rules |
| `usage_counters` | `MCUsageContract.cfg` | 4 profiles; sequences of plugin snapshots of any length; counts 0 and 2, largest count 3 | recordable usage, counters that agree |
| `usage_alias` | `MCUsageDeepSeek.cfg` | the DeepSeek profile, counts 1 and 2 | violation, see Findings |
| `usage_recorder` | `MCUsageRecorder.cfg` | 6 events of one attempt id (some contradict others, one is of another identity), 2 destinations, batches of 2 | settled ledger, nothing owed is lost, destinations never conflict |
| `usage_calls` | `MCUsageAccounting.cfg` | 2 calls, 2 slots, one usage update, three modes, plain and streamed responses | durable order, reserved ends, attempts end unless a reader stalls |
| `api` | `MCManagementApi.cfg` | 2 operations, 2 keys, 2 jobs, a command with and one without a secret, 5 events | true and final outcomes, idempotency, closing, acknowledgement, secrets |
| `adapters` | `MCManagementDispatch.cfg` | runtime: 2 operations, 1 candidate, 2 contents, 2 children, 4 events; packages: 1 package in 2 builds, 1 operation beside command lines up to the second generation, one orphaned helper | both implement the journal; lease, registered configuration, no stuck executor; whole packages, no lost update |
| `team_access` | `MCTeamAccess.cfg` | 3 operations, 1 subject, 2 credentials, 4 events | audited credentials, refresh, refinement of the journal |
| `team` | `MCTeamHttp.cfg` | 2 connections, 2 subjects, 1 key, 2 names, 2 internal sessions, 2 origins; 1 row with sessions, or 2 rows and a changed authority without | owners of active requests, late admissions, one session per key, no foreign session in a call |

Why the bounds are enough to matter. Two attempts give a chain, a fork, an
unknown attempt with its successor in the next epoch, and two reservations that
do not both fit. Two keys give a wrong key; two connections give every race on a
compare-and-set, whose loser can only fail. Two detached transactions give both
orders of a guard's `uncertain` and a detached `finalize`. Two items with two
parts give every interleaving of an open item with the next and every wrong
index; two calls break a rule on parallel calls; four characters of arguments are
the shortest document that can be cut inside. Counts 0 and 2 under a largest
count of 3 give zero, exact and short partitions, a falling counter and an
overflow. A plugin's snapshots have every field with a value or without one, or
one field invalid or inapplicable beside larger values; a snapshot is compared
only with the one before, so all pairs are reached, and the theorems cover every
snapshot. The recorder's rules relate events of one attempt only, so one attempt
id is enough there. Two calls on a queue of two slots fill it; one update lets an attempt
have something between its start and its end. Two destinations give one that is
behind the other and one that is removed; batches of two overlap. Two jobs give a
queued job at shutdown and a job behind one whose result could not be written.
`MaxEvents` of 4 and 5 (64 in the code) let an uncertain operation run out of
events. Two children give the child of a dead manager beside the next manager's.
Two builds of a package and a second generation make a stale activation, an
orphaned helper beside a command line and a torn file of the right name possible.
Two subjects with the same key and two names make every wrong owner and every
second creation possible; two rows show two late admissions. Three operations
issue and rotate a credential, or issue one and withdraw and grant its permission.

Two runs have a state constraint (`Focus`): `proxy` lets connections race within
the first epoch and keeps one at work beside the second; `team` checks sessions
with one ledger row and an unchanged authority, or two rows and a changed
authority without sessions. The combinations left out share no state that the
properties relate: a new epoch starts an empty chain, and plain calls read no
session.

Deadlock is not checked: all instances are finite, so they legitimately stop when
identifiers, epochs or events are used up, and a gateway without requests is idle.

Symmetry is used for identifiers the specifications treat alike; the run with a
liveness property uses none.

Fairness. Only `usage_calls` assumes any, for `AttemptsEnd`: weak fairness of each
call's steps outside a streamed body (`HandlerStep`) and of the worker thread's.
The code justifies it: up to the response a handler is a future the runtime polls
until it ends or is dropped (which ends its attempt), every wait of it has a
deadline, a JSON body is read inside the handler up to a size limit with a timeout
for each chunk, and the worker is a thread whose reads and writes have deadlines
too. A streamed body is different: it is polled on the client's demand only, the
idle timeout is per upstream chunk and nothing bounds the whole, so a consumer
that stops reading without leaving holds its slot (`docs/troubleshooting.md`).
No fairness of it (`BodyStep`) is assumed. `AttemptsEnd` therefore says that an
attempt comes to its recorded end or to a streamed body, that an end once sent is
recorded, and, with fair reading as a hypothesis of that part alone, that a stream
comes to its end. Nothing else is assumed of clients, providers, the recorder or
crashes; attempts that a dead worker or process leaves behind are excused.
`ExecutorNeverStuck` needs no fairness: it says that
the synchronous `execute` can always take its next step.

## 4. Proofs

Eight modules hold the theorems; each EXTENDS the modules it is about. They hold
for arbitrary sets of sessions, attempts, operations, connections, events and so
on and for any bound. TLC checked every inductive invariant below on the instance
of its run before it was proved.

Assumptions on the constants, all evaluated by TLC: `None`, which stands for
NULL or an absent value, is none of the identifiers, rows, items or marker
strings it shares a place with (a clause of each module's assumption); sizes, limits and
revisions are natural numbers; the epoch bound is positive; an operation may have
at least three events (64 in the code); protected requests and valid contents are
among all of them; a torn file is not a content; what a provider counts is at
most the largest count, and a plugin's snapshot has one typed counter per field; the limits of a response (items, parts, argument bytes)
are positive. Nothing is assumed finite.

| Module | Theorems | Inductive invariant |
|---|---|---|
| `ManagedProxyProofs` (store) | `StoreTypeCorrect`, `StoreInvariant`, `SessionsAlwaysMatchAttempts`, `HistoryNeverForks`, `RevisionsAlwaysAdvance`, `OutcomesAreFinal`, `EnvelopesStayReadable` | `StoreInv`; the last one by its own |
| `ManagedProxyProofs` (requests) | `ProxyImplementsStore`, `ProxyHistoryNeverForks`, `PublishedStaysDurable`, `ParentsAlwaysPublished`, `InferenceAtMostOnce`, `DispatchAlwaysCurrent`, `ProxyTypeCorrect` | `ProxyInv` |
| `ManagementJournalProofs` | `JournalTellsTheTruth`, `JournalAppliesOnce`, `JournalSettlesForGood` | `JournalInv` |
| `ManagementApiProofs` | `ApiImplementsJournal`, `ApiTellsTheTruth`, `ApiAppliesOnce`, `ApiSettlesForGood`, `AdmissionIsClosed`, `AcknowledgementsAreTrue`, `SecretsAreOwn` | `ApiInv` |
| `ManagementDispatchProofs` | `DispatchImplementsJournal`, `DispatchTellsTheTruth`, `ServesOnlyRegistered`, `OneChildServes`, `ActivationIsAlwaysWhole`, `NoActivationIsLost` | `DispatchInv` |
| `TeamAccessProofs` | `AccessImplementsJournal`, `AccessTellsTheTruth`, `AccessIsAudited`, `AccessChangesAreSeen` | `AccessInv` |
| `TeamHttpProofs` | `ActiveRequestsAreOwned`, `LateAdmissionIsAlone`, `CallsAlwaysAdmitted`, `SessionsCreatedOnce`, `TeamTypeCorrect` | `TeamInv` |
| `UsageProofs` | `LedgerAlwaysSettled`, `NothingOwedIsLost`, `ExportsNeverConflict`; `CommitAlwaysPrecedes`, `EndsAreNeverCrowdedOut`, `QueueAlwaysFits`; `AlwaysAccumulated`, `CountersAddUp`, `UsageCanBeRecorded` | `RecorderInv`; `AccountingInv` and `QueueFits`; `Accumulated` |
| `StreamProofs` | `ToolsHeldUntilDecided`; `ToolsObeyTheRequest` | `HeldInv`; `PlanInv` |

Each proof has one lemma per action, or per group of actions that change the same
rows, and the theorems at the end of the module. The arguments:

The store. `StoreInv` is the conjunction of the types, `RowsAgree`,
`SessionsMatchAttempts` and `HistoryIsAChain`. No part is inductive alone. That
the head is finalized survives `uncertain` and recovery because exactly the
in-flight attempts are pending (`OneInFlight`). That an unknown attempt blocks its
epoch needs that a second attempt cannot be pending beside it. The chain survives
`finalize` because the record continues the head, and nothing continued the head
before; a new epoch starts an empty chain because every row's epoch is at most
its session's (`RowsAgree`).

The request path. A future, alive or detached with its transaction, holds a copy
of a session row. Every change of a row advances its revision, so a copy with the
current revision is the current row (`Copies`): `begin` reserves for the history
that was verified, and until the attempt is settled its session cannot move
(`AttemptsAreOwn`). An attempt is held by one live request or by what it left
behind, never by both (`OneHolder`), so it is still pending when the provider is
called and is called once. From this every transaction the path submits is one
`StoreSpec` allows, although `finalize` itself does not compare the head on
built-in routes; the chain property then follows from the store's theorem.

The journal. What the journal says of an operation can be compared with what
happened only together with the executor's place: `Whereabouts` says that between
`begin` and the return of `apply` the operation is running without effect, and
after it the executor holds a true report. With `RowsAndEvents` and
`KeysAreUnique` this is inductive. The three users of the journal are proved to
implement `JournalSpec`, so that its theorems hold of them:

* the API, because the mutex leaves one job at the writer (`OneWriter`) and that
  job executes exactly while the journal's executor does (`Turns`); the output
  slot is full only between `apply` and the answer of that job (`OutputIsFresh`),
  which is why a secret cannot reach another answer;
* the dispatcher, because the runtime's and the packages' receipts and reports are
  true. `RuntimeInv` and `PackagesInv` speak of files, locks and processes only: a
  handle is a child launched with the bytes recorded for its candidate, and a
  process inside the store's critical section holds the lock, so what it read
  there is still so. `RuntimeTurns` and `PackageTurns` tie the adapter's place to
  the executor's; a receipt on disk means that the effect has happened or is
  happening now (`ReceiptsAreTrue`);
* the team authority, because the only evidence `reconcile` accepts, a receipt, is
  written by the transaction that has the effect (`Evidenced`). `Validate` still
  holds at `apply` because the write transaction is kept open, so a credential row
  is written once, by the operation it names, and revisions only grow, which
  `RefreshSeesChange` rests on.

Team HTTP. The ledger, the intents and the peer's sessions only grow, and versions
never go back (`Grows`), so what a connection learned under the mutex stays true.
Admission identifiers are fresh, hence each has one guard (`OwnIds`). A refreshed
version is newer than that of every late admission and only the job that holds
the mutex can add one (`RefreshedIsNewer`).

The recorder. Ledger and tombstones together never contradict themselves
(`Consistent`: one event at a place, one identity and one end per attempt, nothing
behind the end). A destination has stored a part of them, so the same rules there
find no contradiction, and a receipt is written only for what is stored
(`BatchRight`). That a whole batch is answered rightly is an induction over its
places, done by the least place at which it would fail, since the library's
induction rules cannot be instantiated here.

The accounting. `CallOK` says of each call what its handler's place implies, and
`MessageOK` that a final event on its way is the last of its attempt, so the
recorder cannot refuse it. Slots are counted with the cardinality theorems:
every step keeps queued plus reserved within the capacity.

The counters. `normalize` is a chain of rules, each of which sets one counter or
invalidates some and names its reason. `Sound` says that every counter is valid
and every reason known; each rule keeps it. What a rule establishes of the
counters that are left (`AddsUp`: cache reads and writes within the input, a part within its
whole, a total that is the sum) a later rule cannot lose, since it only takes
values away (`Weakens`). Comparing a plugin's snapshot with the one before only
takes values away too, but that is not enough for the stricter validation of its
events: a derived total must stand beside both its parts (`DerivedFits`), which the
last rule of `observe_cumulative` keeps, and the parts of the input must still fit
it (`PartitionFits`). `Typed` gathers what every observation of a plugin satisfies;
`WeakeningTyped` is the lemma for the comparison. `Accumulated` says that the usage
of an attempt is what its own paths normalise to, or a `Typed` observation, and
that a session that goes on has seen no violation. Both results hold for any
largest count, so they include the overflow that `CheckedAdd` catches.
`UsageCanBeRecorded` excludes DeepSeek's profile, of which it is false (Findings).

The streams. `HeldInv` says that until an adapter has decided, the client has not
even seen the head of a tool, nor is one on its way (`NothingOfTools`), and that a
decision is not taken back. Each adapter has a lemma: before its terminal event
it yields only quiet events, that is, neither the head of a tool nor a finished
one. For a codec this is not so before its gate: heads are yielded and held. They
belong to items of the response (`HeadsAreHeld`), so a response that ends without
tools, as every response but a completed one must, has none to let go; and a
completed one is decided, because the validator has accepted its terminal event
(`ApplyTerminal`). Sequences that are flattened, sorted or fed to the validator
are reasoned about by the least place at which a claim would fail.

`ToolsAsRequested` speaks of what the client has, and what it will have is on its
way. `PlanInv` therefore says that there are items the request allows (`Grantable`:
few enough, resolved, each call once, whole arguments) such that the view and
the events not yet sent finish tools of these items only, finish none twice in
different ways, and finish one before the end of a completed response that must
have a tool (`Plan`). Delivering an event keeps a plan (`PlanDelivered`). A plan is
made by the event that decides; until then the client knows of no tool, which is
`HeldInv`. What the adapter has kept until then, `AdapterReady`, makes the items
allowed: the decoders replay the whole response through the validator, which
accepts a call once (`DecodesDistinct`), and count the tools
(`CountGrants`); a codec's gate sorts what it held without moving the end
(`OutputOrderPlan`). Stateless Messages decides tool by tool, so there the plan
grows with each block (`PlanGrows`), and that calls differ and are few rests on what
the validator has seen (`CallsKnown`). When a stream is cut the client keeps what
it has. The existence of a plan is what the proof states; TLC checked it with
the items each adapter holds.

Only model-checked, and why:

* liveness (`AttemptsEnd`) and `ExecutorNeverStuck`: fairness and `ENABLED` are
  out of the prover's reach;
* `ClientStream`: it compares what was streamed with the final response, item by
  item and text by text; as a proof this is an induction over texts for each
  adapter, not attempted;
* `UsageIsRecordable` of DeepSeek's profile is refuted (Findings).

## 5. Findings

`proxy_orphan` (documentation and code disagree). `docs/interactions.md` lets the
host recover a pending attempt by a recover decision. `reserve_attempt` creates
the guard of an attempt only after the `begin` transaction was awaited, and that
transaction runs on a blocking thread which does not stop when its caller is
dropped. A client that disconnects in between leaves a pending attempt that no
request and no submitted transaction will settle, and `transition` refuses every
decision on a session in flight. The session stays blocked until the gateway is
restarted, when recovery marks the attempt unknown. Nothing is inferred twice
and nothing is lost: the safety properties of the other runs hold throughout.

`usage_alias` (code). A DeepSeek usage may report the cache reads twice, as
`cached_tokens` and as `prompt_cache_hit_tokens`. When the two differ, `normalize`
adds the reason `cache_alias_mismatch`, which `CanonicalUsage::validate` does not
know. The event cannot be encoded, its delivery fails and the usage worker ends,
where `docs/usage-accounting.md` says that inconsistent counters remain invalid
and other fields available. Managed DeepSeek routes reach it.

Seen while modelling, without a run: the management API remembers one operation
without a result (`ExecutionObservation::unrecorded`), and the next accepted or
completed operation clears it. A query then shows the first one as running, which
`docs/management-api.md` excludes; the next replay, reconcile or restart settles it.

## 6. Plan

Done: the store, the request path, the streams with every adapter, plugin and
codec gate, usage from counters to export, the journal with the management API
and three adapters, team access and team HTTP; the proofs of section 4.

Theorems next: of the streams, that a done item stays as it was and that nothing
follows the end of a response, which are the parts of `ClientStream` that need no
comparison of texts.

Not modelled, and why:

* the sessions with plugin and codec processes (`framed_process.rs`,
  `codecs/process.rs`): frame encoding, budgets and deadlines around one
  question and one answer at a time; what a wrong or late answer does to the
  client is in `PluginStreams`;
* the managed external codec's native stream, which is matched by item identifier
  only;
* request conversion (`ir`, the request half of the adapters), routing,
  capability admission, configuration, pack contents and editing: pure functions
  over wide records, best tested by the repository's own tables;
* read-only handlers and views, browser sessions, the observer queue (nothing
  depends on what it drops), the embedded host (wiring);
* cryptography (an envelope authenticates or it does not), HTTP framing, JSON
  text, file permissions, logging, command lines, the web interface.
