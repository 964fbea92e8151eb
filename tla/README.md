# abmind in TLA+

abmind is a persistent memory for AI agents: a TypeScript program on Node.js
over SQLite. One process per memory directory (the *owner*) opens the database
and serves requests; agents reach it in process, over a local socket, or over a
signed WebSocket from another machine. Once a night the owner can run *sleep*, a
long pipeline that asks a host's language model to condense the day.

This directory holds the specifications of that program: TLA+ modules
translated from the source, TLC configurations that check them on small
instances, and theorems that TLAPS checks for every instance.

## 1. The system

### 1.1 Components

| Component | Source | State it keeps | Operations |
|---|---|---|---|
| Owner lease | `src/abmind-owner-lease.ts` | the lease directory with `owner.json`, candidate and tombstone directories | acquire, recover a stale lease, release, clean tombstones |
| Service core and request ledger | `src/abmind-service.ts`, `src/abmind-request-ledger.ts` | the ledger table, the map of in-flight mutations, closed flag, in-flight count | handle, reserve, markStarted, complete, markUnknown, recoverCrashed, cleanup, drain, close |
| Service host | `src/abmind-service-host.ts`, `cli/abmind-daemon.ts`, `src/daemon-shutdown-contract.ts` | starting / started / stopping flags, the lease, the endpoints | start, roll back, begin shutdown, drain, finish stop |
| Remote client: outbox and transport | `src/remote/request-outbox.ts`, `src/remote/signed-wss-transport.ts` | the outbox file, pending callers, response timers, the pump timer | request, send, settle, retry, give up, degrade, close |
| Remote client: route controller | `src/remote/route-controller.ts`, `src/remote/route-contract.ts` | connection state, generation, reconnect budget, handshake | negotiate, establish, authenticate, lose route, reconnect, close |
| Remote endpoint | `src/remote/signed-wss-endpoint.ts`, `nonce-store.ts`, `remote-audit.ts`, `signed-auth.ts` | sessions, per-socket active requests, nonces, audit log | handshake, handle request, stop |
| Local transport and endpoint | `src/local-transport.ts`, `src/local-endpoint-server.ts`, `src/abmind-frame-codec.ts` | pending map per connection generation, retry budget | request, reconnect and replay, drain |
| Client façade, MCP and bridge | `src/abmind-client.ts`, `src/mcp-server.ts`, `src/mcp-connection.ts`, `src/client-bridge/` | the MCP adapter's connection, its start and its calls | start, negotiate, call, drain, close |
| Sleep service | `src/sleep-service/runtime-broker.ts`, `sleep-coordinator.ts`, `sleep-events.ts` | one runtime lease, one pending completion, the active run, an event ring, the sidecar | open/close/next/complete/fail, start/resume/cancel/shutdown, append/wait |
| Sleep engine | `src/sleep/` | the sleep lock (statuses, claims, acceptance), watermark, frozen answers, receipts, summaries, budget | the step pipeline, review, settlement, coverage, consolidation, resume |
| Operational memory | `src/operational-memory-store.ts`, `-service.ts` | drafts, memories and their versions | submit, promote, reject, revise, retire, list, recall |
| Private and personal memory | `src/private-memory-mutation-store.ts`, `src/personal-*.ts`, `src/dream-question-store.ts`, `src/message-store.ts` | messages, durables, episodes, forget markers and operations, questions | record, store, supersede, forget, prune, ask |
| Recall | `src/owned-pipeline.ts`, `src/owned-recall.ts`, `src/owned-continuation.ts`, `src/recall-projection-build.ts` | the projection and its generations, the handles of lookups | build, verify, publish, recall, continue |
| Secrets and backup | `src/secret-key-rotation.ts`, `src/crypto.ts`, `src/backup.ts` | key material, stage, rotation journal, backups | rotate, recover, back up, restore |
| Deployment | `src/deploy-lib/`, `cli/lib/standalone-installer.ts` | releases, links, unit files, shared native packages, deploy lock | stage, switch, prune, reconcile, activate, roll back |
| Storage schema | `src/memory-db.ts`, `src/ensure-initialized.ts` | schema version, tables, readiness, core files | create, migrate, repair, seed |
| Host integration and hooks | `src/host-integration/`, `cli/`, `hermes-plugin/` | checkpoint sessions, the window of observations | checkpoint, complete a turn, observe |

### 1.2 How they interact

A caller's mutation travels

    AbmindClient -> transport -> endpoint -> AbmindService.handle -> ledger -> handler

The remote client writes the exact frame to a durable *outbox* before the first
send and keeps it until an answer, a give-up or a lost outcome settles it.  The
service writes a *ledger* row before it dispatches and classifies every later
request of the same idempotency key by that row.  The two tables meet only by the
idempotency key: the outbox may send twice, the ledger must not run twice.

Everything runs on one event loop per process, so a handler is atomic from one
`await` to the next; processes are concurrent with each other and share the
directory, the database and the sockets: the daemon, the command line (which takes
no owner lease), installers, and the adapters of several hosts.  A process can die
at any instruction.

Personal memory is where most paths cross: messages are recorded by hosts, read by
the night's steps over an `await` to the model, pruned by settlement, forgotten by the
owner from either process, copied into the recall projection, and replaced by a
restore.  `PersonalStore` has these in one module for that reason.

### 1.3 What is hard

* a duplicate arriving before, while and after the first dispatch runs, on either
  side of a restart;
* a write that fails after the thing it records has happened;
* a timer, a close event or a late answer that belongs to an earlier connection
  generation, an earlier attempt or an earlier process;
* an entry that nobody is obliged to look at again;
* two processes deciding, from what they read earlier, that a lease is stale, that a
  schema is old or that a question was not asked;
* a series of file and database steps (rotation, restore, update, activation, a night)
  that dies in the middle and is taken up by somebody who sees only what is left;
* work done over an `await` from what has since been forgotten, revised or claimed.

PROJECT.json lists these per line under `hazards`, with the properties that
would catch each one.

### 1.4 What makes each component correct

| Component | It is correct when | Property |
|---|---|---|
| Owner lease | never two processes own a memory; nobody takes over from the living; a waiting daemon becomes the owner once nobody else is | `TakesFromDead`, `LastAdopts`; `Exclusive`, `AdoptsOwner` violated |
| Service core and ledger | a key the ledger remembers changes memory at most once; all its typed answers agree with each other and with memory; an unknown outcome stays one; a joined duplicate is answered | `AtMostOnce`, `AnswersAgree`, `KeepsPromise`, `JoinersAnswered` |
| Service host | it serves only with lease and database in hand and never after a stop; accepted work keeps its resources until the limits; a shutdown ends | `ServesUnderLease`, `AcceptedKeepsResources`, `StoppedHoldsNothing`, `HostStops` |
| Outbox and transport | every waiting caller has an entry that will be looked at; a refused request never runs; a finished one is never resent | `NothingStranded`, `FinishedNeverResent`, `CallersAnswered`; `NoLostWakeup` violated |
| Route controller | one attempt at a time, never stuck; a dead generation never becomes ready; no socket survives its holder; a loss is always published | `OneLiveSocket`, `NegotiateSettles`, `ImplementsRoute` |
| Remote endpoint | a signed frame is dispatched once | `DispatchedOnce` |
| Local transport | who waits gets on; one connection at a time | `ReconnectsOnce` |
| Runtime broker | a completion goes to one poll of the lease that admitted it; whoever waits is answered; an active provider keeps its lease | `PairedOnce`, `WaitsEnd`, `PumpKeepsLease` |
| Sleep coordinator and events | a late result never touches another run; the sidecar names the last run; a reader sees every event or is told of a gap | `RunsAccounted` |
| Sleep engine | the watermark passes a message only when it was covered; only an accepted run settles; nothing is deleted that was not kept; a fact is stored once; a day is summarized once; retries share one allowance | `HolesHeld`, `SettledByItsReview`, `PrunedWasKept`, `ExtractedOnce`, `SummarizedOnce`, `AllowanceKept`; `ConsumedWasRead`, `GapsAdvance` violated |
| Operational memory | a revision replaces exactly what its author read; pages neither repeat nor skip | `NothingOverwritten`, `PagedOnce` |
| Personal memory | what was forgotten is gone and, summary files apart, not published, over crashes, restores and builds; the owner is asked once | `ForgottenRowsGone`, `AskedOnce`; `SummariesForget` violated |
| Recall | a later page does not repeat what a handle retains; rivals are shown within the code's caps | `PagesKeepTheirWord` |
| Secrets | every sealed row opens with the key on disk whenever no rotation is pending | `KeyOpensAll`; `RekeyKeepsKeyFile` violated |
| Deployment | what is installed stands through updates that fail or die; a failed activation restores | `InstallationStands`, `ActivationHolds` |
| Storage schema | whoever comes to serve has a whole database | `BootConverges`; `FreshIsReady` violated |
| MCP adapter | one process serves an outbox; a lost race leaves nothing open | `OutboxIsOwned` |
| Host capture | what a capture can see of its checkpoints is not recorded again | `CapturedOnce` |

## 2. The plan and where it stands

The order is by what a user loses when a part is wrong: first the two tables
that make a mutation happen at most once, then who may own the database, then the
sleep service and engine, the stores, and what installs and boots them.

| Module | Composes or refines | Status |
|---|---|---|
| `MutationService`, `MutationServiceProofs` | implements `KeyedMutation` | checked, proved |
| `SignedWssTransport`, `SignedWssProofs` | over the environment of `Route` | checked, proved, one finding |
| `RouteController`, `RouteControllerProofs` | implements `Route` | checked, proved |
| `OwnerLease`, `ServiceHostProofs` | | checked, proved, two findings |
| `RuntimeBroker`, `RuntimeBrokerProofs` | | checked, proved |
| `ServiceHost`, `ServiceHostProofs` | its atomic lease is what `OwnerLease` promises when `Exclusive` holds | checked, proved |
| `SleepCoordinator`, `PartsProofs` | over the broker's terminal reasons | checked, proved |
| `SignedWssEndpoint`, `SignedWssProofs` | between the clients and `MutationService` | checked, proved |
| `LocalTransport`, `PartsProofs` | likewise | checked, proved |
| `SleepRules`, `SleepNight`, `SleepNightProofs` | the rules are operators of the night | checked, proved, one finding |
| `SleepExtraction`, `PersonalStoreProofs` | a step that `SleepNight` has by its outcome | checked, proved |
| `Consolidation` | likewise | checked, one finding |
| `SleepBudget`, `PartsProofs` | calls that `SleepNight` has by their outcome | checked, proved |
| `PersonalStore`, `PersonalStoreProofs` | | checked, proved, one finding |
| `DreamQuestions`, `PartsProofs` | | checked, proved |
| `OwnedRecall` | | checked |
| `OperationalMemory`, `PartsProofs` | | checked, proved |
| `SecretKeyRotation`, `PartsProofs` | | checked, proved for `passwd`, one finding |
| `NativeGroup`, `PartsProofs` | | checked, proved |
| `Installation` | | checked |
| `StorageBoot`, `PartsProofs` | | checked, proved, one finding |
| `McpHost`, `PartsProofs` | | checked, proved |
| `HostCapture`, `PersonalStoreProofs` | | checked, proved |

What is left of the plan: the proposals of the sleep steps other than extraction; proofs of
what 5 leaves to TLC.

## 3. The modules

Every operator that stands for code is listed in PROJECT.json under `map` with its
lines.  Operators whose name begins with `Fault` are seeded faults: each is a
plausible bug, used to check that a property notices it (`mutants`); no
specification uses them.  Each module names its bounds where it declares them.

### 3.1 MutationService

`abmind-service.ts` and `abmind-request-ledger.ts`.  `row` is the ledger table, `owner` the
map of in-flight mutations, `call` where each request is, `phase` the life of the
process; `effects` and `decided` are histories that only properties read: which calls
changed memory under a remembered key, which typed answers were given for it.

The stretch from reserve() to the start of the handler has no `await`, so
`Dispatch` is one action; a crash in the middle of it is one of its own
(`CrashReserved`).  The handler's transaction (`Apply`) is apart from its settlement
(`Finish`), because a crash or a second request may come between them.  Every ledger write
may fail: `ReserveFails`, `ClaimFails`, and `LoseOutcome` for a completion that
cannot be recorded.  `Start` is recoverCrashed() with cleanup(), which may purge any
completed row.  Authorization and validation end before the ledger is looked
at and are one refusal (`TurnAway`).

`KeyedMutation` is what a client may rely on, without ledger, processes or handlers: a key
is open, runs, is settled or is unknown; memory changes once while it runs, for the payload
of the key and for a call that was not yet answered; a call is told a typed answer only
if it is that of its settled key, and a conflict only if the key is for another payload; an
unknown key never changes again, a settled one may be forgotten.  A step of the service may
move every key at once (a start), so a step of `KeyedMutation` gives each key and
each call one of its moves.  `KeepsPromise` is the refinement, with `FateOf` as the mapping.

### 3.2 SignedWssTransport

`signed-wss-transport.ts` with `request-outbox.ts`, and the peer as far as a client can
see it.  `entry` is the outbox: it stands for the file and the copy in memory,
which agree because a failed write is rolled back.  `caller` is the pending map with what
each caller was told, `sentOnGen` the one-send gate, `pumpTimer` the one timer.  Each
handler is one action with one disjunct per way its checkpoint can end.  The
peer takes a request or refuses it, and answers or does not; a route that goes
down takes the responses of its generation with it.

The route is the client's environment here: it works, becomes ready, is lost and comes
back as `Route` has it, and that `RouteController` is such a route is what `ImplementsRoute`
shows.  The environment's actions are written after `Route`; nothing is claimed of the
client by that.

`CallersAnswered` is about an entry that nobody is obliged to look at again: with two slots
the end of one send must make the pump look at the entry that waits behind it
(schedulePump() in handleMessage()).  The defect of `NoLostWakeup` needs an entry that waits
beside one whose deadline lapsed, and is left out by having two parts: in `waits`
no deadline lapses and two entries may be in the outbox, in `lapses` deadlines lapse and
there is one entry at a time.  Safety is checked in both.

### 3.3 RouteController

`route-controller.ts`.  Sockets are known by the generation that made them.  A
promise reaction is an action apart from the event that settled its promise
(`Authenticated`, `BecomeReady`, `HandshakeFails`), so that anything may come between;
the staleness check at its head is what must hold it back.  `LoseRoute` covers
the close handler with the callback it calls, which may close the controller from
inside.

### 3.4 OwnerLease

`abmind-owner-lease.ts` one file system call at a time, with the retry loop of
`abmind-daemon.ts --wait-for-owner`.  `target` is the lease directory: absent, empty, or
holding the record of a process; `tomb` the tombstone each process made.  rename() of a
directory onto an empty one succeeds and onto a filled one fails, which is what claim
and restore rely on.  A process may die before any step of `CrashAt`.

Mutual exclusion (`Exclusive`) is not what this protocol gives: `lease_contended` shows two
owners.  What does hold is that a process on its way to the claim moved aside the
lease of a dead owner only (`TakesFromDead`, for every number of processes), and that the
last process left becomes the owner again and again, unless a lease without a
record is in its way, which is `lease_crash` (`LastAdopts`).

### 3.5 RuntimeBroker and SleepCoordinator

`RuntimeBroker` is `sleep-service/runtime-broker.ts` with the stretch of
`abmind-service-host.ts` that queues a completion and awaits it.  Clocks count down, so
time has no bound: `Tick` lets a unit pass, timers may be late (not when `Prompt`).
Work for a waiter is handed over where the code does it, inside the operation that wakes
(`WakeNext`).  `PumpNext` is the broker under a provider that polls as the hosts' pumps do.

`SleepCoordinator` is `sleep-coordinator.ts` over `sleep-events.ts`.  A run's promise
settles (`Resolve`, `Reject`) whenever it likes, also under a newer run or in
shutdown; `sidecar` outlives `CoordinatorRestarts`.  The ring is bounded and answers are cut to a
limit; `polls` are readers, of which `got` and `gap` are histories.

### 3.6 ServiceHost

`abmind-service-host.ts`, the cleanup of `abmind-daemon.ts`, the budget of
`daemon-shutdown-contract.ts`, and what quiesce() and stop() of the local endpoint do.  A
start is three awaits (`Acquire`, `Initialized`, the rollback in two steps), a shutdown
six steps; `spent` is the time since the cleanup began, which drain, flush and
release share.

### 3.7 SignedWssEndpoint and LocalTransport

`SignedWssEndpoint` is the daemon's side of the signed socket: the checks of a frame in
their order, the nonce claimed before the audit and the dispatch (each may fail after
it), degradation, shutdown, and a restart on the same nonce store.  Time advances, so
that nonces expire and signatures go stale.  A signature carries whole seconds and the
nonce table milliseconds, so a `Second` is several ticks long; a signer may be `Skew`
seconds ahead.

`LocalTransport` has both ends of the local socket.  `wire` is the stream of each
connection, in order in both directions, lost with it.  Close, error, failed write,
refused connection and timer are actions of their own; the daemon may be
quiesced, die and come back.

### 3.8 SleepRules and SleepNight

`SleepRules` has the operators a night is judged by (failed essentials, resumability,
the ceiling of the watermark, the verdict of a review).  `SleepNight` is a night:
`Begin` reads the sleep lock and resumes or not, the loop dispatches the manifest's
steps, the review repairs, retries and concludes, settlement judges, moves the
watermark and deletes.  `lock` is the file, `mem` the copy the run holds; `Crash` loses
the second.  `Throw` is an error that leaves the cycle.  `holes` is what was reported
unclaimed, for properties only.

A step is one action by its outcome; the three modules of 3.9 look inside.  Left out:
duplicates and SYSTEM rows among messages, the 24-hour cleanup, the basic and native
levels.

### 3.9 SleepExtraction, Consolidation, SleepBudget

`SleepExtraction`: the answers are frozen one message at a time, applied line by line and
recorded in receipts; a run may break (`Breaks`) between any two of these, and a later
one takes up what is frozen.  `said` and `asked` are histories.

`Consolidation`: `Plan` reads what is due, `Publish` writes it days later; dailies arrive
late, foreign files take names.  A daily covers one day here, and the scan's limit on
headers (40) is not reached.

`SleepBudget`: one unit of time is 30 seconds.  A call is attempted until it is answered,
refused for good, out of its window or out of its allowance; the corrective turns of a
step and its repetition by the review share that allowance.

### 3.10 PersonalStore, OwnedRecall, DreamQuestions

`PersonalStore`: `raws` are messages, `rows` durables and episodes with the messages they
are from (`of`) and were from before (`past`), `marks` and `ops` what forgetting left,
`files` the summaries, `proj` and `docs` the projection, `job[p]` what process `p` is in
the middle of.  `recall` and `draft` are what the daemon holds over an `await`.  A forget
reads what its target was made from before its transaction begins
(`personal-forget.ts:316-366`) and marks it inside (367-375); the two are `ForgetReads` and
`ForgetMarks`, and the other process may write in between.
Simplified: a check and the insertion it guards are one step (one transaction in the
code), a backup's snapshot is one step, digests are compared by id.

`ForgottenRowsGone` is about messages and rows: they are not stored, and no durable or
episode leaves in a recall that was in flight.  It is not about summary files, which differ in two
ways.  One that is written over an `await` may keep a forgotten message
(`SummariesForget`, the run `personal_summary`).  And the publication gate says that
artifacts are revalidated for "unchanged content version, and no forget barrier may be
pending" (`owned-recall.ts:439-441`), but the code (442-467) looks for a pending forget, for
the file and for its owner, and compares no version: a recall that read a summary before a
forget and publishes after it has completed, when a later summary has taken the same
name, sends the excerpt it read.  `Publishable` has the gate as the code has it, and this
disagreement is not checked by a run of its own; `Parts.cfg` has no summary files.

The gate tells versions of a durable apart by their revision number only, and a restore
lets numbers be given again to other content: a recall that was in flight meanwhile may
publish what has been forgotten.  `ForgottenRowsGone` therefore speaks, once something was
restored, of first revisions and of episodes only (`NamesItsContent`).

`OwnedRecall`: a recall is in stages, each of which may find what the index has; memories
change between stages.  Ranking is any choice that fits.  A recall reads the generation it
began with to its end, and its handle is bound to it.  The disputes of a memory are read
with the code's caps, which the comments beside them do not name: four exceptions and four rivals of each
leading memory (`MaxRead`), eight in all that no stage had found (`MaxExtras`), and in normal
recall none that the anchor gate shut out, because a required memory that a signature
found keeps its score of -1 (`owned-pipeline.ts:860`).  `PublishesRivals` states the comment
"so a resolved belief never hides them" (727) with these exceptions and no others.  The handle of a page is
issued for what was rendered, before the packet is cut to its 128 KiB (`Publish`, `Capped`):
what was cut is retained as given and comes in no later page.  "a later page can never repeat an
earlier one" (`owned-recall.ts:362-363`) is true of the 128 references that a handle keeps
(`MaxRefs`), and `RetainedApart` says no more than that.

`DreamQuestions`: every call reconciles its owner's rows first, as the code does;
`told` records the deliveries.

### 3.11 OperationalMemory

`operational-memory-store.ts` under `operational-memory-service.ts`.  A writer reads, and later writes under the hash it
read; the clock may give one time to many rows, and ids are in no order of time, which is
what the pages have to cope with.

### 3.12 SecretKeyRotation

Each file operation of rotation and recovery is a step of its process, the command or the
service, and either may die between two.  A ciphertext is the key it was made with.
With `Together = FALSE` the command runs while the service is down, as the documentation
of the command asks; a running service keeps the key it loaded.

### 3.13 NativeGroup, Installation, StorageBoot

`NativeGroup`: one operation at a time; what a dead one moved aside stays aside.

`Installation`: releases, three links, the unit of either platform, the service.  One
update runs at a time; service commands begin when none runs, but sessions, supervisors
and people start and stop daemons at any point.  The reconciliation of templates and the
manifest are left out.

`StorageBoot`: a boot reads the version, then migrates in transactions that look again
or do not, as in the code; an older release may boot in between.  `readiness` is what
the first boot concludes.  Legacy columns, indexes and triggers are left out.

### 3.14 McpHost and HostCapture

`McpHost`: the remote mode of the adapter.  `start` goes on after it was given up (`StartFails` by timeout), and
`taken` is what a shutdown has taken over to close.

`HostCapture`: a handler records one message per action; it may die between two.  One
execution completes once.  A capture compares with the rows of its checkpoint session, which
is that of the execution and its generation (`Session`), as it reads them at the first message
(`LoadKnown`).  The comment there says that retries converge and completion "skips content already
checkpointed" (`lifecycle.ts:51-54`), without a condition.  The code has two:
loadRecentMessages() answers a failing read with no rows (`message-store.ts:112-115`), after which all is
recorded again (`LoadFails`), and it reads 200 rows, so of a longer session an
arbitrary part is not seen (`RecentMessages`; a host may give the timestamps by which they
are ordered).  `CapturedOnce` says that these are the only two ways; each row
carries whether its capture had seen the whole session (`sighted`).

## 4. The runs

TLC checks the modules in four passing runs.  Components that share no state are
checked side by side: `part` is chosen by the initial state and the other parts keep
still, so the states of the run are the sum of the parts', not their product.  In
`MCCoreParts` and `MCHostAndRoute`, which extend the modules they check, each part has its
own variables: liveness properties and theorems are about named ones.  In `MCParts`, where
only safety is checked, the eleven modules it extends have variables of their own as well; the
other parts share one set of variables `v1` to `v19`, and each instance says which of them
are its own.

| Run | Asks | Instance |
|---|---|---|
| `core_parts` | at most once, answers alike, implements `KeyedMutation` (tombstones among it), joined duplicates; one taker, nobody forgotten, waits end; the key opens all; nothing overwritten; reconnects once; asked once | 3 calls, 1 key, 2 payloads, 3 starts, room for 1 completed row; 2 polls, 2 leases, 2 completions, late timers; 3 keys, 3 generations, 2 deaths; 2 writers, 4 versions; 2 requests, 2 connections, 1 death of the daemon; 1 pair, 3 rows, 2 hosts, 5 days |
| `host_route` | serving, draining, stopping; nobody takes the lease from the living, the last one left owns it; one attempt, no orphan socket, negotiate() settles, implements `Route`; nothing stranded, callers answered, finished never resent | a daemon and an embedded host, 2 requests, death at every step; 3 processes at the lease, death at every step; 6 generations, 2 reconnects; 2 frames, 1 attempt, 2 generations, 2 processes, failing checkpoints, with 2 entries whose deadlines are kept and with 1 that may lapse |
| `sleep_night` | holes held, pruned was kept, settled by its review | 4 steps, 2 messages, 2 runs, 2 review rounds, 1 death or thrown error |
| `parts` | 15 properties of as many components | 17 parts, see `MCParts` |
| `transport_wakeup_lapsed`, `lease_contended`, `lease_crash`, `sleep_resume`, `consolidation_gap`, `personal_summary`, `secret_rekey`, `fresh_install` | violations, see 6 | as small as shows them |

Why these bounds are enough to be interesting.  Three calls of one key give an owner, a
duplicate that joins and one that arrives after the settlement or after a restart;
keys meet only in the retention cap (two keys were checked once as well, 2.4 million
states, too slow to keep).  Two leases and two completions are what a late answer needs to
hit the wrong one; the lease is idle for 2 units and the deadline 3, so that either may
come first; `Pump` has deadlines on both sides of it.  Two frames with two slots are one in flight and
one that waits behind it: with one slot a handler that forgets to look at the next entry
goes unnoticed.  One attempt is a send and a budget that runs out, two processes
a reload.  Three contenders for a lease are an owner that dies, one that takes over and
one that arrives in between; the fourth of `lease_contended` is the dead owner, and with it
mutual exclusion fails, so the three of `host_route` are asked for less (3.4).  Two runs
of a night are one that leaves something and one that takes it up; a garbage step, the
daily, one prompt step and the extraction are one of each kind of step the settlement
tells apart; two rounds are a repair and the look that verifies it.  In `parts`,
personal memory is there three times: with a restore, and with builds of the projection, while
the daemon forgets, and with builds while the command line forgets.  Restores with builds,
and forgets of both processes at once, exceed what the run may take; the proofs are about all
of it at once, and about episodes, which the run leaves out.  The captures of a host and its
window of observations touch no common variable and are two parts.  There a session
holds more than the one row a capture reads (`Recent = 1`), an execution has two
generations, and one read fails or one process dies.  Of the memories of a lookup one summary and
one rival change, and every cap is one; of two MCP adapters one is launched again; a
cycle of sleep is 8 units, a step 4.
Operational memory is written in `core_parts` and read
page by page in `parts`, where drafts are made and rejected between two pages.  Two packages
give a move before and a move after the one that fails; three releases one more than are
kept; the endpoint's second is two ticks and its signer's clock is exact, so that the nonce
table forgets at the tick at which a frame goes stale; two processes for a boot the
interleaving of their transactions.

All runs end in states where clients have nothing more to ask or a bound is reached, so
deadlock is not an error in them.

### Fairness

Only what a process does by itself is fair: a ready handler or reaction runs, an armed
timer fires, time passes, a closing socket ends, a start or shutdown goes on.
Weak fairness is enough, since nothing disables these steps but their being
done or the end of the process.  Not fair: clients calling, peers or providers answering,
handlers settling (except in the mutation service, where the duplicate waits for exactly
that), processes starting.  `CallersAnswered` also assumes that the route eventually stays
up; its reconnecting is fair in the module.  `lease_crash` has the retry loop of a
waiting daemon fair, and so is that of `LastAdopts`; `consolidation_gap` that
every night plans (weakly), and strongly that a model which is asked again and again completes an answer some time.

A part that keeps still satisfies the fairness conditions of its module: in its initial
state none of the fair actions is enabled.  Liveness is stated as `[]<>` of "nobody
waits" where a caller waits at most once, which is then the same as leads-to.

### Observed, without a run of its own

Met while reading and modelling.  Nothing here is checked.

Transport and service:

* markDegraded() tells callers `pre_dispatch` ("the mutation definitely did not begin",
  `src/abmind-protocol.ts:81`) whose request is on the wire or running
  (`signed-wss-transport.ts:255`), and a resend the endpoint refuses carries no stage,
  which the client reads the same way.
* load() does not count the send a dead process made, so an entry may be sent once more
  per restart than `OUTBOX_MAX_ATTEMPTS`.  pruneTerminalUnknown() has no caller: terminal
  entries keep their slots.  A removal that cannot be checkpointed has dropped its caller
  (`signed-wss-transport.ts:325`); the caller of a lapsed entry is never answered by it.
* onRouteLost is also called for a generation that never was ready.
* A second poll of a lease puts it back to the idle window, also below the deadline of the
  completion the first poll took.
* A failed start releases the lease before it closes the database
  (`abmind-service-host.ts:321`, against the order of `docs/wiki/service.md:51`).
* A local replay that meets the in-flight limit is refused as overload
  (`local-endpoint-server.ts:194`); two negotiate() calls at once share a request id.
* MCP: the start's timeout begins before negotiate()'s own and then releases the lease
  while the transport still negotiates (`mcp-connection.ts:306`), so another process may
  open the same outbox until exit; a local start that times out leaks its client; a call
  that is still negotiating at shutdown is not drained.

Sleep:

* Two processes may both read a dead or absent lock and claim the night
  (`orchestrator.ts:166`); a throw out of the cycle leaves the lock `ongoing` under a live pid.
* "Fresh cycle discards prior state" (`orchestrator.ts:183`) keeps steps and claims; the
  comment at 711 on cancellation and what is done differ.
* The number of calls may pass `SLEEP_MAX_LLM_CALLS`: rejections do not look at what
  consume() returns, corrections and RETRY_STEP are not gated, and a resume starts from
  zero; the documented default (`docs/wiki/configuration.md:71`) is not the code's.
* A supersession on the same UTC day deletes the first run's daily file.
* A fact that was forgotten and stated again never settles its extraction.
* A weekly whose name is occupied fails for ever and starves the quarterlies; an empty quarter
  stays due.
* The coordinator's poll on a replaced idle ring is orphaned at shutdown; a woken reader gets
  the oldest slice; the progress of a replaced run goes to the new ring.

Stores:

* A projection may be promoted between the last check and the writes of another process
  (`recall-projection-build.ts:724`); a failed build keeps its stale serving generation.
* A restore in replace mode reuses revision numbers (see 3.10), may reuse ids that were forgotten, and
  is ready before it invalidates the projection; a refused one leaves `interrupted`.  A pending
  forget is retried only at a restart.
* recordMessage() and cleanupOldMessages() select rows to prune without a covered
  timestamp, so they never prune; only a settled night does.
* The second page of operational recall is refused: the service encodes a cursor
  (`operational-memory-service.ts:496`) that validateCursorTuple() (190) does not
  accept, though `cli/abmind-operational.ts:269` offers it.
* A settled question keeps the text of what was forgotten for up to 30 days.
* Recall: a summary file is published as it was read, though it was forgotten and
  another has its name by then (`owned-recall.ts:442`, see 3.10).
* Recall: the cap on pages starts again with every handle; a handle keeps 128
  references, and what was cut from a packet is retained as given, so that later pages of a
  long lookup may repeat and never show what was cut; the disputes of a memory are read
  no further than the caps of 3.10, and are not looked for among those of later pages.
* The daemon caches the secrets key: a rotation beside a running daemon leaves it sealing
  with the old one.  A recovery in another process discards a stage under construction.

Deployment and hosts:

* The deploy lock is judged stale and renamed in two steps (`lock.ts:108`): two contenders
  for a stale lock may both hold it.
* `abmind start` and `restart` on Linux without linger report success though the start was
  not made; an update to the release already installed changes nothing, so the
  "re-run" of `docs/wiki/troubleshooting.md:228` repairs neither an old daemon nor a half-made
  activation; the release of a daemon that was not restarted may be pruned.
* An untracked native package of another version is refused for ever; a group torn by a
  death is adopted when it loads.
* A torn copy of a core file is never repaired; the table rebuild of #1477 drops an index until the next boot.
* HostCapture: the same text said twice in one execution is recorded once; a turn that
  died half-way or is repeated under a new key is recorded again, and so is a checkpoint
  after the completion; after a read that failed, or past 200 rows, so is everything
  (`lifecycle.ts:66`, see 3.14).

## 5. The proofs

Each of the modules below proves, about the component whose name it bears (`SignedWssProofs`
about both ends of the signed socket, `PersonalStoreProofs` also about the extraction and the
captures, the two that write messages and rows to the store, `PartsProofs` about nine
components that share no state), what its table lists, for every value of the constants that
the named assumption of that module allows.
Each has the same shape: an inductive invariant `IInv` in named conjuncts, one lemma per
action with one step per conjunct the action can disturb, `Next`, and the temporal step.
Where a property of a run is stated, the run shows it on a small instance and the theorem
for all.

### MutationServiceProofs (`ServiceAssumption`)

| Theorem | States |
|---|---|
| `TypeCorrect` | `Spec => []TypeOK` |
| `MutationsAtMostOnce` | `Spec => [](AtMostOnce /\ EffectMatchesRow)` |
| `TypedAnswersAgree` | `Spec => [](AnswersAgree /\ TypedIsDurable)` |
| `TombstonesPermanent` | `Spec => TombstoneForever` |
| `PromiseKept` | `Spec => KeepsPromise`, the refinement of `KeyedMutation` |

`AtMostOnce` is not inductive: it says nothing of a handler that is about to
commit.  The inductive invariant adds who is running: a running call is the one
registered for its key, the row of its key is in flight for its payload, and memory has changed
under the key exactly if that call has applied (`RunningOwnsRow`); the registered owner is
a running call (`OwnerRuns`); what each row state says of the key's history
(`RowHistory`): nothing happened while it is absent, nobody was given a typed answer
before it is completed, and then only the recorded one; a joined call follows a
call of its own key, and a typed settlement of that call is in the row
(`JoinedFollowsOwner`); nothing runs in a dead process (`DownIsEmpty`).
`TombstoneForever` is proved as an action property from the same invariant: a running
call's row is in flight, so no settlement finds a tombstone.

The refinement goes by key and by call: every step makes one move of `KeyedMutation` with each
key (`KeyStepsAll`) and with each call (`CallStepsAll`).  The calls need three more
invariants (`PInv`): a call that changed memory has left its dispatch for good (`Changers`), or
one that is turned away could have; a call that others joined is never answered with a
conflict or a refusal of admission (`ViaSettled`), or these would be handed on; and a
row stays for the payload its joined calls asked for (`JoinedBody`).

### SignedWssProofs, the client (`TransportAssumption`)

| Theorem | States |
|---|---|
| `TypesHold` | `ClientSpec => []ClientTypeOK` |
| `NeverStranded` | `ClientSpec => []NothingStranded` |
| `NeverResent` | `ClientSpec => FinishedNeverResent` |

`NothingStranded` says of a frame that was refused admission that it never ran.  That is
inductive only with `Strangers`: such a frame has no entry, nothing on the wire and
nothing at the peer, and neither has one whose number is still to come.  A client that is
not up awaits nothing (`AtRest`), or a reload would find a send under way; nobody waits
for what was loaded (`Replays`); the entry of an answered frame is gone (`AnsweredGone`),
so that no later pump can find it.  Every handler may end in markDegraded(), which one
lemma treats once (`DegradeInv`), from what all its callers guarantee; `GiveUpInv` and
`TransmitInv` do the same for helpers that several handlers share.  `NeverResent` follows because
a finished frame has no pending entry (`FinishedIsSettled`) and every send is of one.

### RouteControllerProofs (`RouteAssumption`)

| Theorem | States |
|---|---|
| `TypesHold` | `RouteSpec => []RouteTypeOK` |
| `OneSocketLives` | `RouteSpec => []OneLiveSocket` |
| `RouteRefined` | `RouteSpec => ImplementsRoute`, the refinement of `Route` |

What keeps two attempts apart is spread over the controller's fields: a pending promise is
that of the current, active generation (`Pending`), the timer is armed exactly in the
reconnecting state (`Timed`), a ready route is bound to its generation (`Bound`), an open
or dialing socket is that of the pending attempt or the ready route (`Held`), a control
exchange is the pending attempt's (`Exchange`), nothing is known of later generations
(`Future`).  `Room` says that the model's bound on generations leaves one for a loss.  In
the refinement a generation is ready for `Route` exactly when isReady() holds.

### RuntimeBrokerProofs (`BrokerAssumption`)

| Theorem | States |
|---|---|
| `TypesHold` | `BrokerSpec => []BrokerTypeOK` |
| `BrokerPairsOnce` | `BrokerSpec => []PairedOnce` |
| `AnswersStand` | an outcome and an answer, once given, are final |
| `PumpStaysLive` | `ASSUME PumpAssumption PROVE PumpSpec => []PumpKeepsLease` |

`PairedOnce` needs that a poll waits once, under the lease it named (`Apart`, `Named`);
that the pending completion is queued, and delivered to nobody unless it says so
(`PendingIsQueued`); and that completions are numbered in the order they are queued
(`Numbered`, `Handed`).  `PumpAssumption` says that timers are prompt and that a poll waits
for less than a lease may be idle.  The hosts' pumps satisfy the second: next() waits for
30 s by default (`abmind-ops-dispatch.ts:394`) and a lease may be idle for 120 s.  The
first is what the property is about: with timers as late as they like any lease may lapse,
which is why `Prompt` is a constant.  `Covered` is the invariant: at every moment the
provider is polling with more lease left than wait, or works within its deadline.

### ServiceHostProofs (`HostAssumption`)

| Theorem | States |
|---|---|
| `HostTypeCorrect` | `Spec => []TypeOK` |
| `AdmitsOnlyAsOwner` | `Spec => []ServesUnderLease` |
| `OneHostServes` | no two hosts admit requests at a time |
| `WorkKeepsResources` | `Spec => []AcceptedKeepsResources` |
| `StoppedIsEmpty` | `Spec => []StoppedHoldsNothing` |
| `TakesOnlyFromDead` | `ASSUME LeaseAssumption PROVE Lease!Spec => []TakesFromDead`, of `OwnerLease` |

None of the three safety invariants is inductive.  `ServesUnderLease` needs to know, when a
start reaches its end, that the lease and the database it took earlier are still there;
`StoppedHoldsNothing` that a teardown past its wait for the start finds none under way.
`Phases` says how the progress of a start, the progress of a shutdown, the state of the
host and what it holds fit together.  `AcceptedKeepsResources` is kept by `AcceptedRuns`: a
running request is at a host with an open database whose teardown still waits for it,
or the drain has expired.  The lease is atomic in this module; that the file
protocol behind it is exclusive, and when it is not, is what `OwnerLease` checks.

`TakesFromDead` is about a process that moved a lease aside.  Its invariant (`LeaseInv`) says
that a record, wherever it is, names a process that once claimed (`Recorded`); that whom a
process found dead before it evicts is gone, and stays so, since a record names an instance
(`SeenGone`); that a process comes to the claim with no older tombstone of its own (`Swept`)
or with that of the dead (`TakenGone`).

### SignedWssProofs, the endpoint (`EndpointAssumption`)

| Theorem | States |
|---|---|
| `FrameDispatchedOnce` | `ASSUME RemembersAssumption PROVE EndpointSpec => []DispatchedOnce` |

The invariant `EInv` adds what the nonce table remembers (`Remembered`): a dispatched frame has
a claim that outlives the last instant at which it is timely, or is stale already.  That needs
`RemembersAssumption`: a nonce is kept for as long as its frame can be accepted,
`(StampWindow + Skew + 1) * Second - 1 <= Ttl`.  The code's constants satisfy it (window 30 s,
retention 60 s, ticks of a millisecond) for a signer whose clock is up to 29 s ahead.  The
window admits 30 s, and a stamp is cut to whole seconds, so for a signer that is a whole
window ahead the retention is short by at most a second; there the property is not
claimed, and TLC confirms that it fails (`Skew = 1`, `StampWindow = 1`, `Second = 2`, `Ttl = 4`).

### SleepNightProofs (`RulesAssumption` and the module's own)

| Theorem | States |
|---|---|
| `TypesHold` | `Spec => []TypeOK` |
| `HolesStay` | `Spec => []HolesHeld` |
| `ClaimsNameHoles` | a lock that vouches for a daily summary names its holes |
| `PrunedIsKept` | `Spec => PrunedWasKept` |
| `OwnReviewSettles` | `Spec => SettledByItsReview` |

`HolesHeld` is about the watermark, and holds because the lock, on disk and in memory,
never vouches for a daily without naming its holes (`HolesClaimed`): a death loses the
copy in memory and a resumption takes the one on disk, so both must.  `AbortedIsUnwell` and
`Concluded` tie the verdict in the lock to the run that reached it, which
`SettledByItsReview` needs after a resumption.  The ceiling of the watermark is a minimum over
a set of message numbers; that it exists is the only fact here that rests on the
well-foundedness of the naturals.

### PersonalStoreProofs (`StoreAssumption`, `ExtractionAssumption`, `CaptureAssumption`)

| Theorem | States |
|---|---|
| `TypeCorrect` | `MemorySpec => []MemoryTypeOK` |
| `ForgottenIsErased` | `MemorySpec => []NothingForgottenStored` |
| `ForgottenStaysGone` | `MemorySpec => []ForgottenRowsGone` |
| `LinesAreExtractedOnce` | `ExtractionSpec => []ExtractedOnce` |
| `NothingCapturedTwice` | `CaptureSpec => []CapturedOnce` |

`ForgottenRowsGone` is proved of messages, durables and episodes, and says nothing of summary
files (3.10).  `NothingForgottenStored` speaks of served memory only, and is kept by what
holds meanwhile.  Rows are clean of marks at all times (`RowsClean`), as every transaction
that writes rows or marks ends in enforcement.  Messages are not, while a restore is between
its wipe and its enforcement: then memory is not served (`RestoringApart`), and from the
enforcement on they are clean (`RawsClean`), whichever operations the restore still has to
complete.  What an operation names is marked, here and in the backup (`OpsMarked`), and
whatever is marked, or read by a forget that is about to mark it (`Marking`), was given out
before (`UsedAll`), so that a new message or row is clean.  For the recall, the
invariant is about all versions of durables there are, in the table, the backup, the
projection and the recall in flight: a revision number names one content (`Agree`), because
the number a revision takes is above all that were seen (`Newest`).  A restore ends the
second for good, which is why `NamesItsContent` is needed.

`ExtractedOnce` says of the rows that those of one message are of one answer, and of the
watermark that what is below it was decided.  The first is kept because a row is of the
last answer of its message, and that answer is frozen, or its message settled, before
anything of it is stored (`DurablesAsSaid`, `FrozenFirst`); what is frozen is what was said
(`FrozenIsSaid`), so that a run which takes up another's frozen answer applies the same lines.
The second needs to know which messages a step answers for: those between the watermark
and the newest message it was begun with (`Scoped`), of which each that is neither in hand
nor replayed nor put off has every line in a receipt (`ScopeDecided`).  A step that
finished a scope may then move the watermark to its end.

`CapturedOnce` has two halves.  For the rows: a capture that saw the whole of its checkpoint
session, or has recorded since what it did not find there, knows every checkpoint there is of
its execution and generation (`Knows`).  It saw the whole if they were no more than it reads when
it looked (`KnownIsAll`); nothing else is recorded while it runs, and pruning only
takes away.  Nothing is claimed of a capture whose read failed or fell short: its rows are
not `sighted`.  For the events: the window is the end of what was counted, and what is
counted before it is over or has a window of others after it (`WindowInv`); eviction goes
from the oldest and stops at the first that is not over, which loses none that still counts.

### PartsProofs (the assumption of each module)

| Theorem | States |
|---|---|
| `RotationKeepsKey` | `ASSUME RotationAlone PROVE RotationSpec => []KeyOpensAll` |
| `NoUpdateLost` | `OperationalSpec => []NothingOverwritten` |
| `NothingPagedTwice` | `OperationalSpec => []PagedOnce` |
| `ClientReconnects` | `LocalSpec => []ReconnectsOnce` |
| `NobodyAskedTwice` | `QuestionSpec => []AskedOnce` |
| `OneServesOutbox` | `McpSpec => []OutboxIsOwned` |
| `AllowanceIsKept` | `BudgetSpec => []AllowanceKept` |
| `RunsAreAccounted` | `CoordinatorSpec => []RunsAccounted` |
| `GroupIsKeptWhole` | `GroupSpec => ActivationHolds` |
| `BootsConverge` | `BootSpec => BootConverges` |

`KeyOpensAll` speaks of a machine at rest; what carries it there is what a journal says of
the transaction it goes with (`Journalled`).  While the database is at the journal's
generation the stage, where there still is one, and the live material, where there is
none, together open everything (`Promised`); in every other state the live material does
(`Whole`).  A promotion forgets staged items only after the transaction and a removal
only before it (`Promoting`), and how far a rotation has come fixes what is staged
(`RotationGoes`).  `RotationAlone` is an hypothesis, not a bound: only `passwd` runs, and not
beside the service.  Without either half TLC finds `KeyOpensAll` violated: after a
`passwd` that died before its journal a `rekey` makes the key it left live (the finding
`secret_rekey`), and a service that is up seals with the key it loaded.

`NothingOverwritten` needs that a memory's row ends in a version of its own (`Heads`) and
that a version follows an earlier one (`Follows`), or the new version could be its own
predecessor.  Here the hash that a writer saw and the hash in the row are compared, so
the theorem speaks, as the code does, of content and not of version numbers.

`PagedOnce` is about what the cursor means while drafts come and go: what was given is not
behind it and none of it twice (`GivenAhead`), and a draft of the first page's time that
still is one was given or is behind it (`RestBehind`).  Both survive a change between two
pages because a draft keeps its time and never becomes a draft again (`DraftsKeep`).  A
page is the rows behind the cursor in order, each at its rank, the number of rows that are newer
(`RankOrders`); that every rank below the number of rows is taken (`SortedList`) is the
pigeonhole principle and asks for no induction.

`ReconnectsOnce` needs where the current connection is (`CurrentIsThere`), that none is made
while there is one (`ConnectsOnce`), and what a request is waiting for (`PendingGoesOn`).
The invariant is about the states of the connections only; what is on their streams is
bound away (`Wires`), so that the proof of a handler need not follow the frames.

`AskedOnce` is about deliveries long past, of rows that may be deleted.  `Recorded` ties
each delivery to its row for as long as its question stands; `OneUnderWay` says
that a pair's active row was made when each other row about it had had its time.  What
reconciliation may do to a row is stated once (`Becomes`: it ends, or it is deleted when
its time is long over) and every call that reconciles cites it.  Retention must be at
least the life of a question (30 and 7 days in the code), which `QuestionAssumption` says.

`OutboxIsOwned` follows from what a process has at each point of its start and of its
end (`Began`, `Has`).  The cleanup may have released the lease of a start that was given up
and still negotiates; once that start has ended too, whichever was first, it has unwound.

`AllowanceKept` is kept by `Room`: what is left to a send is left of the allowance of its
step, whichever of refusals, corrections and repetitions began the send; a step the
night has not come to has spent nothing (`StepsInOrder`).

`RunsAccounted` has two halves with an invariant each (`CoordinatorInv`).  For the records:
the sidecar as well as the copy in memory tells the truth of the run it names
(`RecordTrue`), since a death puts the one in the place of the other, and every run that
ended or was replaced is named by its own record or by a newer one, in both
(`RecordsCover`).  That a replaced run whose promise settles later is covered already is
what makes the guard of finishRun() enough.  For the readers: the ring is a range of
numbers that ends at the newest (`RingWhole`), so the oldest part of it that an answer is
cut to is a range as well, and a reader that waits has nothing new in the ring it waits on
(`ReaderWaits`).

`ActivationHolds` is a state property, an operation that succeeded leaves a group that is
ready, and one of steps, a failed activation restores.  `Restorable` is what carries the
second: what there was before can be read off the notes of the moves, each package being
noted once (`NotedOnce`) and before it is touched, so the rollback undoes them in reverse,
one at a time.  `MovedIn` says what is in place at each point of a move, from which the
manifest that is written at the end names it.  A target is neither the mark of an absent
nor that of an invalid package (`GroupAssumption`).

`BootConverges` is about steps.  What makes a served database whole is what its version
number tells of it (`VersionTells`): from 3 on there is a ledger, from 6 on identifiers are text,
from 11 on the ledger takes the new state, from 12 and 13 on the last tables are there.  An older
release that boots in between lowers the number and so claims less.  A process migrates from the number
it read, which another may have raised meanwhile but none lowers while a process is up
(`BootedSoFar`); each migration keeps what the earlier ones made (`ComesAfter`) and adds what
its own number tells.  The generation of the key is inserted only where it is missing, and is
then zero (`Unseeded`).

### What stays with TLC

Every liveness property (`JoinersAnswered`, `WaitsEnd`, `HostStops`, `NegotiateSettles`,
`CallersAnswered`, `LastAdopts`): fairness and ENABLED are out of the prover's reach.  `NoLostWakeup`,
`RekeyKeepsKeyFile`, `SummariesForget` and the other properties of the violation runs, which
do not hold.  The others that are only
model-checked are `TypeOK` of the run `parts` where no theorem above states it,
`PagesKeepTheirWord`, `SummarizedOnce` and `InstallationStands`.  For these nothing is
claimed beyond the bounds of the run: weeks are gathered from days, which needs induction over
data, and for the others no inductive invariant is written down.

## 6. Findings

| Run | What happens |
|---|---|
| `transport_wakeup_lapsed` | An entry whose deadline passed while it waited keeps its past attempt time; schedulePump() then takes that time for the earliest one, finds it not in the future, and arms no timer for any other waiting entry. |
| `lease_contended` | A takes the fresh lease of B for the stale one it inspected, and holds it as a tombstone; C finds no lease and claims; A cannot put B's lease back. B and C both serve. |
| `lease_crash` | A process that dies between the removal of `owner.json` and of its directory leaves an empty lease on which every acquire() throws. With three processes the cleaning of tombstones does the same without a death during release. |
| `sleep_resume` | A resumed run skips the daily step that an earlier run settled and keeps its claims, but takes its own, later target: messages that arrived in between are passed by the watermark though nothing covered them. |
| `consolidation_gap` | When the oldest weeks of a long gap have no daily, the capped period is due again every night with no inputs, and the dailies behind it are never summarized. |
| `personal_summary` | A summary made over an `await` is written after a forget has completed and keeps the forgotten message. |
| `secret_rekey` | A passwd that died before its journal leaves a staged key; the next rekey, which stages none, makes it live, though rows were sealed with the old one. |
| `fresh_install` | The installer puts templates into `core/` before the first boot, which takes any file there for legacy content and marks the fresh memory legacy for good. |

## 7. Not modelled

Text and ranking (what prompts say, fusion of scores, rendering, matching of queries) have
no state machine worth checking.  Ciphers, signatures and archive formats are taken as
given, and so are JSON and frame encoding.  The outbox's migration from version 1 and
its quarantine of a corrupt file are left out: the program's atomic writes never
produce one.  The basic and native levels of sleep, and the proposals of the
steps other than extraction, are not looked into; `SleepNight` has those steps by their
outcome.  Beliefs, retention and sealed payloads of personal memory, the
client façade and the bridge (one call per method), hooks, the Python plugin and shell
glue are left out.  `components` in PROJECT.json says for each part what is missing.
