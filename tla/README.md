# Verification of the Euler agent runtime

Euler is a terminal coding agent written in TypeScript. This directory holds
TLA+ specifications of the parts of it that carry state across awaits, across
callers and across crashes, the TLC configurations that check them on small
instances, and TLAPS proofs of the most important properties for every size.
Paths below are relative to the repository's root.

## 1. The system

| Component | State | Operations | Interacts with |
|---|---|---|---|
| Agent and agent loop (`packages/agent/src/agent.ts`, `agent-loop.ts`) | transcript, steering and follow-up queues, pending tool calls, streaming message, error message, active run and its abort signal; inside a run: its own copy of the context, pending messages, the tool batch | `prompt`, `continue`, `steer`, `followUp`, `clear*Queue`, `clearAllQueues`, `abort`, `reset`, `waitForIdle`; the loop's events reduced by `processEvents` | asks a provider stream, runs tools concurrently, awaits listeners for every event |
| Session state (`packages/agent/src/harness/session/state.ts`) | entry tree, lanes, lane records with open operations, name, labels, sequence number | `applyMutation`, the validators, `findOpenOperations`, branches, `createForkMutations` | owned by a storage |
| In-memory storage (`session/memory.ts`) | one session state | `createLane`, `moveLane`, `appendEntry`, `appendRecord`, `setName`, `setLabel`, `fork` | harness, server |
| JSONL storage (`session/jsonl/storage.ts`, `codec.ts`, `errors.ts`) | session state, promise chain of writes, the session file, its `.tmp` sibling | the same writes, `load` with repair, `fork`, `create` | file system; repository |
| JSONL repository (`session/jsonl/repo.ts`) | a set of claimed create destinations | `create`, `open`, `fork`, `list`, `delete` | storage |
| Session views and context (`session/session.ts`, `session/context.ts`) | none of their own | projection of a branch to messages, with compactions | storage |
| Durable run log reducer (`harness/reducer.ts`) | folded state of a lane's records | validation and recovery verdicts | session log |
| Harness and event bus (`harness/agent-harness.ts`, `events.ts`) | subscriptions, watch buffers | `emit`, `watch` with snapshot, buffered events, reentrant flush | tools, session |
| File mutation queue (`harness/tools/file-mutation-queue.ts`) | per-file promise chain, registration chain | `withFileMutationQueue` | edit and write tools |
| Live sessions of the server (`packages/server/src/sessions.ts`, `server.ts`, `connection.ts`) | runtimes by id, attached connections, running operations, disposal and termination promises | `create`, `attach`, `detach`, operations, `terminate`, `maybeDispose`, `disconnect`, `close` | client over the protocol |
| Server snapshots (`packages/server/src/snapshots.ts`) | revision, subscribers, refresh in flight | `get`, `subscribe`, `invalidate` | live sessions, repository |
| Client and leases (`packages/client/src/*`) | connection state, pending requests, lease counts and generations, attachments, detachments and reconciliations in flight, stored snapshots | `acquireSession`, `release`, `connect`, `dispose`, dispatch of responses and events | server |
| Framing and codec (`packages/protocol/src`) | the undecoded tail of a byte stream | `push`, `encode` | transports |
| SQLite backend (`packages/session-backends/sqlite-node`) | tables of a session with a cache of its branches, writer leases with expiry and fence; in a process: active storages, their queues and heartbeats | the storage's writes under a lease, heartbeat, release; `create`, `open`, `fork`, `delete`, `repairBranchCache`, `close` | session storage interface; other processes through the database |
| Coding-agent session (`packages/coding-agent/src/core/agent-session.ts`) | the agent's messages beside the session's entries, retry and recovery counters, three abort controllers, deferred messages, idle waiters | `prompt`, `steer`, `followUp`, `sendCustomMessage`, `recordBashResult`, `abort`, `waitForIdle`, `compact`, `navigateTree`, automatic retry and compaction | agent, session files, extensions |
| Coding-agent session files, credentials, settings | files under locks | load, append, refresh | coding-agent session |
| Providers, TUI, extensions, telemetry, evals | – | network, rendering, wiring | – |

### What is hard here, and what makes each part correct

* **Agent loop.** JavaScript interleaves at every `await`: users steer, abort
  and clear queues between any two steps of the loop, the tools of a batch
  finish in any order, and a listener that throws unwinds the run wherever it
  is. Correct means: each message is delivered once and in order or is
  accounted for; the provider is asked with the transcript the user sees; tool
  results follow their calls in call order; truncated calls never run; a
  finished run leaves nothing shown as pending; every run settles.
* **Session storage.** A write is acknowledged after an append that may fail,
  stop half way, or be cut by a crash; loads repair the file they read, and a
  fork loads a file somebody else is writing. Correct means: an acknowledged
  write is never lost, a rejected one leaves no trace, memory and file agree,
  the tree never dangles or cycles, a lane never has two open operations, and
  a fork is complete or absent.
* **Live sessions.** Commands of several connections await openings and
  disposals of the same session; connections drop, runtimes fail and the
  server closes meanwhile. Correct means: one runtime of a session at a time,
  never disposed of under an operation, never leaked; control and events only
  for attached connections; every command answered; nothing left after a close.
* **SQLite backend.** Several processes share a database; a lease expires while
  its owner sleeps, its heartbeat waits behind a write, and somebody takes it
  over. Correct means: an unexpired lease is never taken, an owner that lost
  its lease never commits again, the branch cache always agrees with the
  entries, and a session changes only as the in-memory storage would.
* **Client and leases.** Several leases share one attachment. A lease's detach
  races with the next attach, a failed release has to be reconciled before the
  session is leased again, and the connection may go at any moment. Correct
  means: the count is the number of leases, attach and detach requests of a
  session never overlap, an active lease is attached at the server, nothing
  stays attached that nobody holds, and every call settles.
* **Coding-agent session.** The agent's messages are changed by the run, by a
  retry, by two kinds of compaction and by a move in the tree, each across
  several awaits during which anybody may call. Correct means: the messages
  are the ones the session would be rebuilt to, a tool result stays with its
  call, retries and recoveries end, and whoever waits for idle is woken.

The complete list, each hazard at its line with the properties that cover it
or the reason none does, is `hazards` in `PROJECT.json`.

## 2. Modules

| Module | Models |
|---|---|
| `AgentLoop` | `Agent` and `runLoop` together: one module, because the loop reads the agent's queues and signal and the agent reduces the loop's events |
| `AgentLoopProofs` | theorems about `AgentLoop`: types, the context a request is made with, what the transcript holds |
| `SessionState` | the pure part of a session: mutations, validation, effect, branches, forks; no variables |
| `MemoryStorage` | `InMemorySessionStorage`, and the abstract specification of any session storage |
| `SessionStateProofs` | lemmas about mutations, replay, branches and forks that the proofs about storages share |
| `MemoryStorageProofs` | theorems about `MemoryStorage` |
| `JsonlStorage` | `JsonlSessionStorage` with the file as text, crashes, repairs and forks; implements `MemoryStorage` |
| `JsonlStorageProofs` | theorems about `JsonlStorage`, its refinement of `MemoryStorage` among them |
| `SqliteStorage` | repositories and storages of the SQLite backend in several processes, with leases and the tables |
| `SqliteRefinement` | any one session of the database implements `MemoryStorage` |
| `SqliteStorageProofs` | theorems about `SqliteStorage`: writer leases, the derived tables, and that refinement |
| `LiveSessions` | `LiveSessionManager` and the part of `PiServer` that receives commands, disconnects and closes |
| `LiveSessionsProofs` | theorems about `LiveSessions` |
| `ClientLeases` | the client's leases of one session, its connection and its microtask queue, with the server's side of that connection |
| `ClientLeasesProofs` | theorems about `ClientLeases` |
| `CodingSession` | `AgentSession`: a coding agent's session around one `Agent`, with the context projection and cut points of compaction |
| `CodingSessionProofs` | theorems about `CodingSession` |
| `MCAgentLoop`, `MCMemoryStorage`, `MCJsonlStorage`, `MCSqliteStorage`, `MCLiveSessions`, `MCClientLeases`, `MCCodingSession` | the sets and symmetries that the configurations instantiate |

### AgentLoop

*Granularity.* The code between two awaits is atomic, so it is one action; code
that reads what another actor writes (the abort signal, the queues, the tools'
progress) starts an action of its own. `pc` names the await the loop is
suspended at. An event is reduced into the agent's state synchronously by
`processEvents` before its listeners run, so an `Emit...` action is the
reduction, the listeners, and the local code up to the next await.

*State.* `activeRun`, `aborted`, `messages`, `steeringQueue`, `followUpQueue`,
`pendingToolCalls`, `streamingMessage`, `errorMessage` are the fields of
`Agent`; the last three are reduced to what is observable of them (which calls,
and whether there is a message). `context`, `pendingMessages`, `prompts`,
`hasMoreToolCalls`, `addedPartial`, `message` are locals of the loop; `mode`,
`idx`, `res`, `tool` describe `executeToolCalls`. `base`, `ended`, `discarded`
and the counters are bookkeeping and guard nothing in the code's behaviour but
the bounds. A message is its role, an id, how it came about and its number of
calls or the index of the call it answers.

*Actions.* `steer`, `followUp`, `clearSteeringQueue`, `clearFollowUpQueue`,
`abort`, `reset`, `prompt`, `continueSteering`, `continueFollowUp`,
`runContinuation` are the public methods (`continue` has three outcomes).
`runWithLifecycle` starts a run; `EmitAgentStart` to `EmitAgentEnd` walk the
loop; `Request`, `EmitStreamStart`, `EmitStreamUpdate`, `StreamFinish` are
`streamAssistantResponse`; `EmitToolStart` to `BatchDone` are the three forms
of `executeToolCalls` (parallel, sequential, and the answers to calls of a
truncated response); `ExecutedTool(c)`, `EmitToolUpdate(c)`, `EmitToolEnd(c)`
are the concurrent tool executions; `EmitFailure...` is `handleRunFailure`,
`FinishRun` is `finishRun`.

*Faults.* `"listener"`: any listener may throw on any event. `"provider"`: the
stream function may throw instead of returning an error message. Aborts need
no fault; they may happen in every state of a run.

### SessionState and MemoryStorage

`SessionState` is `state.ts` as operators on a record: `ValidMutation` has the
conditions under which `applyMutation` throws, `applyMutation` its effect, the
`validate...` operators the checks the storages make first. Payloads,
timestamps and token statistics are dropped; entry and record types are kept
where the code branches on them. `openOperationsByLane` is the set of open
start ids of each lane. `createForkMutations` is translated step by step
(entries from the root, lanes, name, labels, renumbered).

`MemoryStorage` has one action for each write of the storage interface; each is
synchronous in `memory.ts`, so each is one step: the storage's own check, then
`applyMutation`, which checks again (`Apply` has both). A call that throws
changes nothing and is a stutter.

### JsonlStorage

*The file* is a sequence of pieces: a line is two halves and a newline, so a
write can stop after nothing, inside the JSON, after the JSON and after the
newline, which are the four cases `load` tells apart. `parseMutation`, `Split`
and `isTornTail` are what `load` does with the text; nothing about a line is
known except by parsing it.

*The writer.* `enqueue` chains a write on `this.tail`; `StartAppend` or
`Reject` is the synchronous part of the head of the chain, checked when it
runs, not when it is submitted; `WritePiece` is the operating system;
`Acknowledge` and `AppendFails` are the two continuations of `appendFile`;
`Crash` may happen in every state.

*Loads.* `open` and `fork` run `load`: `ReadFile` reads, parses and replays;
`OpenTemp`, `WriteTemp`, `Publish` are `publishFileAtomically` of the repaired
text; `Terminate` adds a missing newline; `RepairFails` is an error of any of
them. A rename takes the file out from under an append that has begun
(`orphaned`) and from under another load's handle (`handle`). After its load,
`fork` appends its copy to a temporary file of its own, a mutation a step
(`AppendCopy`), and renames it (`PublishFork`); it may fail or be interrupted
by a crash after each of them.

*Faults* are a constant, so that each run says what the environment may do:
`"append"`, `"partial"`, `"repair"`, `"overlap"`, `"torn read"`; their meaning
is beside the constant in the module.

### LiveSessions

*State.* `stage` and `sessionIds` are the fields of a `ConnectionState`
(`"closing"` also stands for a transport that is closed and not yet noticed);
`live` has the `LiveSession` objects, each named after the command that opened
it, with the phase and the life of its runtime; `liveSessions` and
`openingSessions` are the manager's maps; `command` says at which await each
command is: an opening (`"attach"`), a disposal that acquire waits for
(`"disposal"`) or that detach and attach wait for (`"release"`), a snapshot
(`"detach"`), an operation. `terminator` and `closer` are the positions of
`terminate` and of `PiServer.close`. `"aborting"` is the `dispose()` inside a
failed `create`.

*Actions.* `attachCommand`, `acquireAgain`, `attach` and `Released` are the
commands create and attach, cut at their awaits; `detach` and `detachEnds`,
`runOperation` and `operationEnds` the others. `RuntimeAcquired`,
`RuntimeStarted`, `StartFails`, `OpeningFails` are `create`;
`RuntimeDisposed` is the end of `maybeDispose`'s promise; `RuntimeIdle`,
`handleRuntimeEvent` and `terminate` are runtime events; `ConnectionCloses`
and `Disconnect` are transports that end, for whatever reason; `close...` is
the shutdown. A command that is rejected at once changes nothing and is a
stutter.

*Continuations.* An action may be delayed for as long as TLC likes, also where
only a few microtasks separate it from the step before in JavaScript (`attach`
after an acquire that found an open session). The model allows more than the
program there. In one place this matters: with `"close"` in `LiveShared`, a
continuation delayed through the whole shutdown would open a second runtime
while the first is being disposed of, so exclusivity is checked without the
shutdown and the shutdown has a run of its own. Removing the entry of
`openingSessions` is part of the step that opens the session, because
`acquire` looks at `liveSessions` first. A rejected `dispose()` ends
`PiServer.close` early; the run that closes does not have one.

*Events* are a constant: which runtime failures, runtime events and whether a
shutdown may happen; commands and dropped connections always may.

### SqliteStorage

*Granularity.* Every transaction is `BEGIN IMMEDIATE` and synchronous, so it is
one step that sees the committed state; a transaction that throws rolls back
and changes only what is outside the database. A fork reads its source in
separate statements (`forkReads`), between which another process may commit.
The entry, the cached branch and its rows are one of these reads, because none
of those rows changes once it is there; a repair or a deletion may take them
away in between, and the fork throws (`BranchIsLost`).
Calls on a storage go through its queue, calls on a repository through its own.

*State.* `db` has the sessions that exist; `db[s]` has the rows of one: entries, record ids, lanes with the
open operation, facts (names and labels), the branch cache (`branches`, `tips`)
and the counters. `leases` is `writer_leases`. `storages` has the active
storages of all processes by owner id, each with its queue, its heartbeat, its
fence and its `leaseError`; `task` is what a repository's queue is doing.
`lastClaim`, `lastWrite` and `validUntil` are history for the properties.

*Actions.* `writeCommits`, `leaseIsLost` and `writeFails` are the three ends of
a write under a lease; `heartbeatFires`, `heartbeatRuns`, `heartbeatFails` the
timer and what it queues; `releaseRuns`, `releaseFails` the release. `create`,
`open`, `release`, `delete`, `repairBranchCache`, `close`, `beginFork`,
`forkReads`, `fork` are the repository. `crash` ends a process in any state,
`tick` advances the clock the processes of a machine share.

*Mapping.* `View` is what the readers of the storage make of the tables;
`ImplementsMemory` says that a session behaves as a `MemoryStorage` under it
from its creation to its deletion. Which session is the constant `session` of
`SqliteRefinement`; the run takes the one that is written.

### ClientLeases

*Granularity.* The client is one thread with promises. A settled promise queues
its reactions; `jobs` is that queue, `RunJob` runs its head, and a call of the
user is handled when it is empty. The messages of one chunk of input are
handled in a loop before any reaction runs (`connection.ts:156`), so a message
may also be handled while the queue has nothing but the settlements that the
messages before it caused (`NoReactionRan`). Where a caller
awaits a promise derived from a request, the reaction is registered on that
request (`Send`, `Join`).

*State.* `count`, `exclusive`, `generation`, `attachment`, `detachment`,
`reconciliation`, `cleanupRequired`, `attached` and `revision` are the maps of
the client at one session; `handles` says how far each call of
`acquireSession`, or the lease it returned, is. `server` is what one connection
sees of `LiveSessions`: whether it is attached, the request being served, the
prompts in progress and the runtime's revision.

*Actions.* `Acquire` is `acquireSession` up to its first await, `Release` is
`release` with and without `relinquishOnFailure`, `Prompt` a request that keeps
the session busy; `Connect`, `Handshake`, `LoseConnection`, `Dispose` the
connection. `SettlePromise` and the `After...`, `CatchDetachment` and
`ReleaseFailed` operators are the continuations. `Receive` handles a response
or a snapshot, which counts only when its revision is not older.
`Serve...` and `Answer...` are the server.

*Faults.* `"open"`, `"snapshot"`, `"detach"`: the server fails before or after
it did what was asked. `"restart"` and `"reentrant"` are discussed under
findings.

### CodingSession

*Granularity.* A handler of `AgentSession` is cut at its awaits: `pc[p]` says
where call `p` of `prompt()`, or of a message that triggers a turn, is. The
agent loop, which `AgentLoop` has in detail, is reduced to turns: a response,
one tool call and its result, the end of a turn at which the queues are polled.

*State.* `branch` is the session from its root to its leaf, `messages` is
`agent.state.messages` as positions of that branch, so that the two can be
compared. `active`, `lastAssistant`, `retryAttempt`, `recovered`, `ctl`,
`pending` and `waiting` are fields of `AgentSession`. `tries` counts retries
and recoveries of a turn for the properties: since a message was delivered or
answered, or a retry was aborted. The context of a branch is the set of its
entries from the latest cut point on (`contextStart`, `ContextEntries`), put in
order by rank, which is what makes it possible to prove how it grows.

*Actions.* `Prompt`, `Submit`, `Authorize`, `Build`, `BeforeAgentStart` are the
preflight; `RunAgentPrompt`, `TriggerTurn`, `Respond`, `ToolResult`, `EndTurn`
a run; `HandlePostAgentRun`, `CheckCompaction`, `Backoff`, `Continue`,
`Finally` and `ResolveIdleWaitIfIdle` what follows it; `CompactAuth`,
`CompactSummary`, `CompactEvent` the automatic compaction, `Compact` and
`Manual...` the manual one; `NavigateTree` and `Navigated` the move in the
tree. Other calls (`Queue`, `clearQueue`, `sendCustomMessage`,
`recordBashResult`, `setSessionName`, `AbortRun`, `WaitForIdle`,
`abortCompaction`) may come in every state.

*Data.* A response is the way it ended: an error worth a retry, an overflow, a
fatal error, an abort, a tool call, a stop, or cut by its length, which
compaction may recover from (`"length"`) or not (`"limit"`), with a tool call
or without one (`"lengthCall"`, `"limitCall"`; the call is answered with an
error and the loop goes on). A tool may end the run with its result
(`terminate`, a choice of `EndTurn`), and an extension may handle an input
itself, so that no run begins (`Submit`).
Token counts are left out, so whether the threshold is passed and where
`findCutPoint` stops are choices among the points the code permits.

## 3. Runs

Every run finishes within four minutes on two workers. Deadlock is not an error: the bounds
on submissions end every behaviour, and an idle agent, storage, client or
session may stay idle.

| Run | Instance | Shows |
|---|---|---|
| `agent_queues` | 3 messages, 2 runs, no tools, both queue modes chosen at every drain, throwing listeners | `DeliveredOnceInOrder`, `NoMessageLost` |
| `agent_tools` | 1 message, 2 runs, 2 batches of at most 2 calls, parallel, sequential and truncated, throwing listeners | `TypeInvariant`, `RequestSeesTranscript`, `ToolResultsFollowCalls`, `RequestHasAllResults`, `TruncatedCallsNeverRun` |
| `agent_settles` | 2 messages, 2 runs, 1 batch of 2 calls, a throwing provider, fairness | `AgentEndIsLast`, `RunSettles` |
| `session_storage` | 3 ids, 2 lanes, 5 writes of every kind | `StateTyped`, `TreeIsSound`, `OneOpenOperation`, `ForkReproducesBranch` for every fork option in every state, `EntriesAreImmutable` |
| `jsonl_storage` | 3 writes, 2 crashes, 1 fork, failing appends and repairs, fairness | `AcknowledgedIsDurable`, `MemoryMatchesFile`, `ForksAreComplete`, `ImplementsMemoryStorage`, `WritesSettle` |
| `sqlite_leases` | 2 processes, 1 session, 3 storages ever opened, a lease of 2 ticks with a heartbeat each tick, 3 ticks, crashes, deletion and re-creation | `SqliteTyped`, `LeaseIsKept`, `WritesAreFenced` |
| `sqlite_content` | 2 processes, a session of 4 writes that branches, labels and opens operations, and a fork of it by the other process | `DerivedTablesMatch`, `ImplementsMemory` |
| `live_shared` | 1 session, 2 connections, 3 commands, every runtime failure and event | `RuntimesAreExclusive`, `UnusedIsDisposed` |
| `live_close` | the same with a shutdown at any moment and no failures, fairness | `CommandsSettle`, `CloseReleasesAll` |
| `client_leases` | 3 acquisitions shared or exclusive, 3 requests, 1 reconnection, failing attaches and detaches, fairness | `ClientTyped`, `LeasesAreCounted`, `RequestsAreSerial`, `ActiveLeasesAreAttached`, `NothingLeftAttached`, `CleanupComesFirst`, `CallsSettle` |
| `coding_session` | 2 prompts, 1 retry, 1 tool call, 3 failures or overflows, 2 further calls of any kind at any await, at most 4 of prompts, failures and calls together | `SessionTyped`, `StateMatchesSession`, `ToolResultsAdjacent`, `AttemptsAreBounded`, `WaitersAreWoken` |
| `coding_continue` | 1 prompt, 2 failures | violation: `agent.continue()` is rejected after a compaction that announced a retry |

*Bounds.* Three messages are the least that let one be delivered, one be
drained and one be queued at once; two runs let a message survive from one run
into the next; two calls are the least that can finish out of order and two
batches the least that let a request follow a batch. Three ids and two lanes
give a branch point and two leaves; three requests with two crashes give a
crash, a repair that fails or is itself interrupted, and a write after both.
Sessions of the server share no state but the connections, so one is enough;
three commands are the least in which one opens it, one overlaps its use and
one meets its disposal or reopens it. Three storages of two processes give an
owner, one that takes over and one that comes after a deletion; four writes
give two branches, one of them copied in the cache. Three handles of a client
are one that is releasing, one that joins and one that comes too early. Two
failures are what a retry followed by a recovery takes and the third is the
one too many, and two further calls
let one prepare what the other meets (a queued message and an abort, a
compaction and a move in the tree); the bound on all of them together keeps
every combination of four.
Every property of a passing run is broken by at least one mutation of the
model that a plausible bug would be (`mutants` in `PROJECT.json`; the mutated
operators stand above the originals, marked "Mutant").

*Two properties in more detail.* `ForkReproducesBranch`
compares the replayed fork with what the options ask for, stated apart from
the code (`AskedLeaf`): the leaf, the entries, their parents, types and labels,
the lanes and the name. `CallsSettle` says that every `acquireSession` ends,
also when the connection is lost while it waits; a release that fails after
its lease was invalidated leaves the lease's state as it was, so there it says
that nothing of the call is left to run.

*Fairness.* `AgentLoop`: weak fairness of the loop (the event loop resumes
every settled continuation, and a provider stream ends) and of each tool
(a tool's promise settles). Nothing is assumed of users or listeners.
`JsonlStorage`: weak fairness of the promise chain, of the operating system's
writes and of their completion. A crash, a failure, a load or a caller is
never obliged to happen.
`LiveSessions`: weak fairness of each command (the event loop resumes settled
continuations), of each runtime (it answers, and work it began ends), of
noticing a closed transport and of the shutdown's own steps. Nothing is
assumed of clients, errors or the owner of the server.
`ClientLeases`: weak fairness of the microtask queue, of receiving what the
connection delivers, and of the server's answers, which `CommandsSettle` of
`LiveSessions` is about. Nothing obliges the user to call, the connection to
stay or to be lost.

## 4. Findings

One disagreement between the code and what it says of itself has a `violation`
run with a short trace (`coding_continue`; the details are under `findings`).
A request fails and is retried; the retry overflows the context. The failed
response was taken from the agent's messages only and is still in the session,
so the compaction that is to recover the turn brings both failed responses
back. One is removed, as the comment at `agent-session.ts:2363` intends; the
other is then last, and `agent.continue()` rejects it.

The configurations below are not runs of their own. Each is one of the
project's with the stated change, and TLC finds the property violated.

| Configuration | Change | Violated | What happens |
|---|---|---|---|
| `AgentSettles.cfg` | `Faults = {"listener"}` | `AgentEndIsLast` | a listener that throws while handling `agent_end` makes `handleRunFailure` emit four more events, a second `agent_end` among them (`types.ts:424` calls it the last event) |
| `JsonlStorage.cfg`, `Spec` | `Faults = {"append", "partial"}` | `AcknowledgedIsDurable`, `MemoryMatchesFile` | an append that fails after part of its line leaves the storage open, and the next acknowledged write continues that line |
| `JsonlStorage.cfg`, `Spec` | `Faults = {"overlap"}` | `AcknowledgedIsDurable` | two loads repair a torn tail through the same `.tmp` file, although `publishFileAtomically` asks callers to serialize |
| `JsonlStorage.cfg`, `Spec` | `Faults = {"torn read"}` | `AcknowledgedIsDurable` | `fork` reads an append in flight, takes it for a torn tail and renames a file without it over the session |
| `LiveShared.cfg` without symmetry | 3 connections, `MaxCommands = 4`, `Events = {}` | `ControlIsAttached` | `attach` does not look at the session again after `acquire` (`sessions.ts:300`): the connection that opened it has closed and begins its disposal, and a second waiter is attached to what is being disposed of |
| `SqliteContent.cfg` | `Deletable = {source}` | `DerivedTablesMatch` | a tree fork whose source another process deletes between two of its reads commits entries without lanes and branches (`repo.ts:813`) |
| `ClientLeases.cfg`, `Spec` | `"restart"` added to `Faults` | `ActiveLeasesAreAttached` | a runtime that was disposed of counts revisions from the start again; its snapshot is older than the stored one and is ignored with the attachment it reports (`state.ts:108`) |
| `ClientLeases.cfg`, `Spec` | `"reentrant"` added to `Faults` | `LeasesAreCounted`, `RequestsAreSerial`, `ActiveLeasesAreAttached`, `CleanupComesFirst` | a user's own continuation calls `acquireSession` or `release` between two reactions of the client, when a failed release has not been recorded yet; the first is transient |
| `CodingSession.cfg` | `Overlap = TRUE`, without `"navigate"` | `SessionTyped`, `StateMatchesSession`, `ToolResultsAdjacent` | a turn is triggered, or a prompt sent, while another prompt is in its preflight: the second `agent.prompt()` throws, its `finally` marks the session idle under the first run, and messages are no longer deferred |

Two exceptions are written into the client's properties. After the server
failed a detach that it carried out, a lease that joined meanwhile may be
unattached (`DetachFailed`); after it failed an attach that it carried out,
nobody detaches (`AttachFailed`): the client takes either answer at its word.

Smaller observations made while modelling, without a property:

* SQLite: a fork may copy a label whose entry was appended after the entries
  were read, and an append between its reads makes it fail on a branch tip.
  The expiry a storage keeps in memory is advanced even when the renewing
  transaction rolls back; nothing reads it. `claimSession` (`repo.ts:706`)
  hands out an active storage whose lease is already lost.
* Coding agent: `isIdle` is documented as "no active agent run, retry,
  auto-compaction" and is true during the compaction before a prompt.
  `prompt()` looks for a manual compaction before its awaits and not after
  them. `navigateTree` asks only whether a run is streaming. `abort()` does
  not cancel an automatic compaction, and goes on with queued messages. A
  custom message flushed after a failed response keeps the response in the
  context of its retry.

## 5. Proofs

Proved with TLAPS for all values of the constants, from the named assumptions
only: the constants are natural numbers and finite sets where the code has
them so, `None` is none of the other values, the heartbeat interval is
positive and below the lease time (`repo.ts:118` refuses others), and the
configured faults are the named ones. A theorem that needs more says so in its
ASSUME, and the text below repeats it. There are 37 theorems, resting on 620
lemmas. Every safety property of a passing run, invariant or action property,
is stated by one of them; so are both refinements of `MemoryStorage`.

**`AgentLoopProofs`** (`TypeCorrect`, `RequestsSeeTranscript`).
`RequestSeesTranscript` speaks of one position of the loop only. The inductive
invariant `IndInv` adds the types, `Positions` (the queue being emptied is not
empty, batch indices are within the batch) and `ContextAgrees`: at every
position, what the loop's context has and the transcript has not yet, or the
reverse: unsent prompts before the first turn, the partial message while
streaming, the finished message until its end event, and the results of a
batch, which reach the transcript one by one and the context together at the
end. `TypeStep`, `PositionsStep` and `ContextStep` have one step for each of
the 49 actions. Above that invariant:
* `DeliveredInOrder`, `NothingLost`: the loop's steps are reduced to seven
  moves between `Line` (the transcript, then what the run has taken and will
  deliver) and the two queues (`LineStep`); `DeliveryInv` says that the line
  and each queue are in the order of submission, that the line is older than
  the queues, and that every number given out is in one of them or discarded.
* `ResultsFollowCalls`, `NeverRunTruncated`, `RequestsComplete`: `BatchInv`
  follows a batch from the message that asks for it to its last result: which
  message it belongs to, that its number is its own, how the two indices of
  the three kinds of batches go together, and that every earlier call of a run
  that is not aborted is answered.
* `AgentEndLast`, for listeners that do not throw (it is false for others, see
  findings): a run that reports its end has no tool left that could report.

**`SessionStateProofs`** has lemmas only, shared by the three storages.
`Good(s)` is what every session satisfies: the entries are a forest whose
parents are older than their children, each entry with a number of its own, no
number above the session's, ids used once, lanes and labels pointing at
entries. A mutation that `ValidMutation` accepts keeps it, so a storage only
has to show that it writes such mutations. The second half is about recursive
functions. The library's induction theorems take an operator, which the
provers here cannot instantiate; `Induction` says the same of a set of numbers,
from the least one outside it. With it, `Replay`, `Branch` and `Among` get one
induction each that turns the definition into equations for one element more,
and the rest uses the equations. From them: `Branch` is the one chain from a root to the entry, and
replaying `createForkMutations`, prefix by prefix (`Rebuilt`), rebuilds exactly
the branch or tree it was made from.

**`MemoryStorageProofs`** (`StateAlwaysTyped`, `TreeAlwaysSound`,
`AtMostOneOperation`, `EntriesNeverChange`, `ForkAlwaysReproduces`).
`TreeIsSound` is not inductive: a new entry could be as old as its parent or
replace one if entries were not known to be old and their ids used, which is
what `Good` adds. `ForkAlwaysReproduces` is for every fork option in every
reachable session: what is replayed has the leaf the options select, exactly
the entries above it or all of them, each with its parent, its type and its
label, the lanes and the name, and no open operation.

**`JsonlStorageProofs`** (`AcknowledgedAlwaysDurable`,
`MemoryAlwaysMatchesFile`, `ForksAlwaysComplete`,
`JsonlImplementsMemoryStorage`), for any requests and any number of crashes,
failed appends, failed repairs and forks, assuming `CleanFaults`: appends fail
before they write, loads do not overlap and no load reads in the middle of a
write. Without it the theorems are false: each of the three faults it
excludes violates an invariant (section 4). The invariant has four parts.
`FileIsSound`: the complete lines of the file replay to a good session, and
what follows them is nothing, one half or both halves of a line that would
replay too. `WriterIsSound`: how far the running append got, and that memory
is the session without it. `LoadsAreSound`: a repair under way is one of what
the file still has, and the sibling file it will rename is complete before it
does. `CountsAreSound` keeps the abstract sequence number within its bound.
`Split`, `FlattenSeq` and the encoding of a file get their equations by the
same inductions as above. For forks, `ForksAreSound` says that a copy is that
of a session the source's file had, and `WrittenGrows` that no step makes the
file lose or change an entry, so it stays true while the source is written.
The refinement maps the file to the session a caller would find by loading it.

**`SqliteStorageProofs`**.
* `AlwaysTyped`, `LeaseNeverTaken`, `OneWriterAtATime`, `StaleWritesFenced`:
  `LeaseIsKept` is nearly inductive: a storage whose committed expiry is still
  to come owns the row, so neither a claim, which needs the row to be absent or
  expired, nor a renewal, which needs to own it, can be another storage's.
  Beside the shapes it takes what a running fork remembers, and for the
  fencing that a row's owner is the last that claimed the session: the fence
  number alone would not do, because a released row starts again at 1. That no
  two owners of a session are unexpired at once is a consequence that no run
  lists.
* `DerivedAlwaysMatch`, assuming that no session that is forked may be deleted
  (it is false otherwise, see findings): `GoodTables` says that a cached branch
  is the one set of entries from a root down to its tip (`Path`, unique by
  `PathIsOne`) and that every entry is on one (`YoungestExists` gives the tip).
  Appending to a tip extends its branch; appending inside copies the part of a
  branch that leads there (`PathThrough`). A fork under way has only read rows
  that its source still has, with their parents (`ReadSoFar`); when the tips
  it read are all among those rows nothing it copies is missing
  (`NothingMissing`), and otherwise it fails. Both survive writes to the
  source because writes only add entries.
* `SqliteImplementsMemory`, from the same assumption: the copy of a deleted
  source may have a lane at an entry it lacks, to which SQLite would append and
  `applyMutation` would not. `ShapeInv` has the shapes of the tables and what a
  running fork read; with the tables good, a write that is admitted on a
  session is one that a `MemoryStorage` of what its readers see admits
  (`AcceptsPermits`), and leaves what that one would, field by field
  (`WriteSeen`); every other step leaves a session's readers what they saw or
  creates it. The refinement is about one session, `session`, a constant of
  `SqliteRefinement` that may be any of them.

**`LiveSessionsProofs`** (`OneRuntimePerSession`, `NothingLeftUnused`,
`CountsNeverDrift`). The invariant is how the two maps of the manager and the
`LiveSession` objects name each other (`OpeningsMatch`, `LiveMatch`,
`OneOrTheOther`), that a session's flags follow its runtime, and which object
a waiting command is about. It holds until the server closes; from then on the
maps let go of sessions whose runtimes are still being disposed of, so the
first and the third theorem say so, and `UnusedIsDisposed` asks for nothing
then, because `maybeDispose` does nothing either; that the shutdown releases
everything is `CloseReleasesAll`, which the run `live_close` checks.

**`ClientLeasesProofs`**, for user code that does not call in between two
reactions of the client (with such calls `CountsAreRight`,
`OneRequestAtATime`, `CleanupAlwaysFirst` and `LeasesStayAttached` are false,
see findings).
* `ClientAlwaysTyped`, `CountsAreRight`, `OneRequestAtATime`,
  `CleanupAlwaysFirst`: the argument is about the microtask queue. At most the
  newest request is unsettled (`OneUnsettled`), and the reaction that settles
  it stands last in the queue. Every acquisition under way has exactly one
  reaction, queued or registered on that request (`NobodyForgotten`,
  `OneReactionEach`, `HandlesBacked`), and a reaction's lease is of the current
  generation unless the connection is gone. Reactions of different kinds stand
  in the queue only in a fixed order (`JobsOrdered`): a failed detachment is
  caught by the acquisitions before the release records it, and they resume
  after that. The stored promises are those of the unsettled request or are
  cleared by the reaction at the head (`PointersFit`), and at most one command,
  command being served or answer of it is on its way (`WireFits`). Between two
  reactions an unsettled request is pending, which is what lets a call or an
  answer be treated alone.
* `NothingStaysAttached`: `HeldInv`, above that invariant. An answer on the
  wire separates what the server said before it took effect from what it says
  after it (`AnswersFit`), a queued reaction of a request that succeeded tells
  what the server has (`JobsTell`), and as long as the server is attached a
  lease counts, a cleanup is required or an attach was failed
  (`SomebodyAnswers`).
* `LeasesStayAttached`, also assuming that no runtime comes back with an older
  revision (it is false otherwise: `state.ts:108` ignores the answer to the
  attach, see findings): `ViewInv`. Revisions on the wire only grow, so no
  answer is too old to count (`RevisionsFit`); what the client believes, and
  what any snapshot on its way says, the server goes on saying, unless a
  detach is under way or was failed (`ViewFits`).

**`CodingSessionProofs`** (`SessionAlwaysTyped`, `StateAlwaysMatches`,
`ResultsStayAdjacent`, `AttemptsStayBounded`, for hosts that do not overlap
their calls; `WaitersAlwaysWoken` for all). The lemmas of the first part say
how the context of a branch changes when an entry is appended, when it is
compacted at a valid cut point, and when the branch is cut by a move.
`Matches` is what `StateMatchesSession` says of a branch and a list of
messages, strengthened: a failed response that the messages lack has no result
after it, which is what keeps a call cut by its length, and answered, in both.
`Exclusion` says which of run, preflight, manual compaction and navigation
exclude each other; `Transcript` what branch and messages satisfy at each
await, such as that a cut point chosen before the summary was awaited is still
one after it; `Attempts` that a run that goes on without a new message has an
attempt left. The proof found the history behind `AttemptsAreBounded` wrong
beyond the bounds of the run of that time: an aborted retry resets the code's
attempts, so one that is aborted and resumed may be retried again. The history
variable now starts again there, and the run has the failures to see it.

Only model-checked: the five liveness properties (`RunSettles`,
`WritesSettle`, `CommandsSettle`, `CloseReleasesAll`, `CallsSettle`), which
need fairness and `ENABLED`, out of this prover's reach; and `ContinueAccepted`,
which is violated.

## 6. Not modelled

* Assignments to `agent.state` between runs; what hooks such as
  `prepareNextTurn`, `transformContext` and `beforeToolCall` compute (their
  outcomes are choices where they steer the loop); the event-stream wrapper
  `agentLoop`.
* Read queries of a session that change nothing; token statistics; payloads.
* The JSONL repository's `create`, `delete` and `list`: single file operations
  around a set of names in memory. `create` is the initial state.
* Starting the server, the handshake and its timeout, `list`, and what
  snapshots and responses say; connections of `LiveSessions` are ready.
* SQLite: the history of lane moves and the contents of records, which only
  queries read; `list`, search and migrations; an `open` that overlaps `close`
  of the same repository.
* Client: `createSession`, the `session_removed` event, and more than one
  session (sessions share nothing but the connection).
* Coding agent: an extension that awaits between a message's push to the
  agent's messages and its append to the session (`agent-session.ts:646-671`);
  `Push` does both at once. Meanwhile the run is active, so custom and shell
  messages are deferred, a move in the tree is refused and a compaction waits:
  only entries that are not messages can come in between. A throwing listener
  is `AgentLoop`'s subject. `shouldStopAfterTurn`, which the coding agent never
  sets.
* Coding agent: the copies of the queues that a host displays, compactions and
  tree summaries an extension provides, moves to another branch of the tree
  (moves within the branch are modelled), changes of model or thinking level,
  `dispose`, the runtime that replaces one session by another, token counts,
  and the session file itself.
* The durable run log reducer has no writer in the repository, and the
  harness's operations throw `HarnessNotImplemented`: there is no behaviour of
  the program to model yet. The file mutation queue, the framing decoder and
  the schemas are sequential.
* Providers, tools' inner workings, text transformation, the TUI, extensions,
  telemetry and evals: input and output or rendering, without shared state a
  model would say something about. They are most of the repository's lines.

## 7. What remains

Nothing that a run checks as a safety property is left without a theorem.

* Liveness stays with TLC, at the bounds of the runs that check it.
* The exclusions that theorems name (`CleanFaults`, no deletable fork source, no
  throwing listener, no reentrant calls, no restarted revisions, no
  overlapping calls of a host) leave out what section 4 shows a violation of.
  Each can go when the code is changed there, and the proof then says whether
  the change is enough.
* A second session of the client, and the JSONL repository's `create` and
  `delete` beside its storages, would be the next things to model.
