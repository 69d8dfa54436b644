# A TLA+ verification of the Handrail AI assistant SDK

The SDK (`src/src`) lets an application run AI conversations whose turns survive
crashes, can be stopped from anywhere, pause for human approval, and execute
approved tool calls once.  This directory models the parts of it where those
promises are made: what is checked here is what several processes, several
requests and several stores do to each other, which unit tests hardly reach.

Each module is a translation of the code, await by await: a step of a model is
what the code does between two awaits that another actor can observe.
`PROJECT.json` maps every definition to its source lines.

## 1. The system

| Component | Source (`src/src/`) | State it keeps | Operations | What is hard about it |
|---|---|---|---|---|
| Durable application transport | `transports/durable.ts` | one versioned record per turn; per process: `running` map, `workersStopped`, the locals of each `run()` | startTurn, resumeTurn, cancelTurn, cancelTurnBeforeStart, resumeApprovalTurn, recoverTurn / recoverPending, stopWorkers | leases, takeovers, `Promise.race` leaving zombie fibers, Stop racing admission, retry budget |
| Application delegate | `transports/application-turn.ts` | the process-local `active` map | startTurn, cancelTurn | it knows only its own process |
| Durable turn store | `durable.ts` (in memory), `postgres/index.ts` | versioned documents | load, create, compareAndSet, recovery scan | optimistic concurrency, lost answers |
| Approval proposals | `conversation/approval-proposal-store.ts`, `postgres/index.ts` | status and version of each proposal, idempotency records | create, get, transition | idempotent retries, eviction |
| Decision coordinator | `conversation/approval-coordinator.ts` | none | decide, decideGroup | transition and audit event are two steps |
| Execution coordinator | `tools/approval-execution.ts` | none | claim, settle | the same, plus repair by any other request |
| Tool executor and ledger | `tools/executor.ts`, `postgres/index.ts` | admissions and results of tool calls | execute, lookup, getOrExecuteTool | at-most-once external effect |
| Conversation event store | `conversation/event-store.ts`, `postgres/index.ts` | the append-only event log | append, read | expected revision, exact retries |
| Synchronisation coordinator | `sync/coordinator.ts`, `sync/event-store-adapter.ts`, `sync/persistence.ts` | authoritative and optimistic state, pending mutations, saved state | start, queueMutation, flush, catchUp, snapshot, reconnect, stop | lost acknowledgements, stale subscriptions, crash between apply and save |
| Conversation runtime | `runtime.ts`, `conversation/reducer.ts` | a projection of the log, active observations, frame keys, retry state | sendMessage, resumeTurn, cancelTurn, stopObserving, synchronize | replayed frames, two runtimes on one log, conflicts while a turn is admitted |
| Provider operations, usage outbox | `postgres/index.ts`, `server/provider-invocations.ts`, `server/usage-control.ts` | claims and receipts | run, enqueue, acknowledge, failed | ambiguous commits |
| Attachment uploader | `attachments/uploader.ts` | queue of items with run tokens | enqueue, cancel, retry, restoreReady | late results |
| Presence | `presence/controller.ts` | peers, subscription generation | connect, disconnect, publish | stale opens |
| Realtime voice | `realtime/*`, `postgres/realtime-calls.ts`, `postgres/realtime-tool-activity.ts` | the call's versioned record, its lease, sessions, in-flight tool calls, read receipts | admit, begin, attach, renew, end, confirm; execute, terminate; record, read, mark read | a second provider call, a lease that outlives its record, duplicate calls, an outcome nobody saw |
| Gateway, server, providers, browser, UI | `transports/application-gateway.ts`, `server/*`, `providers/*`, `browser/*`, `react*/*` | mostly none of their own | plumbing, conversion, rendering | – |

How they interact.  The host's gateway calls the durable transport; its workers
call the delegate, which runs the application's `execute()`; that drives the tool
loop, which creates approval proposals and ends the turn in
`waiting_for_approval`.  A reviewer's decision goes through the decision
coordinator and then to `resumeApprovalTurn`; the resumed execution asks the
executor for the approved call, which claims it, admits it in the ledger, runs
it and settles it.  Clients observe turns by polling the record and keep their
conversation in step through the synchronisation coordinator.

What makes each correct: a replaced worker never writes; a Stop is never lost,
never guessed to be accepted and never turned into a failure; executions are
bounded; an observer misses nothing; a tool call has at most one effect, which
is preceded by its audit and truthfully recorded; a mutation of a client is
applied once, in order, and never lost; a response is durable in order and
whole, and a host is told of a turn what the log says; a late answer never
changes what its caller has left behind.  The `hazards` of `PROJECT.json` list where in the code
each of these can go wrong.

## 2. Modules

| Module | Models |
|---|---|
| `AtomicTurn` | the promise of `update()`: a mutation is applied to the current record in one step, or not at all |
| `TurnStore` | the document store and the load / compare-and-set loop; refines `AtomicTurn` |
| `DurableTurn` | one durable turn: record, worker processes, delegate, clients |
| `ApprovalExecution` | one approved tool call: proposal, event log, ledger, reviewers, requests |
| `SyncCoordinator` | offline synchronisation: coordinators, the remote log behind its adapter, the device's log and saved record |
| `ConversationRuntime` | runtimes that admit, observe, retry, cancel and settle turns over one event log |
| `AttachmentUploader` | the upload queue, its concurrency limit and its run tokens |
| `ProviderOperation` | the claim, dispatch and completion of a provider call, and the purge of its result |
| `UsageOutbox` | usage receipts, their outbox and the sinks that deliver from it |
| `PresenceController` | local presence, its timers and the subscription to that of others |
| `RealtimeToolBridge` | tool calls of realtime sessions: bindings, joins, approvals, hangups |
| `RealtimeCall` | the life of a realtime call: its record, lease, tool activity, read receipts, and the deletion of its conversation |
| `MCVersionedRecords`, `MCDurableTurn`, `MCApprovalExecution`, `MCSyncCoordinator`, `MCConversationRuntime`, `MCLateAnswers` | instances for TLC; the first composes `TurnStore` and `RealtimeCall`, the last `AttachmentUploader` to `RealtimeToolBridge` |
| `TurnStoreProofs`, `DurableTurnProofs`, `ApprovalExecutionProofs`, `SyncCoordinatorProofs`, `ConversationRuntimeProofs`, `AttachmentUploaderProofs`, `RealtimeProofs` | theorems about the modules they are named for; `RealtimeProofs` is about the bridge and the call |
| `LateAnswersProofs` | theorems about `ProviderOperation`, `UsageOutbox` and `PresenceController` |

### TurnStore

`doc` is the stored document; `call[c]` is a caller's progress through `update`:
`load`, then `cas` with the version it expects and the record it computed, then
how the call ended.  `Conflict` goes round until `maximumCasAttempts` is used up;
`StoreFails` throws before or after the commit.  The mutation is a parameter
(`Mutate`), so that the theorem holds for every update of the transport.  In the
run a record is the set of callers whose mutation it contains, so that a lost
update shows.

### DurableTurn

`turn` is the stored record, `run[a]` the local variables of the `run()` call that
made claim `a` (`attempt` is advanced by every claim, so it names the run),
`running`, `queued` and `draining` the process's `running` map, chained kicks and
`workersStopped`, `active` the delegate's map, `obs` the clients.

A run has three concurrent parts, as in the code: `exec`, the next step of
`execute()`; `delivery`, the memoised promise of `deliverCancellation()`; and `sup`,
where `run()` itself is – racing, in its catch block, in `finally`, gone.  A run
that leaves the race does not stop its `execute()`: the fiber goes on, and only
`owned()` and the owner/attempt comparison of `settle()` hold it back.

| Actions | Code |
|---|---|
| `StartTurn`, `ResumeTurn`, `CancelTurn`, `CancelTurnBeforeStart`, `ResumeApprovalTurn`, `RecoverTurn`, `StopWorkers` | the transport's API |
| `Claim`, `ClaimRefused`, `ClaimExhausted` | the first update of `run()` |
| `Decode`, `DecodeInterrupted`, `Ready`, `Dispatch`, `SaveHandle`, `AppendEvents`, `StreamEnds`, `Join`, `Settle`, `ExecFenced` | `execute()` |
| `DeliverLoad`, `DeliverCall`, `DeliverAccept` | `deliverCancellation()` |
| `Renew`, `MonitorFenced`, `MonitorDelivers`, `DeliveryInterrupts` | the monitors |
| `CatchDeliver`, `CatchSettle`, `Release` | catch and finally |
| `JobEnds` | the application's execution settles, with any result |
| `Poll` | one iteration of `observe()` |
| `LeaseExpires`, `Stall`, `Crash`, `ClaimFails`, `ReadyDenied`, `ExecFails`, `MonitorFails`, `DeliveryFails`, `CleanupFails` | clock, processes, store and authorization |

Abstractions.  Clocks are reduced to whether the lease is live: a lease that its
run still renews expires only by `Stall`, a fault.  The fence `stopped` is
evaluated when a fiber's update commits, not when its mutation is computed: it is
a variable of the same process, set only by the run's own `finally`, and the
`finally` and the commit commute (a fiber that computed its mutation earlier and
commits later is the same behaviour as one that commits first).  A store failure
under an update leaves open whether it was committed.  An event is represented by
the claim whose run appended it.  `execute()` of the host is taken to be
asynchronous, as the SDK's own is (`server/provider-tool-loop.ts`).  Left out:
the callbacks `onTurnStatusChanged`, `onWorkerStopped` and `onEventPersisted`
(their errors are swallowed), the `recoveryWorkers` permits, the paging of the
recovery scan, and records written before `delegateStartAttempted` existed.

### ApprovalExecution

`proposal` and `receipts` are the proposal store (status and version; idempotency
records), `log` the proposal's status events in the conversation's log, `ledger`
the admission or result of the tool call, `review[r]` and `caller[c]` the progress
of decision and execution requests.  `effects` and `truth` are history: how often
the tool was invoked and what it really returned.

A decision is `Decide` (transition) then `DecideAppend` (event).  An execution
request is `Get`, `Audit` (the log is read after the proposal), `Claim`,
`ClaimAppend`, `Admit`, `Invoke`, `Returns`, `Settle`, `SettleAppend`, `Record`;
or it is refused, or told to `Reuse` the ledger's result.  `Claims`, `Target` and
`Expected` are what `repairMissingLifecycleAudit` decides when an event is missing.
Requests with one `executionId` are retries of each other; requests with
different ones compete.  `KeepsKeyOrder` says whether the event store returns
JSON objects with their keys in the order they were written: a `jsonb` column
does not.

Abstractions.  A multi-page read of the append-only log is one read at its last
page.  Revision conflicts of `append` are retried by the code and are not visible
unless the attempts are used up, which is a fault here.  Failure reasons are
dropped.  No tool recovery policy is configured (one would invoke the tool
again within its single admission).  The process-local in-memory ledger, which
promises less, is not modelled; nor are expiry, `decideGroup` and proposals of
other calls.

### SyncCoordinator

`log` is the authoritative store, `local[s]` a device's event log and `saved[s]`
its saved record, `client[c]` what a coordinator has in memory, `late[c]` a request
that its sender gave up and the server may still serve.  `holders[s]` are the
coordinators whose generation of the saved record is the stored one.  A mutation
carries one event, so that it names its event; revisions are positions.
`serialize()` makes a coordinator run one operation at a time; a step is an await,
and a value that is fetched and not yet stored is fetched and stored in one step,
because a crash cannot tell the two apart.

| Actions | Code |
|---|---|
| `QueueMutation`, `Flush`, `Start`, `StartSave`, `Stop` | the coordinator's API |
| `Read`, `ReadSave`, `ReadCompacted`, `ReadPull` | `catchUp()`, and the snapshot when the log was compacted |
| `Connect`, `Update`, `SubscriptionEnds`, `CallDenied` | `scheduleReconnect()`, `connect()`, `consume()` |
| `Serve`, `ServeOversized`, `ServeLate` | the adapter's `appendMutations()` |
| `AckPull`, `AckSave`, `ConflictPull`, `Abandon`, `CallFails` | the rest of `flushPending()` |
| `Crash`, `ServerAppends` | process and server |

`Persist` is every save of the record: it fails when another tab has saved since,
and the coordinator goes on with what that tab saved.  Fairness is of a
coordinator's own steps, of the timer that reconnects, and of the host, which
starts a coordinator that is down and calls `flush()`.

### ConversationRuntime

`log` is the event store, `remote[t]` what the transport has produced of a turn,
`runtime[r]` a runtime: its projection is the log up to `rev`, `pc` the await its
operation is at, `batch` accepted frames that are not saved.  `Active`, `Waiting`
and `Canonical` are the reducer's folds, over a prefix of the log.  `Persist` is
`persistGenerated()`: an append at the end of the projection; a revision conflict
makes the runtime catch up and make its drafts again, a few times.

| Actions | Code |
|---|---|
| `SendMessage`, `Admit` | `sendMessage()`, `persistAdmittedTurn()` |
| `ResumeTurn`, `Attempt`, `Call`, `Bind`, `Retry`, `Exhausted`, `Fail`, `Settle` | `resumeTurn()`, `runTurnWithRetry()`, `startPersistedTurn()` |
| `Deliver`, `SaveFrames`, `EndStream`, `Conclude`, `Wait`, `Finish` | `observeTransport()` |
| `CancelTurn`, `CancelSend`, `StopObserving`, `Synchronize` | the rest of the API |
| `Produce`, `Approve`, `BindTurn`, `Crash` | transport, reviewers, the server's binding of a turn it projects, process failure |

Frames are kinds: text, tool call, usage (never written, so that what follows it is
not safe to resume after), an empty text (written nowhere), the start and the
terminal.  The server's live projection is a runtime that only resumes and tries
once.  Left out: citations, tool events beyond their call, capture of usage
receipts, the provider-context preflight, the branch for transports that cannot
cancel, `continueTurn` and checkpoints.

### The five components of `MCLateAnswers`

They share no variable and no call in the code that is modelled, so that each
behaviour of their composition is a behaviour of one: `part` says which.  They have
one hazard in common: something is held while an answer is under way.

`AttachmentUploader`: `uploads` is `#items` with those that were removed,
`uploadCalls` the adapter's calls that have not settled.  Every operation of the
class is an action; the trailing `#pump()` is part of each.

`ProviderOperation`: `operation` is the record, `operationRun[r]` a call of `run()`.
`LoseAnswer` leaves open whether a write was, was not, or will yet be committed
(`LateWrite`).  `Abandon` is the observer that leaves `retainProviderInvocation()`
early, `DeleteConversation` the purge.

`UsageOutbox`: `outbox` holds the records, `sink[s]` a process's flush (`pending`,
then settle, acknowledge or `failed` for each entry), `captured` the receipts whose
`capture()` has resolved.  The load and the compare-and-set of acknowledge and failed
are two steps.

`PresenceController`: `presence` is the controller, `presenceFeeds` every
subscription it ever asked for.  A synchronous method is one action, a timer's
callback another; `FeedOpens`, `FeedUpdates` and `FeedEnds` are the awaits of
`openTransportSubscription()`.  Timestamps are reduced to whether activity is recent.

`RealtimeToolBridge`: `voiceSessions`, `bindings`, `bridgeCalls` (each `execute()`),
`operations` (`#callOperations`), `proposal` and `published`.  The executor and its
ledger are those of `ApprovalExecution`; here a call is dispatched to it and settles.

### RealtimeCall

`voiceCall` is the record with its version, `requests[o]` the `#update()` of operation
`o` that is in flight, `workers[w]` how far a worker has come with the call, `leases[w]`
its `createRealtimeCallLease()`, `dialed` and `remote` the calls the provider created and
those that run, `tools` the activity records, `displayed` and `receipt` what was shown
and what was marked as read.

| Actions | Code |
|---|---|
| `Admit`, `BeginCreation`, `AttachProviderCall`, `RequestEnd`, `HangUp` (with `confirmEnded()`) | the store's API, as the host of `docs/realtime-call-lifecycle.md` calls it |
| `WriteCall` | the compare-and-set of `#update()`: it commits, conflicts and reads again, gives up, or its answer is lost |
| `RenewLease`, `LeaseRenewed`, `LeaseCloses`, `Tick` | the lease, its heartbeat and its watchdog |
| `ToolStarts`, `ToolReports`, `ReadState`, `Display`, `MarkRead` | the tool-activity store |
| `Dial`, `WorkerCrashes`, `DeleteConversation` | provider, process failure, deletion of an idle conversation |

Abstractions.  A call of `#update()`, or a conflict, and the read that follows it are one
step, since nothing happens at the caller between them.  `record()` and `markRead()` hold
the conversation's lock and are one step each; `readState()` does not, and is two.
Workers and database share one clock, which stands still where no time is compared.  A
late answer is kept apart from its commit only for the lease and for the host that hangs
up.  One operation of a kind is in flight at a time.

## 3. Runs

| Run | Configuration | Shows |
|---|---|---|
| `versioned_records` | a turn's document with 3 callers, 2 attempts, 4 versions; or a call with 2 workers or 2 tools, 2 attempts, a lease of 2 of 3 ticks, 1 fault | `Atomic`: the loop of the turn refines `AtomicTurn`; `CallIsAccounted`, `ReadIsSeen` |
| `turn_fencing` | 2 processes, 2 claims, 2 event batches, 1 client, 2 faults | replaced workers never write (`FencedEvents`), settled records stay (`SettledForGood`), a client told the outcome has every event (`ObserverSawEverything`) |
| `turn_stop` | 2 processes, 3 claims, a budget of 1, one pause, 2 faults | `StoppedTurnNeverFails`, `AcceptedStopIsCertain`, `ExecutionBudget` |
| `turn_one_process` | 1 process that may drain, 2 Stop identities, one pause, 1 fault, no scan | `StopReachesWork`, `StopIsKept`; of behaviours without failure or drain, `UndisturbedStopSettles` and `ObserverResolves` |
| `stop_two_processes` | 2 processes, 2 claims, 1 fault | violation of `StopReachesWork` |
| `stop_handle_race` | 1 process, 2 claims, no fault | violation of `StopWaitsForHandle` |
| `turn_recovers` | 2 processes, 3 claims, a budget of 1, 1 fault, recovery scan fair | `StopSettles`, `TurnRests` |
| `approval_execution` | a confirmer, a rejecter, 2 requests retrying one execution and one competing, 2 faults | `EffectAtMostOnce`, `EffectIsAudited`, `AuditIsLinear`, `SuccessIsTrue`, `ExecutedIsTrue`, `ApprovedRuns` |
| `approval_result_lost` | the same without faults | violation of `ExecutedResultIsRead` |
| `sync_coordinator` | one tab, 3 mutations and a server event, batches of 2, 2 faults; or two tabs, 2 events, 1 fault | `AppendedOnce`, `Faithful`, `NothingLost`, `InQueueOrder`, `AuthorityGrows`, and with one tab `DeliveredAlone` |
| `conversation_runtime` | a browser (2 attempts) and the server's projection (1), four kinds of turn, a fault or a second resumption | `ResponseIsWhole`, `ToldIsCanonical`, `ReplayIsKnown`, `OneActiveTurn` |
| `late_answers` | the five components, each within its own bounds | `SlotsAreAccounted`, `LateAnswersAreDropped`, `DispatchedOnce`, `ReceiptIsKept`, `PresenceIsCurrent`, `CallsAreExact` |

Bounds.  Two processes are enough for a takeover and for a Stop that arrives
where the work is not; two claims for a zombie of the first beside the owner of the
second, in the same process or in another, and a third one in the runs about Stop
for a delivery after both; two faults for a failure while recovering from a failure.  `MaxClaims` exceeds the attempt budget in the runs about Stop, so
that deliveries after the budget is spent happen, and in the liveness runs it is
large enough that no claim the code would make is cut off: a turn that is not
stopped fails once its budget is spent, and the number of stop deliveries is
bounded by the faults.  The approval run has the smallest set of requests with
both a retry and a competitor.  Deadlock is checked in the approval runs; the other systems may
really rest: a settled turn, a call that has ended, a coordinator with an empty queue, a
destroyed controller.

In `sync_coordinator` the variable `history` chooses between two sets of bounds: a tab
alone, with three mutations against an adapter that takes batches of two (50 in the
code), so that the queue outgrows it, and two faults; and two tabs of a device.  One
conflict in a row is borne (8 in the code), so that the limit is reached.  In
`conversation_runtime` a behaviour has the turns, resumptions and faults of one element
of `Histories`: a turn with usage in the middle (the frames after it are not safe), one
whose texts form a batch and overflow it, one that pauses, and one that is sent while
another pauses.  A batch holds two frames (64 in the code), and one rebase is made (2 in
the code).  Both runtimes write in each history, so that conflicts and their exhaustion
happen.  `late_answers` has one slot for two files, three runs of a provider operation
of which one has another fingerprint and may not claim, two sinks with two attempts to
write, three subscriptions, and two requests out of five envelopes that repeat, alter or
borrow one another's identity, with a table of one session and of two calls.
In `versioned_records` the lease can run out once and be renewed once within the clock, two
attempts of `#update()` (4 in the code) let a conflict be retried and exhausted, and a
second worker is enough to contend for the creation of the call; two tools, to see
outcomes in two different views.  Workers and tools are symmetric.

Every property of a passing run has a mutant: a plausible bug in a mapped
definition (a dropped fence, an off-by-one, a swapped order) under which TLC finds
the property violated.  The mutants stand next to what they change.

### Fairness

`LocalFairness`: timers and promises of a live process fire, the application's
`execute()` settles, clients keep polling, and the clock passes the expiry of a
lease that nobody renews.  Event batches, API calls, `Renew` and faults have no
fairness.  `ScanFairness` adds that the host calls the recovery scan again and
again, as `docs/recovery-discovery.md` asks of it; `turn_one_process` does without.
In `ApprovalExecution`, reviewers' clients and the host repeat a request that has
no answer (`resumeApprovalTurn` re-enters the execution).  In `sync_coordinator` the one
tab's steps and due reconnects are taken, and of the host it is assumed that it starts
a coordinator that is down and calls the public `flush()` while mutations are queued:
after a flush that ended in conflicts or in a failed call, nothing else in the code is
sure to send them again.  No fairness is stated for `ConversationRuntime`, in `late_answers` and in
`versioned_records`: what is checked there is safety.  No strong fairness is used.

## 4. Where the code and its documentation part

1. **A Stop does not reach another process** (`stop_two_processes`).  `cancelTurn`
   promises that a newly authorized Stop "must still reach that work"
   (`durable.ts:690-691`).  With `application-turn.ts` as the delegate it does only
   in the process that executes: elsewhere the delegate finds no controller and
   answers `already_terminal`, the Stop is accepted and the turn is recorded as
   cancelled while the execution goes on.  In one process the property holds
   (`turn_one_process`).
2. **A Stop in the window between start and handle** (`stop_handle_race`).  "Stop
   after it must wait for the actual delegate handle" (`durable.ts:510-511`), but
   the monitor delivers as soon as the observation exists, before the handle is
   saved; the delivery is refused as uncertain, the run releases the turn, and the
   handle's own update is fenced off.  Nothing has to fail for this.
3. **An executed call whose result cannot be read** (`approval_result_lost`).
   `eventExists` compares payloads as JSON text, which a `jsonb` column does not
   preserve; when another request has repaired the terminal event first, `settle()`
   reports a failure, and the ledger keeps it for ever.

The following are behaviours that the models show and that no property claims
otherwise; each is named where it limits one.

*Synchronisation.*  (a) A batch of which the log has a part is answered `conflict` for
ever: the adapter neither acknowledges nor appends it.  `QueuedIsDelivered` makes this
exception (`PartlyStored`).  (b) A duplicate acknowledgement whose head is beyond its
event, as `test/event-store-sync-adapter.test.ts:99-128` returns it, fails
`validateAppendMutationHead` and with it the coordinator, permanently, until a restart.
(c) `queueMutation()` whose save failed keeps the mutation in memory, and its retry
returns early without saving it.  (d) A queue longer than `maximumMutationBatchSize` is
answered `unauthorized`, and all of it is rejected.  (e) With two tabs a mutation can
stay pending as long as the tab that holds it is not restarted; `DeliveredAlone` is
therefore claimed of one.

*Runtime.*  (a) An empty text leaves no durable key but does not make its sequence
unsafe: a full replay then fails with a stale sequence (`ReplayIsKnown` is checked with
responses without one).  (b) A host may be told that its turn failed although the log
says completed, when the start was given up and a projection finished it;
`ToldIsCanonical` is about completed and cancelled.  (c) A lost answer to the admission
leaves an active turn that no transport knows.  (d) `OneActiveTurn` is checked with one
sender; with two over a store that appends without validating it is not so.  A
browser waits for the answer of its start (`bind`); the projection binds the turn and runs
it to its pause; another tab admits a turn; the browser synchronises, so that its append
meets no conflict, and writes the queued status of the waiting turn while the other is
active.  `persistGenerated` asks whether drafts are still compatible only after a
conflict (`runtime.ts:499-501`), the draft itself only whether the turn is over
(`runtime.ts:1388`), and the reducer refuses such a log (`reducer.ts:320`).  One sender is
enough if two turns pause: while the first waits, the browser sends the second and waits
for the answer of its start; the projection runs the second to its pause; the first is
approved and becomes active; the browser synchronises and binds the second.  The run has
one sender and one turn that pauses, which are the hypotheses of `OneTurnIsActive`.  In the
assembled server `validateCanonicalBatch` (`durable-application-adapter.ts:39-43`) refuses
the batch.

*Usage.*  A receipt that telemetry refuses with 401 or 403 is marked `failed`, and
nothing retries it.  *Uploads.*  A cancelled upload keeps its slot until the adapter
settles.  *Realtime.*  `#approvalRequired` is returned and not awaited, so that the
listeners for a hangup or an abort are removed before the host's review of the
arguments: it is not told (`hears`), although the hangup waits for it.

## 5. Theorems

All are proved for every value of the constants, from the `ASSUME`s of the modules
(types of the bounds, the null values `None`, `Null`, `NoReceipt` and `NoCallRecord`
different from the values they stand beside, `Mutate` returning a record or `Null`,
finitely many tools of a realtime call).  Three have a hypothesis on the constants, named
in the theorem: `OneProcess`, `NoEmptyText`, and `OneSender` with `OnePauses`; the passing
runs that check their properties satisfy it, and section 4 says what happens without.

**TurnStoreProofs.**  `FreshWrites` proves `[](TypeOK /\ FreshWhenExpected)`, which
is inductive as it stands: a pending write carries either an old version or the
mutation of the current record, because every write advances the version.
`UpdateIsAtomic` (`Spec => Atomic`) uses it: a compare-and-set that commits is then
an `Apply` of the abstract specification, a failed call a `Fail`, and loads and
conflicts are stutters.  This is what entitles `DurableTurn` to atomic updates.

**DurableTurnProofs.**  The type invariant is not inductive: `settle()` writes the
result it is given, and a failed stream's `threw` is not a status.  `TypeInv` adds
`ResultKnown`: a run that joins a delivery or settles holds a result other than
`threw`.  `StepWrites` then reduces the some forty actions to the dozen ways in
which the record is ever written, each with the condition it is written under
(`TurnStep`), and the safety theorems argue about those.  `StoppedNeverFails` is
inductive with `AbsentClean` (a record that does not exist carries no Stop):
`settle()` must keep a stopped turn pending or cancelled, the exhausted claim must
spare it, `cancelTurn` must reopen what it stops.  `StopStays` follows from
`TurnStep` and the same invariant.  `BudgetHolds` needs `BudgetInv`: the budget is
compared when a claim is made, but the execution is dispatched several awaits
later, so every claim on its way to the delegate is still within it, which pauses
only extend.  `SettledStays` needs that a record at rest is leased to nobody
(`RestUnleased`) and that every run has an owner (`RunsOwned`): the release in
`finally` does not look at the status, and only the missing lease keeps it from
reopening a settled turn.  `ObserversSeeEverything` rests on `SettledStays`: an observer
resolves from a snapshot it yielded, and the record it saw is final.  `EventsAreFenced`
has the invariant `EventsInv` (no retained event is of a claim later than the current
one, and a fiber that may append was dispatched); that a replaced fiber never appends is
one line of `StepAppends`, but that the claims come in order needs both.
`AcceptanceIsCertain` is about two steps: a delivery reads `delegateStartAttempted` and
records the acceptance later, while a run writes that it starts the delegate and starts
it later.  `CertainInv` says that what each of them has read is still so when it acts;
`RunStep` is the counterpart of `TurnStep` for the local variables of the runs.
`StopReachesOneProcess` has the hypothesis `OneProcess` (the run `stop_two_processes` shows
that the property fails with two).  A cancelled turn is written by a step that may be long
after the one that made sure that nothing goes on, so `WorkInv` has to say of every step on
the way what it has made sure of: only the latest claim's `run()` is live while `running`
says that the turn is claimed; a delivery that is about to record the acceptance, an
accepted Stop, and a fiber that is about to settle `cancelled` each mean that no execution
goes on undisturbed (`Quiet`); nothing of the kind is the case while a fiber is about to
start one; and no delivery is on its way before the delegate was reached or the execution
given up.

**ApprovalExecutionProofs.**  The transition table has a cycle (failed → executing →
failed), so `version` would not even be bounded by the table alone.  `VersionInv`
relates status and version of the proposal, of every receipt and of every record a
request holds; with it each transition stays on the line pending (1), decided (2),
executing (3), settled (4), and `TypeCorrect` follows.  `AtMostOneEffect` rests on
`OneAdmission`: an invocation is preceded by an admission, the ledger never returns
to `none`, at most one request is between admission and invocation, and none is
once the tool has been invoked.  The audit log is appended to apart from the transitions,
by the request that made one or by another that repairs it.  `AuditInv` says what this
may lead to: at most one reviewer and one execution ever acted (`ActedOnce`, as far as a
receipt, an entry or a request under way still tells of it), every receipt and entry is of
a state that the proposal has had, and an execution has no entry without a confirmation
before it (`StoryOK`); a request may append only what its record entitles it to.
`AuditPrecedesEffect` and `OneStory` read their properties off it.  `TruthInv` adds what
a request knows of the tool's result, for `SuccessesAreTrue` and `ExecutionsAreTrue`: a
success is written to the ledger or answered only when the proposal and the log have it,
and these never take it back (`SuccessStays`).

**AttachmentUploaderProofs.**  `SlotsAccounted` needs that calls and items tell of each
other: no two calls have the same item and run token, none has a token its item has not
had, and one whose answer will be dropped was aborted (`Genuine`, and the third part of
`UploaderInv`).  The cardinalities are those of sets that lose one call or gain one for
each item that `#pump()` starts (`NewCalls`).  That the pump fills the slots exactly is
`SlotsAreFilled`, a lemma about sets of numbers: the largest item taken bounds how many
are taken, and the smallest one left shows that the slots are used up.
`LateAnswersDropped` follows from the run tokens.

**RealtimeProofs.**  `RealtimeCallsAreExact` has `BridgeInv`, a conjunct for each store:
a session that is dropped was terminated; a request that waits has a session; the
operations in flight have one identity each, are bound, and those of a terminated session
are aborted while a tool could still start; a tool runs only for a binding, and a gated
one only after its publication.  For `CallsAreAccounted` the record is not enough, since
`#update()` reads it in one step and writes it in another: `SoundUpdate` says of each of
the operations in flight what it may propose, *if the record is still the version it
read* (`Proposed`).  That an ended record has no call behind it then rests on `HungUp`:
`confirm` is sent only after the provider has answered, and a reference is never dialed
again.  `ReadsAreSeen` needs that the displayed views are a chain (`ReceiptInv`): counts
only grow, so the view that covers all of a receipt is one that was displayed.

**LateAnswersProofs.**  `DispatchIsUnique` is `[]DispatchedOnce` for any runs,
fingerprints and late commits.  `DispatchedOnce` says nothing of a run that has the
claim and has not yet called the provider, so the inductive invariant adds
`ClaimIsExclusive` – at most one run has ever been past the claim, and from then on
there is a record, which makes every other claim fail, one that is committed late too –
and `ResultIsDispatched`: a result, whether it waits to be written, may still be
written or is in the record, is that of the run that called the provider.
`ReceiptsAreKept` is an action property of the outbox under any number of flushes.
`FlushInv` says of each one that what it is about to write is true, and that the version
it would replace is not that of a delivered receipt if it is still the current one;
`OutboxGrows`, that a changed record has a new version, keeps this true while the others
go on.  `PresenceStaysCurrent` has `PresenceInv`: the subscriptions have generations of
their own, the one that is open is the installed one and of the controller's generation
(`FeedsInv`), and typing is told only while it is requested, which is requested only while
connected (`TidyTyping`); the private methods are treated one by one and composed.

**SyncCoordinatorProofs.**  The theorems hold for any tabs, devices, mutations,
batch and page sizes and faults.  They share one inductive invariant, `SyncInv`, since
each of them alone fails: that an append repeats nothing needs a queue without
repetition, and that a queue loses nothing needs what the coordinator knows of the log.
Its parts are `Sound` (a coordinator's queue repeats nothing, its projection is a prefix
of the log, and a queue about to be acknowledged is in the log), `SavedSound` (the same
of a record at rest), late requests without repetition, and that a coordinator whose
generation is the stored one knows at least what is saved, and what it dropped
from the saved queue is in the log.  From these, `BodyContinues`: a page that passes the
sequence check is exactly the log after the projection.  `ServeKeeps`: the adapter
appends only a batch none of which is stored, so the log stays injective, also when a
request is served after its sender gave up.  `PersistKeeps`: only a holder replaces the
saved record, with one that follows it.  `SyncStep` collects the cases, and
`NothingTwice`, `ProjectionsAreFaithful`, `AcceptedIsKept` and `KnowledgeGrows` read
their properties off it.  `LogKeepsOrder` needs a second invariant, `OrderInv`, about every
list of mutations that is, or may still be, appended (`Queues`: in memory, saved, or in a
request whose sender gave up).  Such a list need not have what was queued before its
mutations, but then the log has it; this is what makes a late append harmless, and it is
inductive only together with `NothingLost` and the knowledge of the holders, which give
that the first mutation of a list is queued behind everything the host still expects.
All actions but `queueMutation()` add no list (`QueuesKept`), and those are treated by one
lemma (`KeptInOrder`).

**ConversationRuntimeProofs.**  The theorems hold for any runtimes, senders, turns,
responses, pauses, batch sizes, attempts and faults.  None of the properties is inductive:
that a runtime appends the next frame and not a later one depends on where it began to
observe, on what it has accepted and not yet written, and on what the others have written
meanwhile.  `IInv` says all of this.  `EventsOK` is about the log: a frame is written after
exactly those before it that are written at all, a completion after all of them, and what
an event marks as safe is justified by the events before it.  `RuntimeOK` is about a
runtime: its safe sequence is justified by the part of the log that it has seen (`SafeOK`),
an operation that told its host an outcome has it in that part (`Outcome`), and an
observation has each frame it passed, in the log or in its batch, until a batch is lost
(`Complete`, `Has`), the batch in order.  `RemoteOK` says that a turn's frames are its
response, which a cancellation may cut short, and `AttemptsOK` counts retries.  All of it
survives what other runtimes append and the transport adds (`RuntimeKept`,
`EventsGrown`), so a step is treated by showing that the one runtime that moves still fits
(`StepKeeps`; `PersistKeeps` for the appends, with their conflicts, faults and rebases).
`DraftsOK` is the core: made again from the current log, each draft of a batch stands for
a frame behind all that are saved and those of the drafts before it.  `ReplaysAreKnown` has
the hypothesis `NoEmptyText`: an empty text is written nowhere and does not make its
sequence unsafe (section 4, *Runtime* (a)); the other theorems do not need it.

`OneTurnIsActive` is about every event that is appended, and about statuses, which `IInv`
does not mention.  `ActiveIs` first restates `Active` without maxima (`Holds`).  `OneInv`
then says why an append leaves one turn active although the runtime that makes it has not
looked: an admitted turn that has not ended waits or is the active one; one that waits
produces nothing but its cancellation, and all that it has produced is saved, so that
frames that are still to be saved belong to the active turn or to one that has ended; and
a runtime that may still have to bind its turn (`Starts`) is a sender, and no other turn
than its own is active.  The last part is what two senders or two pauses break, and where
the hypotheses `OneSender` and `OnePauses` are used: in `AdmitOne` and `BindOne` (nobody
else is about to bind) and in `ApproveOne` (the turn about to be bound is the one
approved).  `ProperIsOne` reads the property off the drafts of a step (`Proper`).

Only model-checked: the liveness properties (fairness is outside the proof system), among
them `DeliveredAlone`.

## 6. Plan

1. *Done*: the durable turn and its store; the approved tool call; synchronisation; the
   runtime; the five components with late answers; the realtime call; the theorems of
   section 5.
2. *Done*: proofs of every safety property that the passing runs check, `StopReachesWork`
   for one process and `OneActiveTurn` for one sender and one turn that pauses.
3. Models: attachment staging, live delivery, grouped approval decisions.

## 7. What is not modelled

Provider adapters, SSE and HTTP plumbing, browser media and the user interface are
conversion and I/O.  Of the conversation reducer the folds of a turn's status are in
`ConversationRuntime`; the fold of messages, calls, approvals and citations is a long
sequential function of the log without an actor.  The catalog and activity stores are
compare-and-set documents of the kind `TurnStore` covers.  Usage admission is
a map in one process that is read and written without an await between, and a quota lease
is a client of the service that grants it: neither has an interleaving of its own.
Attachment staging, live delivery and grouped approval decisions are left for later.
`PROJECT.json` lists every component with its status.

## 8. Running

    tlc -config DurableTurnStop.cfg MCDurableTurn
    tlapm DurableTurnProofs.tla
