-------------------------- MODULE SyncCoordinator --------------------------
(***************************************************************************)
(* Offline synchronisation of one conversation: the client coordinator of  *)
(* src/src/sync/coordinator.ts, the trusted-server adapter it talks to     *)
(* (src/src/sync/event-store-adapter.ts) over the authoritative event log, *)
(* and what a device keeps: the local event log and the saved record of    *)
(* src/src/sync/persistence.ts, which tabs of one device share.            *)
(*                                                                         *)
(* A mutation carries exactly one event, so an event of the log is named   *)
(* by its mutation (or is an event of the server's own) and its revision   *)
(* is its position.  A coordinator runs one operation at a time            *)
(* (serialize()); the steps of an operation are its awaits.  What a crash  *)
(* cannot tell apart is one step: a value fetched and not yet stored dies  *)
(* with the process, so that a fetch and the save behind it are one step   *)
(* and an append to the local log and the save behind it are two.          *)
(***************************************************************************)
EXTENDS Naturals, Sequences, FiniteSets, SequencesExt

CONSTANTS
  Clients,          \* coordinators: tabs, or applications on several devices
  Stores,           \* devices
  StoreOf,          \* the device of each coordinator
  Mutations,        \* what clients queue, numbered in the order they are queued
  Author,           \* the coordinator that queues each mutation
  ServerEvents,     \* events the server appends itself
  None,             \* null
  ReadBatchSize,    \* readBatchSize
  MaximumBatch,     \* maximumMutationBatchSize of the adapter (50)
  MaximumConflicts, \* conflicts in a row that flushPending() bears (8)
  MaxEvents,        \* bound: mutations queued and server events appended
  MaxFaults         \* bound: crashes, stops, failed and refused calls

ASSUME DevicesAssumption == StoreOf \in [Clients -> Stores]
ASSUME AuthorAssumption == Author \in [Mutations -> Clients]
ASSUME EventsAssumption == Mutations \subseteq Nat /\ Mutations \cap ServerEvents = {}
ASSUME SizesAssumption ==
  /\ ReadBatchSize \in Nat \ {0}
  /\ MaximumBatch \in Nat \ {0}
  /\ MaximumConflicts \in Nat
  /\ MaxEvents \in Nat
  /\ MaxFaults \in Nat
ASSUME NoneAssumption == None \notin [batch : Seq(Mutations), expected : Nat]

VARIABLES
  log,      \* the authoritative event store, behind the adapter
  local,    \* the event log of each device
  saved,    \* the saved record of each device
  holders,  \* coordinators whose stateStoreGeneration is the stored one
  client,   \* what each coordinator has in memory
  late,     \* an append request its sender no longer waits for
  outcome,  \* history: what the host was told of each mutation
  faults    \* failures so far

vars == <<log, local, saved, holders, client, late, outcome, faults>>

-----------------------------------------------------------------------------
(* Types *)

Events == Mutations \cup ServerEvents

\* pc: the await the running operation is at; op: that operation, "call" being
\* queueMutation() or flush().  started: also FALSE after stop(), while the
\* operation goes on; link: "up" when state.status = "online", "retrying" when
\* reconnectAbort is set.  auth: the authoritative store; durable:
\* localDurableRevision; more: hasMore of the batch being saved; base: the head of
\* the log when appendMutations was sent, then the latestRevision of its answer.
Client == [pc : {"idle", "startSave", "read", "readSave", "readPull", "updatePull",
                 "sent", "conflictPull", "ackPull", "ackSave"},
           op : {"none", "start", "connect", "update", "call"},
           started : BOOLEAN, link : {"down", "up", "retrying"},
           auth : Seq(Events), durable : Nat, pending : Seq(Mutations),
           conflicts : 0..MaximumConflicts, more : BOOLEAN, base : Nat]

\* A coordinator that createConversationSyncCoordinator() has just returned.
NewClient == [pc |-> "idle", op |-> "none", started |-> FALSE, link |-> "down",
              auth |-> <<>>, durable |-> 0, pending |-> <<>>,
              conflicts |-> 0, more |-> FALSE, base |-> 0]

\* The record of persistence.ts.  Its generation grows with every save and is
\* only ever compared for equality: `holders` is the set of coordinators that
\* would pass, all of them before the first save (the expected null).
Record == [stored : BOOLEAN, auth : Seq(Events), pending : Seq(Mutations)]
Request == [batch : Seq(Mutations), expected : Nat]

Init ==
  /\ log = <<>>
  /\ local = [s \in Stores |-> <<>>]
  /\ saved = [s \in Stores |-> [stored |-> FALSE, auth |-> <<>>, pending |-> <<>>]]
  /\ holders = [s \in Stores |-> {c \in Clients : StoreOf[c] = s}]
  /\ client = [c \in Clients |-> NewClient]
  /\ late = [c \in Clients |-> None]
  /\ outcome = [m \in Mutations |-> "none"]
  /\ faults = 0

\* The bound on events: one more mutation or server event may appear.
RoomForEvent ==
  Cardinality({m \in Mutations : outcome[m] # "none"})
    + Cardinality(ServerEvents \cap Range(log)) < MaxEvents

Fault == faults < MaxFaults /\ faults' = faults + 1
Idle(k) == [k EXCEPT !.pc = "idle", !.op = "none", !.conflicts = 0,
                     !.more = FALSE, !.base = 0]

-----------------------------------------------------------------------------
(* The saved record *)

\* persistCoordinatorState(): the record is replaced if its generation is the one
\* this coordinator last saw, and the coordinator goes on as `done`; otherwise
\* the save throws, nothing is written, and it goes on as `failed`.
Written(s, done) ==
  [saved EXCEPT ![s] = [stored |-> TRUE, auth |-> done.auth, pending |-> done.pending]]

\* Mutant of Persist: the record is replaced whatever its generation.
PersistBlindly(c, done, failed) ==
  LET s == StoreOf[c] IN
  /\ saved' = Written(s, done)
  /\ holders' = [holders EXCEPT ![s] = {c}]
  /\ client' = [client EXCEPT ![c] = done]

Persist(c, done, failed) ==
  LET s == StoreOf[c] IN
  IF c \in holders[s]
  THEN /\ saved' = Written(s, done)
       /\ holders' = [holders EXCEPT ![s] = {c}]
       /\ client' = [client EXCEPT ![c] = done]
  ELSE /\ client' = [client EXCEPT ![c] = failed]
       /\ UNCHANGED <<saved, holders>>

-----------------------------------------------------------------------------
(* How an operation ends *)

\* Mutant of Reconnect: the failure is published and no backoff is started.
ReconnectNever(k) == [k EXCEPT !.link = "down"]

\* scheduleReconnect(): closes the subscription and starts the backoff, unless
\* the coordinator is stopped (or is backing off already).
Reconnect(k) == IF k.started THEN [k EXCEPT !.link = "retrying"] ELSE k

\* failPermanently(), apart from the rejection of the queue.
Failed(k) == [Idle(k) EXCEPT !.started = FALSE, !.link = "down"]

\* What becomes of an error thrown inside the running operation: start() fails
\* permanently, a reconnect or a consumer schedules a reconnect, and a host's
\* call only passes it on to the host.
Thrown(k) ==
  CASE k.op = "start" -> Failed(k)
    [] k.op = "call" -> Idle(k)
    [] OTHER -> Reconnect(Idle(k))

\* failPermanently() on `unauthorized` or `rejected`: rejectPending() empties the
\* queue and saves; only then are the rejections reported.
Refuse(c) ==
  LET k == client[c]
      cleared == [Failed(k) EXCEPT !.pending = <<>>] IN
  IF k.pending = <<>>
  THEN client' = [client EXCEPT ![c] = Failed(k)] /\ UNCHANGED <<saved, holders, outcome>>
  ELSE /\ Persist(c, cleared, cleared)
       /\ outcome' = IF c \in holders[StoreOf[c]]
                     THEN [m \in Mutations |-> IF m \in Range(k.pending)
                                               THEN "rejected" ELSE outcome[m]]
                     ELSE outcome

-----------------------------------------------------------------------------
(* Authoritative events *)

\* validateAuthoritativeEvents(): events are given by their revisions in the log
\* `lg`; those that the projection `a` has already processed are skipped ...
Fresh(lg, a, revisions) == {r \in revisions : lg[r] \notin Range(a)}

\* Mutant of InSequence: a gap is not noticed.
InSequenceOrGap(a, fresh) == \A r \in fresh : r > Len(a)

\* ... and the others must continue it without a gap.
InSequence(a, fresh) == \E h \in 0..(Len(a) + Cardinality(fresh)) : fresh = (Len(a) + 1)..h

Body(lg, fresh) == IF fresh = {} THEN <<>> ELSE SubSeq(lg, Min(fresh), Max(fresh))

\* eventStore.append() of the device: events that continue the log are written,
\* events that it already holds (from another tab) are accepted as repeated, and
\* a log that holds only some of them refuses.
LocalHolds(s, from, events) == IsPrefix(events, SubSeq(local[s], from + 1, Len(local[s])))
LocalAccepts(s, from, events) == Len(local[s]) = from \/ LocalHolds(s, from, events)
LocalAppend(s, from, events) == IF Len(local[s]) = from THEN local[s] \o events ELSE local[s]

\* applyAuthoritativeEvents(): while the local log is level with the projection,
\* the fresh events go to the local log; then to the projection.  The coordinator
\* goes on as `next` with both advanced.
Absorb(c, lg, fresh, next) ==
  LET k == client[c]
      s == StoreOf[c]
      events == Body(lg, fresh)
      level == fresh # {} /\ k.durable = Len(k.auth)
      after == Len(k.auth) + Len(events) IN
  IF level /\ ~LocalAccepts(s, k.durable, events)
  THEN client' = [client EXCEPT ![c] = Thrown(k)] /\ UNCHANGED local
  ELSE /\ client' = [client EXCEPT ![c] =
                       [next EXCEPT !.auth = k.auth \o events,
                                    !.durable = IF level THEN after ELSE k.durable]]
       /\ local' = IF level
                   THEN [local EXCEPT ![s] = LocalAppend(s, k.durable, events)]
                   ELSE local

-----------------------------------------------------------------------------
(* The queue *)

\* The head of the loop of flushPending(): while started and not drained, the whole
\* queue is rebased on the projection's revision and sent.
SendOrEnd(k) ==
  IF k.started /\ k.pending # <<>> THEN [k EXCEPT !.pc = "sent", !.base = Len(log)] ELSE Idle(k)

\* Mutant of Queued: the newest mutation is sent first.
QueuedFirst(k, m) == [k EXCEPT !.pending = <<m>> \o @]

Queued(k, m) == [k EXCEPT !.pending = Append(@, m)]

\* queueMutation(): a mutation that is queued or processed already is accepted
\* without another look; a new one is saved, and sent if the coordinator is online.
QueueMutation(c, m) ==
  LET k == client[c]
      queued == Queued(k, m) IN
  /\ Author[m] = c /\ \A n \in Mutations : n < m => outcome[n] # "none"
  /\ k.pc = "idle" /\ outcome[m] \in {"none", "failed"}
  /\ outcome[m] = "none" => RoomForEvent
  /\ \/ /\ m \in Range(k.pending) \cup Range(k.auth)
        /\ outcome' = [outcome EXCEPT ![m] = "repeated"]
        /\ UNCHANGED <<saved, holders, client>>
     \/ /\ m \notin Range(k.pending) \cup Range(k.auth)
        /\ Persist(c, IF k.started /\ k.link = "up"
                      THEN SendOrEnd([queued EXCEPT !.op = "call"]) ELSE queued, queued)
        /\ outcome' = [outcome EXCEPT ![m] =
                         IF c \notin holders[StoreOf[c]] THEN "failed"
                         ELSE IF @ = "none" THEN "queued" ELSE "requeued"]
  /\ UNCHANGED <<log, local, late, faults>>

\* flush(), called by the host.
Flush(c) ==
  LET k == client[c] IN
  /\ k.pc = "idle" /\ k.started /\ k.link = "up" /\ k.pending # <<>>
  /\ client' = [client EXCEPT ![c] = SendOrEnd([k EXCEPT !.op = "call"])]
  /\ UNCHANGED <<log, local, saved, holders, late, outcome, faults>>

-----------------------------------------------------------------------------
(* start(), connect() and the subscription *)

\* Mutant of Recovered: a projection beyond the local log is forgotten.
RecoveredFromLog(s) == local[s]

\* start(): the saved projection is taken if it is ahead of the local log (a
\* snapshot was installed over it), the replayed log otherwise.
Recovered(s) == IF Len(saved[s].auth) > Len(local[s]) THEN saved[s].auth ELSE local[s]

Start(c) ==
  LET k == client[c]
      s == StoreOf[c] IN
  /\ k.pc = "idle" /\ ~k.started
  /\ client' = [client EXCEPT ![c] =
       [k EXCEPT !.pc = "startSave", !.op = "start", !.started = TRUE,
                 !.auth = Recovered(s), !.durable = Len(local[s]),
                 !.pending = saved[s].pending]]
  /\ holders' = [holders EXCEPT ![s] = @ \cup {c}]
  /\ UNCHANGED <<log, local, saved, late, outcome, faults>>

StartSave(c) ==
  LET k == client[c] IN
  /\ k.pc = "startSave"
  /\ Persist(c, [k EXCEPT !.pc = "read"], Thrown(k))
  /\ UNCHANGED <<log, local, late, outcome, faults>>

\* The backoff is over and the reconnect has its turn.
Connect(c) ==
  LET k == client[c] IN
  /\ k.pc = "idle" /\ k.started /\ k.link = "retrying"
  /\ client' = [client EXCEPT ![c] = [k EXCEPT !.pc = "read", !.op = "connect",
                                               !.link = "down"]]
  /\ UNCHANGED <<log, local, saved, holders, late, outcome, faults>>

\* catchUp() is done.  For connect(): subscribed and online (stop() takes that
\* back at once), it goes on to the queue; a consumer is finished.
CaughtUp(k) ==
  IF k.op = "update" THEN Idle(k)
  ELSE SendOrEnd([k EXCEPT !.link = IF k.started THEN "up" ELSE "down"])

\* One round of catchUp(): readSince() the projection's revision.  An empty page
\* ends the loop without a save.
Read(c) ==
  LET k == client[c]
      last == IF Len(log) > Len(k.auth) + ReadBatchSize
              THEN Len(k.auth) + ReadBatchSize ELSE Len(log)
      fresh == Fresh(log, k.auth, (Len(k.auth) + 1)..last) IN
  /\ k.pc = "read"
  /\ \/ fresh = {} /\ client' = [client EXCEPT ![c] = CaughtUp(k)] /\ UNCHANGED local
     \/ /\ fresh # {} /\ InSequence(k.auth, fresh)
        /\ Absorb(c, log, fresh, [k EXCEPT !.pc = "readSave", !.more = last < Len(log)])
  /\ UNCHANGED <<log, saved, holders, late, outcome, faults>>

ReadSave(c) ==
  LET k == client[c] IN
  /\ k.pc = "readSave"
  /\ Persist(c, IF k.more THEN [k EXCEPT !.pc = "read", !.more = FALSE] ELSE CaughtUp(k),
             Thrown(k))
  /\ UNCHANGED <<log, local, late, outcome, faults>>

\* The adapter no longer has the events after that revision (compacted): the answer
\* to readSince(), or an update of the subscription, says `snapshot_required`.
ReadCompacted(c) ==
  LET k == client[c] IN
  /\ Fault
  /\ \/ k.pc = "read" /\ client' = [client EXCEPT ![c].pc = "readPull"]
     \/ /\ k.pc = "idle" /\ k.started
        /\ client' = [client EXCEPT ![c].pc = "updatePull", ![c].op = "update"]
  /\ UNCHANGED <<log, local, saved, holders, late, outcome>>

\* pullSnapshot() and installSnapshot(): the projection is replaced by the replay
\* of the whole log; the local log stays behind.
ReadPull(c) ==
  LET k == [client[c] EXCEPT !.auth = log] IN
  /\ k.pc \in {"readPull", "updatePull"}
  /\ Persist(c, CaughtUp(k), Thrown(k))
  /\ UNCHANGED <<log, local, late, outcome, faults>>

\* An update that a subscription has read: a page from a revision the consumer
\* had reached (pages are delivered again after a reconnect, and by a subscription
\* that was closed after it had read them), with the head as it was at that time.
Update(c) ==
  LET k == client[c] IN
  /\ k.pc = "idle" /\ k.started
  /\ \E after \in 0..Len(k.auth), n \in 1..ReadBatchSize, more \in BOOLEAN :
       LET fresh == Fresh(log, k.auth, (after + 1)..(after + n))
           taken == [k EXCEPT !.op = "update", !.more = more] IN
       /\ after + n + (IF more THEN 1 ELSE 0) <= Len(log)
       /\ more => n = ReadBatchSize
       /\ \/ /\ fresh = {} /\ more /\ Len(log) > Len(k.auth)
             /\ client' = [client EXCEPT ![c] = [taken EXCEPT !.pc = "read", !.more = FALSE]]
             /\ UNCHANGED local
          \/ /\ fresh # {} /\ InSequence(k.auth, fresh)
             /\ Absorb(c, log, fresh, [taken EXCEPT !.pc = "readSave"])
  /\ UNCHANGED <<log, saved, holders, late, outcome, faults>>

\* A consumer ends: its subscription failed or ended, or it was closed by an
\* earlier scheduleReconnect() and comes to its end only now, the generation being
\* the same, and so closes the subscription that replaced it.  (A running operation
\* does not look at the link: it makes no difference whether it is over.)
SubscriptionEnds(c) ==
  /\ client[c].pc = "idle" /\ client[c].started /\ client[c].link = "up"
  /\ client' = [client EXCEPT ![c] = Reconnect(@)]
  /\ UNCHANGED <<log, local, saved, holders, late, outcome, faults>>

-----------------------------------------------------------------------------
(* appendMutations() *)

Revision(lg, m) == CHOOSE r \in DOMAIN lg : lg[r] = m
AllStored(queue) == Range(queue) \subseteq Range(log)

\* Mutant of Appendable: only the revision is compared.
AppendableAgain(batch, expected) == expected <= Len(log)

\* eventStore.append(): the batch is written as a whole, at the expected revision,
\* if none of its mutations is stored.
Appendable(batch, expected) ==
  expected = Len(log) /\ Range(batch) \cap Range(log) = {}

Drained(k) == [k EXCEPT !.pc = "ackSave", !.pending = <<>>, !.base = 0]

\* The whole batch is acknowledged, with `latest` as latestRevision, out of the log
\* `lg`.  validateAppendMutationHead(): the events must continue the projection and
\* end at latestRevision.  A gap is closed with a snapshot; another head is taken
\* for a fault of the adapter, and the coordinator fails permanently.
Acknowledge(c, lg, latest) ==
  LET k == client[c]
      fresh == Fresh(lg, k.auth, {Revision(lg, m) : m \in Range(k.pending)})
      head == IF fresh = {} THEN Len(k.auth) ELSE Max(fresh) IN
  \/ /\ InSequence(k.auth, fresh) /\ head = latest
     /\ Absorb(c, lg, fresh, Drained(k))
  \/ /\ InSequence(k.auth, fresh) /\ head # latest
     /\ client' = [client EXCEPT ![c] = Failed(k)]
     /\ UNCHANGED local
  \/ /\ ~InSequence(k.auth, fresh)
     /\ client' = [client EXCEPT ![c] = [k EXCEPT !.pc = "ackPull", !.base = latest]]
     /\ UNCHANGED local

\* Mutant of Conflicted: a conflict is always answered by a snapshot.
ConflictedForever(k) == [k EXCEPT !.pc = "conflictPull", !.conflicts = @ + 1, !.base = 0]

\* The ninth conflict in a row throws, the others are answered by a snapshot.
Conflicted(k) ==
  IF k.conflicts = MaximumConflicts THEN Thrown(k)
  ELSE [k EXCEPT !.pc = "conflictPull", !.conflicts = @ + 1, !.base = 0]

\* appendMutations() of the adapter, and what the coordinator makes of its answer.
\* The adapter first reads the latest revision (`observed`, which the log may have
\* passed by the time it goes on); a batch for another revision is acknowledged if
\* it is stored completely, and otherwise conflicts; a batch for that revision is
\* left to the atomic append, whose conflict is again acknowledged if the batch is
\* stored completely.
Serve(c) ==
  LET k == client[c]
      expected == Len(k.auth)
      batch == k.pending IN
  /\ k.pc = "sent" /\ Len(batch) <= MaximumBatch
  /\ \/ /\ AllStored(batch)
        /\ \E observed \in k.base..Len(log) :
             Acknowledge(c, log, IF observed = expected THEN Len(log) ELSE observed)
        /\ UNCHANGED log
     \/ /\ Appendable(batch, expected)
        /\ log' = log \o batch
        /\ Acknowledge(c, log \o batch, Len(log) + Len(batch))
     \/ /\ ~AllStored(batch) /\ ~Appendable(batch, expected)
        /\ client' = [client EXCEPT ![c] = Conflicted(k)]
        /\ UNCHANGED <<log, local>>
  /\ UNCHANGED <<saved, holders, late, outcome, faults>>

\* canonicalize() takes a batch beyond its size for an invalid one, which the
\* adapter answers with `unauthorized`.
ServeOversized(c) ==
  /\ client[c].pc = "sent" /\ Len(client[c].pending) > MaximumBatch
  /\ Refuse(c)
  /\ UNCHANGED <<log, local, late, faults>>

\* The snapshot that closes a gap holds every acknowledged event; it is installed
\* if it ends where the answer said.
AckPull(c) ==
  LET k == client[c]
      installed == [k EXCEPT !.auth = log] IN
  /\ k.pc = "ackPull"
  /\ \/ Len(log) = k.base /\ Persist(c, Drained(installed), Thrown(installed))
     \/ /\ Len(log) # k.base
        /\ client' = [client EXCEPT ![c] = Failed(k)]
        /\ UNCHANGED <<saved, holders>>
  /\ UNCHANGED <<log, local, late, outcome, faults>>

\* The acknowledged mutations have left the queue in memory; now in the record.
AckSave(c) ==
  LET k == client[c] IN
  /\ k.pc = "ackSave"
  /\ Persist(c, SendOrEnd(k), Thrown(k))
  /\ UNCHANGED <<log, local, late, outcome, faults>>

ConflictPull(c) ==
  LET k == [client[c] EXCEPT !.auth = log] IN
  /\ k.pc = "conflictPull"
  /\ Persist(c, SendOrEnd(k), Thrown(k))
  /\ UNCHANGED <<log, local, late, outcome, faults>>

-----------------------------------------------------------------------------
(* Failures, and the rest of the world *)

Remote == {"read", "readPull", "updatePull", "sent", "conflictPull", "ackPull"}

\* The request a coordinator at "sent" has under way: the adapter may serve it
\* although nobody waits for the answer.  Bound: one such request per client.
Abandon(c) ==
  late' = IF client[c].pc = "sent" /\ late[c] = None
          THEN [late EXCEPT ![c] = [batch |-> client[c].pending,
                                    expected |-> Len(client[c].auth)]]
          ELSE late

\* A remote call fails: the adapter answers `temporarily_unavailable`, or its
\* promise is rejected (the gateway client of src/src/client/synchronization.ts).
CallFails(c) ==
  LET k == client[c] IN
  /\ k.pc \in Remote /\ Fault
  /\ \/ client' = [client EXCEPT ![c] = Reconnect(Idle(k))]
     \/ client' = [client EXCEPT ![c] = Thrown(k)]
  /\ Abandon(c)
  /\ UNCHANGED <<log, local, saved, holders, outcome>>

\* The adapter denies a call or rejects the batch, or an update of the subscription
\* says so.  (The snapshot an update asks for is the exception: only retried.)
CallDenied(c) ==
  LET k == client[c] IN
  /\ Fault
  /\ \/ /\ k.pc \in Remote \ {"updatePull"} \/ (k.pc = "idle" /\ k.started)
        /\ Refuse(c)
     \/ /\ k.pc = "updatePull"
        /\ client' = [client EXCEPT ![c] = Reconnect(Idle(k))]
        /\ UNCHANGED <<saved, holders, outcome>>
  /\ UNCHANGED <<log, local, late>>

\* A request that nobody waits for is served: appended, or without effect.
ServeLate(c) ==
  /\ late[c] # None
  /\ log' = IF Appendable(late[c].batch, late[c].expected) THEN log \o late[c].batch ELSE log
  /\ late' = [late EXCEPT ![c] = None]
  /\ UNCHANGED <<local, saved, holders, client, outcome, faults>>

\* The page is closed or its process dies; a new coordinator can be started.
Crash(c) ==
  LET s == StoreOf[c] IN
  /\ client[c] # NewClient /\ Fault
  /\ client' = [client EXCEPT ![c] = NewClient]
  /\ holders' = [holders EXCEPT ![s] = IF saved[s].stored THEN @ \ {c} ELSE @]
  /\ Abandon(c)
  /\ UNCHANGED <<log, local, saved, outcome>>

\* stop(): the running operation goes on; a flush ends with its current batch.
Stop(c) ==
  /\ client[c].started /\ Fault
  /\ client' = [client EXCEPT ![c].started = FALSE, ![c].link = "down"]
  /\ UNCHANGED <<log, local, saved, holders, late, outcome>>

\* The server appends an event of its own, from a turn for instance.
ServerAppends(e) ==
  /\ e \notin Range(log) /\ RoomForEvent
  /\ log' = Append(log, e)
  /\ UNCHANGED <<local, saved, holders, client, late, outcome, faults>>

-----------------------------------------------------------------------------
(* The specification *)

\* The next step of a coordinator's running operation.
Step(c) ==
  \/ StartSave(c) \/ Read(c) \/ ReadSave(c) \/ ReadPull(c) \/ Serve(c)
  \/ ServeOversized(c) \/ AckPull(c) \/ AckSave(c) \/ ConflictPull(c)

Next ==
  \/ \E c \in Clients :
       \/ Start(c) \/ Connect(c) \/ Update(c) \/ Step(c) \/ Flush(c)
       \/ \E m \in Mutations : QueueMutation(c, m)
       \/ SubscriptionEnds(c) \/ ReadCompacted(c) \/ CallFails(c) \/ CallDenied(c)
       \/ ServeLate(c) \/ Crash(c) \/ Stop(c)
  \/ \E e \in ServerEvents : ServerAppends(e)

Spec == Init /\ [][Next]_vars

\* Operations run to their end, and a due reconnect gets its turn.  Of the host: it
\* starts a coordinator that is not running, and calls flush() while mutations are
\* queued.
Fairness ==
  \A c \in Clients : WF_vars(Step(c) \/ Connect(c) \/ Start(c) \/ Flush(c))

FairSpec == Spec /\ Fairness

-----------------------------------------------------------------------------
(* Properties *)

\* Every variable stays within its type.
TypeOK ==
  /\ log \in Seq(Events)
  /\ local \in [Stores -> Seq(Events)]
  /\ saved \in [Stores -> Record]
  /\ holders \in [Stores -> SUBSET Clients]
  /\ client \in [Clients -> Client]
  /\ late \in [Clients -> Request \cup {None}]
  /\ outcome \in [Mutations -> {"none", "queued", "requeued", "repeated", "failed", "rejected"}]
  /\ faults \in 0..MaxFaults

\* No mutation and no server event is in the authoritative log twice: an append
\* whose answer was lost, which another tab also sends from the shared queue, or
\* which is served after its sender gave up, is recognised when it is sent again.
AppendedOnce == IsInjective(log)

\* What a coordinator projects, what a device has logged and what it has saved are
\* prefixes of the authoritative log: no gap, no event out of place, nothing that
\* the server did not commit, whatever pages, acknowledgements and snapshots
\* arrived in whatever order, and wherever a crash cut an operation in two.
Faithful ==
  /\ \A c \in Clients : IsPrefix(client[c].auth, log)
  /\ \A s \in Stores : IsPrefix(local[s], log) /\ IsPrefix(saved[s].auth, log)

\* A mutation that queueMutation() accepted and saved is in the log or still in the
\* saved queue of its device until the host is told that it is rejected: no tab
\* saves over the queue of another one, and none drops a mutation before the log
\* has it.
NothingLost ==
  \A m \in Mutations : outcome[m] \in {"queued", "requeued"} =>
    m \in Range(log) \cup Range(saved[StoreOf[Author[m]]].pending)

\* The log has a device's mutations in the order they were queued, and none without
\* the ones queued before it (those the host was told to be rejected apart).
InQueueOrder ==
  \A m, n \in Mutations :
    /\ m < n /\ StoreOf[Author[m]] = StoreOf[Author[n]]
    /\ outcome[m] = "queued" /\ outcome[n] = "queued" /\ n \in Range(log)
    => m \in Range(log) /\ Revision(log, m) < Revision(log, n)

\* What a device knows of the conversation never shrinks: neither the projection of
\* a running coordinator nor the saved one goes back, over snapshots, restarts and
\* the saves of another tab.
AuthorityGrows ==
  [][/\ \A c \in Clients : client[c].started /\ client'[c].started
          => IsPrefix(client[c].auth, client'[c].auth)
     /\ \A s \in Stores : IsPrefix(saved[s].auth, saved'[s].auth)]_vars

\* The queue whose head is committed and whose rest is not: the adapter neither
\* acknowledges nor appends such a batch, and answers `conflict` every time.
PartlyStored(queue) == Range(queue) \cap Range(log) # {} /\ ~AllStored(queue)

\* A mutation that was accepted is eventually in the log, or reported as rejected:
\* whatever failed, reconnecting, restarting and flushing brings it there.  The one
\* exception the code makes is a device whose saved queue is stored in part.
QueuedIsDelivered ==
  \A m \in Mutations :
    outcome[m] = "queued" ~>
      \/ m \in Range(log) \/ outcome[m] = "rejected"
      \/ PartlyStored(saved[StoreOf[Author[m]]].pending)
=============================================================================
