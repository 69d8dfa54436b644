------------------------ MODULE ConversationRuntime ------------------------
(***************************************************************************)
(* The conversation runtime of src/src/runtime.ts: it admits a turn to the *)
(* conversation's event log, has a transport run it, and writes the frames *)
(* it observes, and the outcome, to the log.  Several runtimes work on one *)
(* conversation: browsers, the server's live projection of a running turn  *)
(* (src/src/server/live-conversation-projection.ts) and its reconciliation *)
(* of a stored one.  They meet only in the log, which takes an append at   *)
(* the expected revision or refuses it.                                    *)
(*                                                                         *)
(* A runtime's projection is a prefix of the log (`rev` events of it), and *)
(* what it knows of a turn (protocolByTurn, durableFrameKeys) is what that *)
(* prefix says.  A frame is named by its sequence number, from 1; frames   *)
(* with the same number have the same content.                             *)
(***************************************************************************)
EXTENDS Naturals, Sequences, FiniteSets, FiniteSetsExt, SequencesExt

CONSTANTS
  Runtimes,        \* instances of createConversationRuntime() on the conversation
  Senders,         \* those that send messages; the others project on the server
  Turns,           \* turns that sendMessage() admits
  Response,        \* the kinds of the frames that each turn produces, a terminal last
  PauseAfter,      \* frames after which a turn waits for an approval (0: never)
  None,            \* null
  BatchSize,       \* maximumItems of streamBatches() (64), 1 without batchTextFrames
  MaximumAttempts, \* maximumAttempts of the retry policy of each runtime
  MaximumRebases,  \* MAX_RUNTIME_APPEND_REVISION_RETRIES (2)
  Histories        \* bound: the turns that one behaviour may have, its calls of
                   \* resumeTurn(), and its faults: lost answers, failed calls,
                   \* stops, cancellations and crashes

Kinds == {"started", "text", "empty", "tool_call", "usage"}
Terminals == {"completed", "cancelled", "failed"}

ASSUME ResponseAssumption ==
  \A t \in Turns :
    /\ Response[t] \in Seq(Kinds \cup Terminals) /\ Response[t] # <<>>
    /\ Head(Response[t]) = "started" /\ Last(Response[t]) \in Terminals
ASSUME RuntimesAssumption ==
  /\ Senders \subseteq Runtimes
  /\ MaximumAttempts \in [Runtimes -> Nat \ {0}]
ASSUME BoundsAssumption ==
  /\ BatchSize \in Nat \ {0} /\ MaximumRebases \in Nat /\ PauseAfter \in [Turns -> Nat]
  /\ Histories \subseteq [turns : SUBSET Turns, resumes : Nat, faults : Nat]
ASSUME NoneAssumption == None \notin Turns \cup Runtimes \cup Terminals

VARIABLES
  log,      \* the conversation's event store
  remote,   \* what the transport has run of each turn
  runtime,  \* the memory of each runtime
  faults    \* failures so far

vars == <<log, remote, runtime, faults>>

-----------------------------------------------------------------------------
(* Types *)

\* type: "admitted" is message.created with turn.started, "bound" a status with the
\* transport's turn id, "resumed" the running status that an approval writes, "retry"
\* an entry of the retry history, "stopping" turn.cancellation_requested.  seq: the
\* frame that the event stands for, if any; safe: its resumeSafe; message: the message
\* of a text, named after the runtime that created it.
Event == [type : {"admitted", "bound", "resumed", "retry", "frame", "waiting", "stopping"}
                   \cup Terminals,
          turn : Turns, seq : Nat, safe : BOOLEAN, message : Runtimes \cup {None}]

Plain(type, t) == [type |-> type, turn |-> t, seq |-> 0, safe |-> FALSE, message |-> None]

\* The transport's side of a turn; frames: what it has produced so far.
Remote == [running : BOOLEAN, approved : BOOLEAN, cancelled : BOOLEAN,
           frames : Seq(Kinds \cup Terminals)]

\* What an operation tells its host.
Told == Terminals \cup {"waiting", "disconnected", "interrupted", "busy", "error", None}

\* pc: the await that the turn's operation is at.  rev: the projection is the log up
\* to here; retries: rebases of the append under way; starting: the last failure was
\* one of startTurn(); bound: startTurn() has answered; safe: protocol.safeSequence;
\* base, expected: the first and the next sequence of this observation; batch:
\* accepted frames whose drafts are not saved; terminal: the terminal frame accepted;
\* failed: frameState.failure is set; result: the status of observation.result; told:
\* what the last operation returned; cancel: how far cancelTurn() is; cancelling: the
\* turn is in cancellationRequestedTurns.
Runtime == [pc : {"idle", "admit", "attempt", "call", "bind", "observe", "result",
                  "wait", "finish", "retry", "exhausted", "fail", "settle"},
            turn : Turns \cup {None}, rev : Nat, retries : 0..MaximumRebases,
            attempt : Nat, starting : BOOLEAN, bound : BOOLEAN, safe : Nat,
            base : Nat, expected : Nat, unsafe : BOOLEAN,
            batch : Seq([seq : Nat, safe : BOOLEAN]), terminal : Terminals \cup {None},
            failed : BOOLEAN, stopped : BOOLEAN,
            result : Terminals \cup {"disconnected", "waiting", None},
            told : Told,
            cancel : {"none", "saved", "sent"}, cancelling : BOOLEAN,
            resumes : Nat]

\* A runtime that has just been created, having replayed the log up to `rev`.
NewRuntime(rev, resumes) ==
  [pc |-> "idle", turn |-> None, rev |-> rev, retries |-> 0, attempt |-> 0,
   starting |-> FALSE, bound |-> FALSE, safe |-> 0, base |-> 0, expected |-> 0,
   unsafe |-> FALSE, batch |-> <<>>, terminal |-> None, failed |-> FALSE,
   stopped |-> FALSE, result |-> None, told |-> None, cancel |-> "none",
   cancelling |-> FALSE, resumes |-> resumes]

Init ==
  /\ log = <<>>
  /\ remote = [t \in Turns |-> [running |-> FALSE, approved |-> FALSE, cancelled |-> FALSE,
                                frames |-> <<>>]]
  /\ runtime = [r \in Runtimes |-> NewRuntime(0, 0)]
  /\ faults = 0

\* The bounds leave room for `t`, or for so many more resumptions or faults.
Within(t, resumed, failed) ==
  \E history \in Histories :
    /\ faults + failed <= history.faults
    /\ t \in history.turns \cup {None} /\ \A i \in DOMAIN log : log[i].turn \in history.turns
    /\ MapThenSumSet(LAMBDA r : runtime[r].resumes, Runtimes) + resumed <= history.resumes

Fault == Within(None, 0, 1) /\ faults' = faults + 1
NoFault == UNCHANGED faults

-----------------------------------------------------------------------------
(* The reducer: what a log says of its turns *)

Prefix(k) == SubSeq(log, 1, k.rev)
Known(lg, t) == \E i \in DOMAIN lg : lg[i].turn = t

\* terminateTurn(): the first terminal event of a turn counts.
Terminal(lg, t) == {i \in DOMAIN lg : lg[i].turn = t /\ lg[i].type \in Terminals}
Canonical(lg, t) == IF Terminal(lg, t) = {} THEN None ELSE lg[Min(Terminal(lg, t))].type

\* Events that give a turn a status other than waiting: they make it the active one.
Opening(e) ==
  \/ e.type \in {"admitted", "bound", "resumed"}
  \/ e.type = "frame" /\ Response[e.turn][e.seq] = "started"

\* Statuses that count: those before the turn's terminal.
Statuses(lg) ==
  {i \in DOMAIN lg : /\ Opening(lg[i]) \/ lg[i].type = "waiting"
                     /\ \A j \in Terminal(lg, lg[i].turn) : j > i}

\* active_turn_id: of the last turn that was opened, unless it waits or has ended.
Active(lg) ==
  LET opened == {i \in Statuses(lg) : Opening(lg[i])} IN
  IF opened = {} THEN None
  ELSE LET t == lg[Max(opened)].turn IN
       IF Terminal(lg, t) # {} \/ \E i \in Statuses(lg) :
            i > Max(opened) /\ lg[i].turn = t /\ lg[i].type = "waiting"
       THEN None ELSE t

Waiting(lg, t) ==
  LET own == {i \in Statuses(lg) : lg[i].turn = t} IN
  own # {} /\ lg[Max(own)].type = "waiting"

\* rememberRuntimeMetadata(): the frames that events of the log stand for, the last
\* safe one of them, and the transport identity.
FrameKeys(lg, t) == {lg[i].seq : i \in {j \in DOMAIN lg : lg[j].turn = t /\ lg[j].seq > 0}}
SafeSequence(lg, t) ==
  Max({0} \cup {lg[i].seq : i \in {j \in DOMAIN lg : lg[j].turn = t /\ lg[j].safe}})
Bound(lg, t) == \E i \in DOMAIN lg : lg[i].turn = t /\ lg[i].type = "bound"

\* streamedAssistantMessageId()
MessageOf(lg, t) ==
  LET texts == {i \in DOMAIN lg : lg[i].turn = t /\ lg[i].message # None} IN
  IF texts = {} THEN None ELSE lg[Min(texts)].message

-----------------------------------------------------------------------------
(* Reading and writing the log *)

\* catchUpRuntimeStore(): the events after the projection are applied.
CaughtUp(k) ==
  [k EXCEPT !.rev = Len(log),
            !.safe = Max({@, SafeSequence(SubSeq(log, k.rev + 1, Len(log)), k.turn)})]

\* assertRebasedDraftsRemainCompatible(): what is rebased onto events of others must
\* still be about the active turn.
Compatible(lg, drafts) ==
  \A i \in DOMAIN drafts : drafts[i].type = "admitted" \/ Active(lg) = drafts[i].turn

\* persistGenerated(): `drafts`, made from the projection, is appended where the
\* projection ends.  A revision conflict makes the runtime catch up, and the caller
\* makes its drafts again, a few times.  With nothing to save, or once it is saved,
\* the runtime goes on as `next`; when the append fails it goes on as `thrown`,
\* although the log may have the events.
Persist(r, drafts, next, thrown) ==
  LET k == runtime[r]
      fits == k.retries = 0 \/ Compatible(Prefix(k), drafts)
      saved == [next EXCEPT !.rev = Len(log) + Len(drafts), !.retries = 0,
                            !.safe = Max({@, SafeSequence(drafts, k.turn)})] IN
  \/ /\ drafts = <<>>
     /\ runtime' = [runtime EXCEPT ![r] = [next EXCEPT !.retries = 0]]
     /\ UNCHANGED log /\ NoFault
  \/ /\ drafts # <<>> /\ fits /\ k.rev = Len(log)
     /\ log' = log \o drafts
     /\ runtime' = [runtime EXCEPT ![r] = saved]
     /\ NoFault
  \/ /\ drafts # <<>> /\ fits /\ k.rev # Len(log) /\ k.retries < MaximumRebases
     /\ runtime' = [runtime EXCEPT ![r] = [CaughtUp(k) EXCEPT !.retries = @ + 1]]
     /\ UNCHANGED log /\ NoFault
  \/ /\ drafts # <<>> /\ (fits => k.rev # Len(log) /\ k.retries = MaximumRebases)
     /\ runtime' = [runtime EXCEPT ![r] = [thrown EXCEPT !.retries = 0]]
     /\ UNCHANGED log /\ NoFault
  \/ /\ drafts # <<>> /\ fits /\ k.rev = Len(log) /\ Fault
     /\ \/ log' = log \o drafts
        \/ UNCHANGED log
     /\ runtime' = [runtime EXCEPT ![r] = [thrown EXCEPT !.retries = 0]]

-----------------------------------------------------------------------------
(* How an operation goes on *)

Returns(k, status) ==
  [NewRuntime(k.rev, k.resumes) EXCEPT
     !.told = status, !.turn = k.turn, !.safe = k.safe, !.bound = k.bound,
     !.cancel = k.cancel, !.cancelling = k.cancelling]

\* The catch clause of runTurnWithRetry(): only authoritative history settles a turn
\* whose writes failed.
Throws(k) == [k EXCEPT !.pc = "settle"]

\* A failed attempt that is not retried: a turn that could not be started is failed,
\* and otherwise the host is told what became of the observation.
GivesUp(k) ==
  IF k.starting THEN [k EXCEPT !.pc = "fail"]
  ELSE Returns(k, IF k.result = "disconnected" /\ ~k.failed THEN "disconnected" ELSE "interrupted")

\* executeWithRetry() after a failed attempt: whether the error is retryable, the
\* attempts that are left, and the elapsed time decide.
Attempted(r, k) ==
  {GivesUp(k), [k EXCEPT !.pc = "exhausted"]}
    \cup (IF k.attempt < MaximumAttempts[r] THEN {[k EXCEPT !.pc = "retry"]} ELSE {})

\* retryResultForObservation(): after stopObserving() or cancelTurn() an observation
\* is not retried.
Observed(r, k, retryable) ==
  IF k.stopped \/ k.cancelling \/ ~retryable THEN {GivesUp(k)}
  ELSE Attempted(r, k) \ {GivesUp(k)}

\* The start of observeTransport().
Observes(k) ==
  [k EXCEPT !.pc = "observe", !.starting = FALSE, !.base = k.safe + 1, !.expected = k.safe + 1,
            !.unsafe = FALSE, !.batch = <<>>, !.terminal = None, !.failed = FALSE,
            !.result = None]

-----------------------------------------------------------------------------
(* sendMessage() and resumeTurn() *)

\* The runtime catches up before it looks for an active turn a second time.
SendMessage(r, t) ==
  LET k == CaughtUp(runtime[r]) IN
  /\ r \in Senders /\ runtime[r].pc = "idle"
  /\ ~Known(log, t) /\ \A q \in Runtimes : runtime[q].turn # t
  /\ Within(t, 0, 0)
  /\ Active(Prefix(runtime[r])) = None
  /\ runtime' = [runtime EXCEPT ![r] =
       IF Active(log) # None THEN Returns(k, "busy")
       ELSE [NewRuntime(k.rev, k.resumes) EXCEPT !.pc = "admit", !.turn = t]]
  /\ UNCHANGED <<log, remote>> /\ NoFault

\* Mutant: nobody looks for an active turn again after a conflict.
AdmitUnchecked(r) ==
  LET k == runtime[r] IN
  /\ k.pc = "admit"
  /\ Persist(r, <<Plain("admitted", k.turn)>>, [k EXCEPT !.pc = "attempt", !.attempt = 1],
             Returns(k, "error"))
  /\ UNCHANGED remote

\* persistAdmittedTurn(): after a conflict, too, a turn is admitted only if no other
\* one is active.
Admit(r) ==
  LET k == runtime[r] IN
  /\ k.pc = "admit"
  /\ \/ /\ Active(Prefix(k)) # None
        /\ runtime' = [runtime EXCEPT ![r] = Returns([k EXCEPT !.turn = None], "busy")]
        /\ UNCHANGED log /\ NoFault
     \/ /\ Active(Prefix(k)) = None
        /\ Persist(r, <<Plain("admitted", k.turn)>>, [k EXCEPT !.pc = "attempt", !.attempt = 1],
                   Returns(k, "error"))
  /\ UNCHANGED remote

\* resumeTurn(), of a turn whose transport identity is in the log.  The server makes
\* a new runtime for it.
ResumeTurn(r, t) ==
  LET k == IF r \in Senders THEN runtime[r] ELSE NewRuntime(Len(log), runtime[r].resumes) IN
  /\ runtime[r].pc = "idle" /\ Within(t, 1, 0)
  /\ Bound(Prefix(k), t) /\ Canonical(Prefix(k), t) = None
  /\ runtime' = [runtime EXCEPT ![r] =
       [NewRuntime(k.rev, k.resumes + 1) EXCEPT
          !.pc = "attempt", !.turn = t, !.attempt = 1,
          !.safe = IF k.turn = t THEN k.safe ELSE SafeSequence(Prefix(k), t),
          !.cancel = IF k.turn = t THEN k.cancel ELSE @,
          !.cancelling = k.turn = t /\ k.cancelling]]
  /\ UNCHANGED <<log, remote>> /\ NoFault

-----------------------------------------------------------------------------
(* One attempt *)

Attempt(r) ==
  LET k == runtime[r] IN
  /\ k.pc = "attempt"
  /\ \/ /\ k.stopped /\ k.retries = 0
        /\ runtime' = [runtime EXCEPT ![r] = Returns(k, "disconnected")]
        /\ UNCHANGED log /\ NoFault
     \/ /\ k.stopped => k.retries > 0
        /\ Persist(r, <<Plain("retry", k.turn)>>, [k EXCEPT !.pc = "call"], Throws(k))
  /\ UNCHANGED remote

\* startTurn(), or resumeTurn() once the transport's identity is known.  A start is
\* idempotent; its answer may be lost although the turn runs.
Call(r) ==
  LET k == runtime[r]
      started == [remote EXCEPT ![k.turn].running = TRUE] IN
  /\ k.pc = "call"
  /\ \/ /\ k.stopped
        /\ runtime' = [runtime EXCEPT ![r] = Returns(k, "disconnected")]
        /\ UNCHANGED remote /\ NoFault
     \/ /\ ~k.stopped /\ (k.bound \/ Bound(Prefix(k), k.turn))
        /\ \/ runtime' = [runtime EXCEPT ![r] = Observes(k)] /\ NoFault
           \/ /\ Fault
              /\ \E next \in Attempted(r, [k EXCEPT !.starting = FALSE]) :
                   runtime' = [runtime EXCEPT ![r] = next]
        /\ UNCHANGED remote
     \/ /\ ~k.stopped /\ ~k.bound /\ ~Bound(Prefix(k), k.turn)
        /\ \/ /\ runtime' = [runtime EXCEPT ![r].pc = "bind", ![r].bound = TRUE]
              /\ remote' = started /\ NoFault
           \/ /\ Fault
              /\ remote' \in {remote, started}
              /\ \E next \in Attempted(r, [k EXCEPT !.starting = TRUE]) :
                   runtime' = [runtime EXCEPT ![r] = next]
  /\ UNCHANGED log

\* The transport's identity is saved, unless the turn has ended meanwhile.
Bind(r) ==
  LET k == runtime[r] IN
  /\ k.pc = "bind"
  /\ Persist(r, IF Canonical(Prefix(k), k.turn) # None THEN <<>> ELSE <<Plain("bound", k.turn)>>,
             Observes(k), Throws(k))
  /\ UNCHANGED remote

-----------------------------------------------------------------------------
(* observeTransport() *)

\* acceptFrame(): a frame is known if the log has it, or this observation.
KnownFrame(k, i) == i \in FrameKeys(Prefix(k), k.turn) \/ (k.base <= i /\ i < k.expected)

\* streamBatches(): text frames are collected, any other frame is a batch of its own.
Textual == {"text", "empty"}
Joins(k, kind) ==
  k.batch = <<>> \/ (kind \in Textual /\ Len(k.batch) < BatchSize
                     /\ \A i \in DOMAIN k.batch : remote[k.turn].frames[k.batch[i].seq] \in Textual)

\* Mutant: usage does not make what follows it unsafe.
AcceptedAllSafe(k, kind) ==
  LET next == [k EXCEPT !.expected = @ + 1] IN
  IF KnownFrame(k, k.expected) \/ kind \in {"usage", "empty"} THEN next
  ELSE IF kind \in Terminals THEN [next EXCEPT !.terminal = kind]
  ELSE [next EXCEPT !.batch = Append(@, [seq |-> k.expected, safe |-> ~k.unsafe])]

\* acceptFrame() and draftsForNonterminalFrame(), for the expected frame.  Usage is
\* never written: what follows it is not safe to resume after.
Accepted(k, kind) ==
  LET next == [k EXCEPT !.expected = @ + 1] IN
  IF KnownFrame(k, k.expected) THEN next
  ELSE CASE kind = "usage" -> [next EXCEPT !.unsafe = TRUE]
         [] kind = "empty" -> next
         [] kind \in Terminals -> [next EXCEPT !.terminal = kind]
         [] OTHER -> [next EXCEPT !.batch = Append(@, [seq |-> k.expected, safe |-> ~k.unsafe])]

\* Frames arrive: the expected one, one that was delivered before (if nobody knows it,
\* that is a fault of the protocol), or one beyond a gap.
Deliver(r) ==
  LET k == runtime[r] IN
  /\ k.pc = "observe" /\ k.retries = 0 /\ ~k.failed
  /\ \E i \in DOMAIN remote[k.turn].frames :
       LET kind == remote[k.turn].frames[i] IN
       \/ /\ i = k.expected /\ Joins(k, kind)
          /\ runtime' = [runtime EXCEPT ![r] = Accepted(k, kind)] /\ NoFault
       \/ /\ i < k.expected /\ ~KnownFrame(k, i)
          /\ runtime' = [runtime EXCEPT ![r].failed = TRUE] /\ NoFault
       \/ /\ i > k.expected /\ Fault
          /\ runtime' = [runtime EXCEPT ![r].failed = TRUE]
  /\ UNCHANGED <<log, remote>>

\* The positions of the batch whose frames the log does not have, and their one
\* enumeration in order.
Fresh(k) == {i \in DOMAIN k.batch : k.batch[i].seq \notin FrameKeys(Prefix(k), k.turn)}
InOrder(S) ==
  {at \in Bijection(1..Cardinality(S), S) : \A i, j \in DOMAIN at : i < j => at[i] < at[j]}

\* Mutant: the drafts are not made again from what the log has meanwhile.
FrameDraftsAsMade(r, at) ==
  LET k == runtime[r] IN
  [i \in DOMAIN k.batch |->
     [type |-> "frame", turn |-> k.turn, seq |-> k.batch[i].seq, safe |-> k.batch[i].safe,
      message |-> IF remote[k.turn].frames[k.batch[i].seq] = "text" THEN r ELSE None]]

\* persistFrameDrafts(), for the fresh frames `at`: frames that the log has meanwhile
\* are left out, and texts go to the message that the log has for the turn.
FrameDrafts(r, at) ==
  LET k == runtime[r]
      message == IF MessageOf(Prefix(k), k.turn) = None THEN r ELSE MessageOf(Prefix(k), k.turn) IN
  [i \in DOMAIN at |->
     [type |-> "frame", turn |-> k.turn, seq |-> k.batch[at[i]].seq, safe |-> k.batch[at[i]].safe,
      message |-> IF remote[k.turn].frames[k.batch[at[i]].seq] = "text" THEN message ELSE None]]

\* The batch is saved, also when a later frame was refused.  safeSequence is then that
\* of the batch, even if others are further.
SaveFrames(r) ==
  LET k == runtime[r]
      safe == {k.batch[i].seq : i \in {j \in DOMAIN k.batch : k.batch[j].safe}} IN
  /\ k.pc = "observe" /\ k.batch # <<>>
  /\ \E at \in InOrder(Fresh(k)) :
       Persist(r, FrameDrafts(r, at),
               [k EXCEPT !.batch = <<>>, !.safe = IF safe = {} THEN @ ELSE Max(safe)],
               [k EXCEPT !.batch = <<>>, !.failed = TRUE])
  /\ UNCHANGED remote

\* The stream of frames has ended, and observation.result is there: with everything
\* that the turn produced up to its end or its pause; because the runtime has
\* disconnected (after a fault, stopObserving(), or when synchronize() or cancelTurn()
\* found the turn ended); or because the transport failed.
Ended(t) == remote[t].frames # <<>> /\ Last(remote[t].frames) \in Terminals
Paused(t) ==
  PauseAfter[t] > 0 /\ Len(remote[t].frames) = PauseAfter[t] /\ ~remote[t].approved
EndStream(r) ==
  LET k == runtime[r]
      frames == remote[k.turn].frames IN
  /\ k.pc = "observe" /\ k.retries = 0 /\ k.batch = <<>>
  /\ \E result \in Terminals \cup {"disconnected", "waiting"} :
       /\ runtime' = [runtime EXCEPT ![r].pc = "result", ![r].result = result]
       /\ \/ /\ k.expected > Len(frames) /\ frames # <<>> /\ Last(frames) = result /\ NoFault
          \/ k.expected > Len(frames) /\ Paused(k.turn) /\ result = "waiting" /\ NoFault
          \/ /\ k.failed \/ k.stopped \/ Canonical(Prefix(k), k.turn) # None
             /\ result = "disconnected" /\ NoFault
          \/ result \in {"disconnected", "failed"} /\ Fault
  /\ UNCHANGED <<log, remote>>

\* What the observation amounts to.  After a fault the runtime catches up first; the
\* log's own outcome of the turn comes before anything that was observed.
Conclude(r) ==
  LET k == IF runtime[r].failed THEN CaughtUp(runtime[r]) ELSE runtime[r]
      canonical == Canonical(Prefix(k), k.turn) IN
  /\ k.pc = "result"
  /\ \/ /\ canonical # None
        /\ runtime' = [runtime EXCEPT ![r] = Returns(k, canonical)]
     \/ /\ canonical = None /\ k.failed
        /\ \E next \in Observed(r, k, FALSE) : runtime' = [runtime EXCEPT ![r] = next]
     \/ /\ canonical = None /\ ~k.failed /\ k.result = "waiting"
        /\ runtime' = [runtime EXCEPT ![r] =
             IF k.terminal = None THEN [k EXCEPT !.pc = "wait"] ELSE Returns(k, "interrupted")]
     \/ /\ canonical = None /\ ~k.failed /\ k.result # "waiting" /\ k.terminal = None
        /\ \E retryable \in IF k.result = "failed" THEN BOOLEAN ELSE {TRUE} :
           \E next \in Observed(r, k, retryable) : runtime' = [runtime EXCEPT ![r] = next]
     \/ /\ canonical = None /\ ~k.failed /\ k.result # "waiting" /\ k.terminal # None
        /\ runtime' = [runtime EXCEPT ![r] =
             IF k.terminal = k.result THEN [k EXCEPT !.pc = "finish"] ELSE Returns(k, "interrupted")]
  /\ UNCHANGED <<log, remote>> /\ NoFault

\* The pause is recorded, unless it is or the turn has ended.  The store refuses a
\* pause that an approval has superseded (src/src/sync/durable-application-adapter.ts,
\* src/src/server/reconcile-conversation.ts).
Wait(r) ==
  LET k == runtime[r]
      recorded == Waiting(Prefix(k), k.turn) \/ Canonical(Prefix(k), k.turn) # None IN
  /\ k.pc = "wait"
  /\ \/ /\ recorded \/ ~remote[k.turn].approved
        /\ Persist(r, IF recorded THEN <<>> ELSE <<Plain("waiting", k.turn)>>,
                   Returns(k, "waiting"), Throws(k))
     \/ /\ ~recorded /\ remote[k.turn].approved
        /\ runtime' = [runtime EXCEPT ![r] = [Throws(k) EXCEPT !.retries = 0]]
        /\ UNCHANGED log /\ NoFault
  /\ UNCHANGED remote

\* Mutant: the outcome that was observed is told, whatever the log has.
FinishAsObserved(r) ==
  LET k == runtime[r]
      canonical == Canonical(Prefix(k), k.turn) IN
  /\ k.pc = "finish"
  /\ Persist(r, IF canonical # None THEN <<>>
                ELSE <<[Plain(k.terminal, k.turn) EXCEPT !.seq = k.expected - 1, !.safe = TRUE]>>,
             Returns(k, k.terminal), Throws(k))
  /\ UNCHANGED remote

\* The terminal is recorded, unless the log has one.
Finish(r) ==
  LET k == runtime[r]
      canonical == Canonical(Prefix(k), k.turn) IN
  /\ k.pc = "finish"
  /\ Persist(r, IF canonical # None THEN <<>>
                ELSE <<[Plain(k.terminal, k.turn) EXCEPT !.seq = k.expected - 1, !.safe = TRUE]>>,
             Returns(k, IF canonical # None THEN canonical ELSE k.terminal), Throws(k))
  /\ UNCHANGED remote

-----------------------------------------------------------------------------
(* The rest of runTurnWithRetry() *)

Retry(r) ==
  LET k == runtime[r] IN
  /\ k.pc = "retry"
  /\ Persist(r, <<Plain("retry", k.turn)>>, [k EXCEPT !.pc = "attempt", !.attempt = @ + 1], Throws(k))
  /\ UNCHANGED remote

Exhausted(r) ==
  LET k == runtime[r] IN
  /\ k.pc = "exhausted"
  /\ Persist(r, <<Plain("retry", k.turn)>>, GivesUp(k), Throws(k))
  /\ UNCHANGED remote

\* failedTurnDraft(), for a turn that could not be started.
Fail(r) ==
  LET k == runtime[r] IN
  /\ k.pc = "fail"
  /\ Persist(r, <<Plain("failed", k.turn)>>, Returns(k, "failed"), Throws(k))
  /\ UNCHANGED remote

\* refreshCanonicalTerminalResult() in the catch clause.
Settle(r) ==
  LET k == CaughtUp(runtime[r])
      canonical == Canonical(log, k.turn) IN
  /\ k.pc = "settle"
  /\ runtime' = [runtime EXCEPT ![r] = Returns(k, IF canonical # None THEN canonical ELSE "error")]
  /\ UNCHANGED <<log, remote>> /\ NoFault

-----------------------------------------------------------------------------
(* cancelTurn(), stopObserving(), synchronize() *)

\* turn.cancellation_requested is saved; like every append it waits for the one under
\* way.  It is refused if the turn turns out to have ended or to be paused.
CancelTurn(r) ==
  LET k == [CaughtUp(runtime[r]) EXCEPT !.cancelling = TRUE]
      stopping == <<Plain("stopping", k.turn)>>
      fits == runtime[r].rev = Len(log) \/ Compatible(log, stopping) IN
  /\ r \in Senders /\ runtime[r].turn # None /\ runtime[r].retries = 0 /\ k.cancel = "none"
  /\ Known(Prefix(runtime[r]), k.turn) /\ Canonical(Prefix(runtime[r]), k.turn) = None
  /\ Fault
  /\ \/ /\ fits
        /\ log' = log \o stopping
        /\ runtime' = [runtime EXCEPT ![r] = [k EXCEPT !.rev = @ + 1, !.cancel = "saved"]]
     \/ /\ ~fits
        /\ runtime' = [runtime EXCEPT ![r] = k]
        /\ UNCHANGED log
  /\ UNCHANGED remote

\* Once the transport's identity is known, it is told; it may have ended by then.
CancelSend(r) ==
  LET k == runtime[r]
      over == Ended(k.turn) IN
  /\ k.cancel = "saved" /\ (over => k.retries = 0)
  /\ k.bound \/ Bound(Prefix(k), k.turn) \/ Canonical(Prefix(k), k.turn) # None
  /\ remote' = IF over \/ ~(k.bound \/ Bound(Prefix(k), k.turn)) THEN remote
               ELSE [remote EXCEPT ![k.turn].cancelled = TRUE]
  /\ runtime' = [runtime EXCEPT ![r] =
       [(IF over THEN CaughtUp(k) ELSE k) EXCEPT !.cancel = "sent"]]
  /\ UNCHANGED log /\ NoFault

StopObserving(r) ==
  LET k == runtime[r] IN
  /\ k.pc \notin {"idle", "admit", "settle"} /\ ~k.stopped /\ Fault
  /\ runtime' = [runtime EXCEPT ![r].stopped = TRUE]
  /\ UNCHANGED <<log, remote>>

Synchronize(r) ==
  LET k == runtime[r] IN
  /\ r \in Senders /\ k.retries = 0 /\ k.rev < Len(log)
  /\ runtime' = [runtime EXCEPT ![r] = CaughtUp(k)]
  /\ UNCHANGED <<log, remote>> /\ NoFault

-----------------------------------------------------------------------------
(* The transport, the server, and failures *)

\* The turn produces its next frame, up to its end.
Produce(t) ==
  /\ remote[t].running /\ ~Ended(t)
  /\ \/ ~Paused(t) /\ remote' = [remote EXCEPT ![t].frames = Append(@, Response[t][Len(@) + 1])]
     \/ /\ remote[t].cancelled /\ remote[t].frames # <<>>
        /\ remote' = [remote EXCEPT ![t].frames = Append(@, "cancelled")]
  /\ UNCHANGED <<log, runtime>> /\ NoFault

\* The server binds a turn that runs before it projects it
\* (openLiveConversationProjection(), reconcileDurableConversationTurn()).
BindTurn(t) ==
  /\ remote[t].running /\ ~Bound(log, t) /\ Canonical(log, t) = None /\ ~Waiting(log, t)
  /\ log' = Append(log, Plain("bound", t))
  /\ UNCHANGED <<remote, runtime>> /\ NoFault

\* An approval is given: the turn becomes the active one again, then it goes on.
Approve(t) ==
  /\ Paused(t) /\ Waiting(log, t) /\ Active(log) = None
  /\ log' = Append(log, Plain("resumed", t))
  /\ remote' = [remote EXCEPT ![t].approved = TRUE]
  /\ UNCHANGED runtime /\ NoFault

\* destroy(), or the process dies; a new runtime replays the log.
Crash(r) ==
  /\ runtime[r].pc # "idle" /\ Fault
  /\ runtime' = [runtime EXCEPT ![r] = NewRuntime(Len(log), @.resumes)]
  /\ UNCHANGED <<log, remote>>

-----------------------------------------------------------------------------
(* The specification *)

\* The next step of a runtime's operation.
Step(r) ==
  \/ Admit(r) \/ Attempt(r) \/ Call(r) \/ Bind(r) \/ Deliver(r) \/ SaveFrames(r)
  \/ EndStream(r) \/ Conclude(r) \/ Wait(r) \/ Finish(r) \/ Retry(r) \/ Exhausted(r)
  \/ Fail(r) \/ Settle(r)

Next ==
  \/ \E r \in Runtimes :
       \/ Step(r) \/ CancelTurn(r) \/ CancelSend(r) \/ StopObserving(r) \/ Synchronize(r)
       \/ Crash(r)
       \/ \E t \in Turns : SendMessage(r, t) \/ ResumeTurn(r, t)
  \/ \E t \in Turns : Produce(t) \/ BindTurn(t) \/ Approve(t)

Spec == Init /\ [][Next]_vars

-----------------------------------------------------------------------------
(* Properties *)

\* Every variable stays within its type.
TypeOK ==
  /\ log \in Seq(Event)
  /\ remote \in [Turns -> Remote]
  /\ runtime \in [Runtimes -> Runtime]
  /\ \A r \in Runtimes : runtime[r].attempt <= MaximumAttempts[r] /\ runtime[r].rev <= Len(log)
  /\ faults \in Nat

Written(kind) == kind \in {"started", "text", "tool_call"}

\* The log has the frames of a turn once each, in order and without a gap, its texts in
\* one message, and all of them before a completion, whoever wrote which of them.
ResponseIsWhole ==
  \A t \in Turns :
    LET frames == remote[t].frames
        at == {i \in DOMAIN log : log[i].turn = t /\ log[i].type = "frame"} IN
    /\ \A i \in at : \A s \in DOMAIN frames :
         Written(frames[s]) =>
           (s < log[i].seq <=> \E j \in at : j < i /\ log[j].seq = s)
    /\ \A i, j \in at : {log[i].message, log[j].message} \subseteq Runtimes =>
                          log[i].message = log[j].message
    /\ Canonical(log, t) = "completed" =>
         \A s \in DOMAIN frames : Written(frames[s]) =>
           \E j \in at : j < Min(Terminal(log, t)) /\ log[j].seq = s

\* The log can always be replayed: no turn is admitted, and none is given a running
\* status, while another one is active.
OneActiveTurn ==
  [][\A i \in Len(log) + 1 .. Len(log') : Opening(log'[i]) =>
       LET before == SubSeq(log', 1, i - 1) IN
       \/ Active(before) = None
       \/ log'[i].type # "admitted" /\ (Active(before) = log'[i].turn
                                        \/ Canonical(before, log'[i].turn) # None)]_vars

\* A host that is told that its turn was completed or cancelled is told what the log says.
ToldIsCanonical ==
  \A r \in Runtimes : runtime[r].told \in {"completed", "cancelled"} =>
    Canonical(log, runtime[r].turn) = runtime[r].told

\* A transport that replays a turn from its start is understood while the turn runs.
ReplayIsKnown ==
  \A r \in Runtimes :
    runtime[r].pc = "observe" /\ Canonical(Prefix(runtime[r]), runtime[r].turn) = None =>
    \A i \in 1..(runtime[r].expected - 1) : KnownFrame(runtime[r], i)
=============================================================================
