---------------------------- MODULE DurableTurn ----------------------------
(***************************************************************************)
(* One durable application turn: the record that                           *)
(* createDurableApplicationTransport (src/src/transports/durable.ts) keeps *)
(* in a compare-and-set store, the worker processes that claim, execute,   *)
(* stop and settle it, and the process-local delegate                      *)
(* (src/src/transports/application-turn.ts) that executes it.              *)
(*                                                                         *)
(* Every `update` of the code is one atomic step here: it commits only if  *)
(* the record is still the one its mutation read (module TurnStore shows   *)
(* that the load / compare-and-set loop is such a step).  A claim number   *)
(* (`attempt`) names the run() call that made it, so the local variables   *)
(* of a run are indexed by its claim.  run() is a race of an executing     *)
(* fiber, a monitor and a Stop delivery: a fiber that loses the race goes  *)
(* on as a zombie, and only the fences of the code hold it back.           *)
(***************************************************************************)
EXTENDS Naturals, Sequences, FiniteSets

CONSTANTS
  Workers,          \* processes; each has its own transport and delegate
  StopKeys,         \* idempotency identities a Stop request can carry
  Observers,        \* clients that follow the turn
  None,             \* null
  MaximumAttempts,  \* options.maximumAttempts
  MaxClaims,        \* bound: claims made of the turn
  MaxResumes,       \* bound: approval pauses that are resumed
  MaxEvents,        \* bound: event batches retained
  MaxFaults,        \* bound: failures of processes, store and authorization
  Drainable         \* processes whose stopWorkers() may be called

ASSUME NoneAssumption == None \notin Workers /\ None \notin StopKeys
ASSUME BoundsAssumption ==
  /\ MaximumAttempts \in Nat \ {0}
  /\ MaxClaims \in Nat
  /\ MaxResumes \in Nat
  /\ MaxEvents \in Nat
  /\ MaxFaults \in Nat
ASSUME DrainableAssumption == Drainable \subseteq Workers

VARIABLES
  turn,        \* the stored record
  run,         \* the local state of each claim's run()
  running,     \* the `running` map: what run() call each process has, if any
  queued,      \* processes with a kick chained behind that run()
  draining,    \* processes whose stopWorkers() was called
  active,      \* the delegate's `active` map: the execution in each process
  dispatched,  \* history: claims that called delegate.startTurn
  obs,         \* client observations
  faults       \* failures so far

vars == <<turn, run, running, queued, draining, active, dispatched, obs, faults>>

-----------------------------------------------------------------------------
(* Types *)

Claims == 1..MaxClaims

\* The statuses of terminalStatus(): those with a non-null `terminal`.
Terminal == {"completed", "cancelled", "failed", "waiting_for_approval"}
Status == {"absent", "pending", "running"} \cup Terminal

\* The stored document.  `terminal` is not a field: it is non-null exactly in
\* the statuses of Terminal.  `stop` and `stopKey` stand for `cancellation`,
\* `stop` being "accepted" once acceptedAt is set; `lease` for lease.ownerId
\* and `leaseLive` for lease.expiresAt > now(); `started` for
\* delegateStartAttempted; `handle` for delegateTurnId # null.  An event is
\* represented by the claim whose run appended it.
Turn == [status : Status, attempt : 0..MaxClaims, resumes : 0..MaxResumes,
         started : {"unset", "no", "yes"}, handle : BOOLEAN,
         events : Seq(Claims),
         stop : {"none", "requested", "accepted"}, stopKey : StopKeys \cup {None},
         lease : Workers \cup {None}, leaseLive : BOOLEAN]

\* What a delegate execution can report; "threw" is a failed event stream.
Results == {"completed", "cancelled", "failed", "waiting_for_approval",
            "disconnected", "threw"}

\* exec: the next step of execute(); sup: where run() itself is, "racing" being
\* Promise.race, the three catch states next, then `finally`; delivery: the
\* memoised promise of deliverCancellation(); observed: `observation` is set.
Run == [owner : Workers \cup {None}, observed : BOOLEAN,
        exec : {"none", "decode", "ready", "start", "save", "stream", "join",
                "settle", "done"},
        result : Results \cup {"none"},
        sup : {"none", "racing", "cancelDeliver", "cancelSettle", "failSettle",
               "release", "gone"},
        delivery : {"idle", "load", "call", "accept", "delivered", "refused",
                    "lost"}]

NoJob == [claim |-> 0, aborted |-> FALSE]
Job == [claim : 0..MaxClaims, aborted : BOOLEAN]

Obs == [index : Nat,
        outcome : {"none", "watching", "disconnected"} \cup Terminal]

AbsentTurn == [status |-> "absent", attempt |-> 0, resumes |-> 0,
               started |-> "unset", handle |-> FALSE, events |-> <<>>,
               stop |-> "none", stopKey |-> None,
               lease |-> None, leaseLive |-> FALSE]

UnusedRun == [owner |-> None, observed |-> FALSE, exec |-> "none", result |-> "none",
              sup |-> "none", delivery |-> "idle"]

\* What is left of a run whose process has died.
DeadRun(w) == [owner |-> w, observed |-> FALSE, exec |-> "done", result |-> "none",
               sup |-> "gone", delivery |-> "idle"]

Init ==
  /\ turn = AbsentTurn
  /\ run = [a \in Claims |-> UnusedRun]
  /\ running = [w \in Workers |-> "idle"]
  /\ queued = {}
  /\ draining = {}
  /\ active = [w \in Workers |-> NoJob]
  /\ dispatched = {}
  /\ obs = [o \in Observers |-> [index |-> 0, outcome |-> "none"]]
  /\ faults = 0

-----------------------------------------------------------------------------
(* Fences *)

\* The record is leased to this claim's worker under this claim's number; lease
\* expiry is not consulted: an owner nobody has replaced still owns.
RecordOwned(a) == turn.lease = run[a].owner /\ turn.attempt = a

\* `stopped`: set first thing in the finally block of run().
Stopped(a) == run[a].sup \in {"release", "gone"}

\* Mutant of Owned: the record's lease and claim are not compared.
OwnedUnlessStopped(a) == ~Stopped(a) /\ turn.status \notin Terminal

\* owned(): the fence of every update that execute(), the monitor and the
\* delivery make.
Owned(a) == ~Stopped(a) /\ turn.status \notin Terminal /\ RecordOwned(a)

\* kick(): at most one run() of the turn per process.
Kick(w) ==
  running' = IF running[w] = "idle" /\ w \notin draining
             THEN [running EXCEPT ![w] = "claiming"] ELSE running

\* Mutant of KickAfter: a kick that finds a run() there is forgotten.
KickNow(w) == Kick(w) /\ UNCHANGED queued

\* The kick of cancelTurn and resumeApprovalTurn: chained behind a run() that
\* is already there, so that it is not lost while that one cleans up.
KickAfter(w) ==
  IF running[w] = "idle"
  THEN Kick(w) /\ UNCHANGED queued
  ELSE queued' = queued \cup {w} /\ UNCHANGED running

\* run() of w has returned: its entry leaves the map and a chained kick fires.
RunReturns(w) ==
  /\ running' = [running EXCEPT ![w] =
       IF w \in queued /\ w \notin draining THEN "claiming" ELSE "idle"]
  /\ queued' = queued \ {w}

\* execute() has returned or thrown.  A run() still racing continues at s; one
\* that is past the race does not notice.
ExecEnds(a, s) ==
  run' = [run EXCEPT ![a].exec = "done", ![a].result = "none",
                     ![a].sup = IF @ = "racing" THEN s ELSE @]

Unleased(r) == [r EXCEPT !.lease = None, !.leaseLive = FALSE]

-----------------------------------------------------------------------------
(* The API of the transport *)

\* startTurn: create the record or find it retained, and kick a worker.  The
\* start that finds the tombstone of cancelTurnBeforeStart only observes.
StartTurn(w) ==
  /\ w \notin draining
  /\ \/ turn.status = "absent"
     \/ turn.started # "unset"
  /\ turn' = IF turn.status = "absent"
             THEN [turn EXCEPT !.status = "pending", !.started = "no"]
             ELSE turn
  /\ Kick(w)
  /\ UNCHANGED <<run, queued, draining, active, dispatched, obs, faults>>

\* cancelTurn, past its authorization.  A failed turn is reopened when its
\* record shows that the delegate may have been reached.  A Stop with another
\* identity than the retained one is refused and changes nothing.
Stoppable(r) ==
  \/ r.status \notin Terminal \cup {"absent"}
  \/ r.status = "waiting_for_approval"
  \/ r.status = "failed" /\ (r.handle \/ r.started = "yes")

\* Mutant of CancelTurn: a later Stop replaces the identity of the first one.
CancelTurnAnew(w, k) ==
  /\ Stoppable(turn)
  /\ turn' = [turn EXCEPT !.status = IF @ \in Terminal THEN "pending" ELSE @,
                          !.stop = IF @ = "none" THEN "requested" ELSE @, !.stopKey = k]
  /\ KickAfter(w)
  /\ UNCHANGED <<run, draining, active, dispatched, obs, faults>>

CancelTurn(w, k) ==
  /\ Stoppable(turn)
  /\ turn.stop = "none" \/ turn.stopKey = k
  /\ turn' = IF turn.stop # "none" THEN turn
             ELSE [turn EXCEPT !.status = IF @ \in Terminal THEN "pending" ELSE @,
                               !.stop = "requested", !.stopKey = k]
  /\ KickAfter(w)
  /\ UNCHANGED <<run, draining, active, dispatched, obs, faults>>

\* cancelTurnBeforeStart wins the atomic create: a tombstone that is cancelled
\* at once.  When startTurn won it, the code goes on with cancelTurn.
CancelTurnBeforeStart(k) ==
  /\ turn.status = "absent"
  /\ turn' = [turn EXCEPT !.status = "cancelled", !.stop = "requested", !.stopKey = k]
  /\ UNCHANGED <<run, running, queued, draining, active, dispatched, obs, faults>>

\* resumeApprovalTurn: a decision was saved.  Only an unstopped pause is
\* resumed; a turn that is already moving is merely kicked.
ResumeApprovalTurn(w) ==
  /\ w \notin draining
  /\ turn.status \notin {"absent", "completed", "cancelled", "failed"}
  /\ turn.status = "waiting_for_approval" => turn.stop = "none" /\ turn.resumes < MaxResumes
  /\ turn' = IF turn.status = "waiting_for_approval"
             THEN [Unleased(turn) EXCEPT !.status = "pending", !.resumes = @ + 1]
             ELSE turn
  /\ KickAfter(w)
  /\ UNCHANGED <<run, draining, active, dispatched, obs, faults>>

\* Mutant of RecoverTurn: the lease of a dead process is respected for ever.
RecoverUnleasedTurn(w) ==
  /\ w \notin draining
  /\ running[w] = "idle"
  /\ turn.status \in {"pending", "running"}
  /\ turn.lease = None
  /\ Kick(w)
  /\ UNCHANGED <<turn, run, queued, draining, active, dispatched, obs, faults>>

\* recoverTurn, for a request or for a candidate of the recovery scan: kick
\* unless the turn rests or another process holds a live lease.
RecoverTurn(w) ==
  /\ w \notin draining
  /\ running[w] = "idle"
  /\ turn.status \in {"pending", "running"}
  /\ turn.lease \in {w, None} \/ ~turn.leaseLive
  /\ Kick(w)
  /\ UNCHANGED <<turn, run, queued, draining, active, dispatched, obs, faults>>

\* stopWorkers.
StopWorkers(w) ==
  /\ w \in Drainable \ draining
  /\ draining' = draining \cup {w}
  /\ UNCHANGED <<turn, run, running, queued, active, dispatched, obs, faults>>

\* startTurn or resumeTurn on a retained record: kick it unless it rests and
\* follow it from the client's checkpoint.
ResumeTurn(w, o) ==
  /\ turn.status # "absent"
  /\ obs[o].outcome \in {"none", "disconnected"}
  /\ obs' = [obs EXCEPT ![o].outcome = "watching"]
  /\ IF turn.status \in Terminal THEN UNCHANGED running ELSE Kick(w)
  /\ UNCHANGED <<turn, run, queued, draining, active, dispatched, faults>>

\* Mutant of Poll: the terminal status is returned before the events are yielded.
PollStatusFirst(o) ==
  /\ obs[o].outcome = "watching"
  /\ obs' = [obs EXCEPT ![o] = IF turn.status \in Terminal
                               THEN [@ EXCEPT !.outcome = turn.status]
                               ELSE [@ EXCEPT !.index = Len(turn.events)]]
  /\ UNCHANGED <<turn, run, running, queued, draining, active, dispatched, faults>>

\* One poll of observe(): yield what the loaded record holds beyond the index,
\* then resolve from that same record.
Poll(o) ==
  /\ obs[o].outcome = "watching"
  /\ obs' = [obs EXCEPT ![o] =
       [index |-> Len(turn.events),
        outcome |-> CASE turn.status \in Terminal -> turn.status
                      [] turn.status = "pending" /\ turn.attempt > 0 /\ turn.lease = None
                           -> "disconnected"
                      [] OTHER -> "watching"]]
  /\ UNCHANGED <<turn, run, running, queued, draining, active, dispatched, faults>>

-----------------------------------------------------------------------------
(* Claiming *)

\* The first update of run(): nothing to claim from a resting turn or from a
\* live lease of another process.
Claimable(w) ==
  /\ turn.status \notin Terminal
  /\ turn.lease \in {w, None} \/ ~turn.leaseLive

\* Mutants of Exhausted: one execution too many; a Stop spends attempts as well.
ExhaustedTooLate == turn.stop = "none" /\ turn.attempt > MaximumAttempts + turn.resumes
ExhaustedByStops == turn.attempt >= MaximumAttempts + turn.resumes

\* Stop deliveries do not spend the budget of executions.
Exhausted == turn.stop = "none" /\ turn.attempt >= MaximumAttempts + turn.resumes

ClaimWrite(w) ==
  [turn EXCEPT !.status = "running", !.attempt = @ + 1,
               !.started = IF turn.attempt = 0 /\ @ = "unset" THEN "no" ELSE @,
               !.lease = w, !.leaseLive = TRUE]

ClaimRefused(w) ==
  /\ running[w] = "claiming"
  /\ ~Claimable(w)
  /\ RunReturns(w)
  /\ UNCHANGED <<turn, run, draining, active, dispatched, obs, faults>>

ClaimExhausted(w) ==
  /\ running[w] = "claiming"
  /\ Claimable(w) /\ Exhausted
  /\ turn' = [Unleased(turn) EXCEPT !.status = "failed"]
  /\ RunReturns(w)
  /\ UNCHANGED <<run, draining, active, dispatched, obs, faults>>

\* A claim of a stopped turn goes straight to delivering the Stop.
Claim(w) ==
  /\ running[w] = "claiming"
  /\ Claimable(w) /\ ~Exhausted
  /\ turn.attempt < MaxClaims
  /\ turn' = ClaimWrite(w)
  /\ run' = [run EXCEPT ![turn.attempt + 1] =
       IF turn.stop = "none"
       THEN [owner |-> w, observed |-> FALSE, exec |-> "decode", result |-> "none",
             sup |-> "racing", delivery |-> "idle"]
       ELSE [owner |-> w, observed |-> FALSE, exec |-> "join", result |-> "cancelled",
             sup |-> "racing", delivery |-> "load"]]
  /\ running' = [running EXCEPT ![w] = "claimed"]
  /\ UNCHANGED <<queued, draining, active, dispatched, obs, faults>>

-----------------------------------------------------------------------------
(* execute() *)

\* deliverCancellation(): the first caller starts it, the others share it.
Delivering(d) == IF d = "idle" THEN "load" ELSE d

\* decodeRequest() returns the request.
Decode(a) ==
  /\ run[a].exec = "decode"
  /\ run' = [run EXCEPT ![a].exec = "ready"]
  /\ UNCHANGED <<turn, running, queued, draining, active, dispatched, obs, faults>>

\* The monitor inside decodeRequest() finds the claim replaced, or a Stop.
DecodeInterrupted(a) ==
  /\ run[a].exec = "decode"
  /\ \/ turn.status \in Terminal \/ ~RecordOwned(a)
     \/ turn.stop # "none"
  /\ ExecEnds(a, IF turn.status \in Terminal \/ ~RecordOwned(a)
                 THEN "release" ELSE "cancelDeliver")
  /\ UNCHANGED <<turn, running, queued, draining, active, dispatched, obs, faults>>

\* The last update before admission: a Stop that won it prevents the start.
ReadyWrite == [turn EXCEPT !.started = "yes", !.leaseLive = TRUE]

Ready(a) ==
  /\ run[a].exec = "ready"
  /\ Owned(a)
  /\ \/ /\ turn.stop = "none"
        /\ turn' = ReadyWrite
        /\ run' = [run EXCEPT ![a].exec = "start"]
     \/ /\ turn.stop # "none"
        /\ run' = [run EXCEPT ![a].exec = "join", ![a].result = "cancelled",
                              ![a].delivery = Delivering(@)]
        /\ UNCHANGED turn
  /\ UNCHANGED <<running, queued, draining, active, dispatched, obs, faults>>

\* delegate.startTurn in this process.  Its own earlier execution of the turn
\* may still be there, in which case it answers "conflict".
Dispatch(a) ==
  /\ run[a].exec = "start"
  /\ ~Stopped(a)
  /\ dispatched' = dispatched \cup {a}
  /\ LET w == run[a].owner IN
     \/ /\ active[w] = NoJob
        /\ active' = [active EXCEPT ![w] = [claim |-> a, aborted |-> FALSE]]
        /\ run' = [run EXCEPT ![a].exec = "save", ![a].observed = TRUE]
     \/ /\ active[w] # NoJob
        /\ run' = [run EXCEPT ![a].exec = "settle", ![a].result = "failed"]
        /\ UNCHANGED active
  /\ UNCHANGED <<turn, running, queued, draining, obs, faults>>

\* Retain the delegate's turn ID.
SaveWrite == [turn EXCEPT !.handle = TRUE]

SaveHandle(a) ==
  /\ run[a].exec = "save"
  /\ Owned(a)
  /\ turn' = SaveWrite
  /\ run' = [run EXCEPT ![a].exec = "stream"]
  /\ UNCHANGED <<running, queued, draining, active, dispatched, obs, faults>>

\* One batch of the delegate's events.
AppendWrite(a) == [turn EXCEPT !.events = Append(@, a)]

AppendEvents(a) ==
  /\ run[a].exec = "stream"
  /\ Owned(a)
  /\ Len(turn.events) < MaxEvents
  /\ turn' = AppendWrite(a)
  /\ UNCHANGED <<run, running, queued, draining, active, dispatched, obs, faults>>

\* owned() throws LeaseLostError in the step the fiber was about to make.
ExecFenced(a) ==
  /\ \/ run[a].exec \in {"ready", "save", "stream"} /\ ~Owned(a)
     \/ run[a].exec = "start" /\ Stopped(a)
  /\ ExecEnds(a, "release")
  /\ UNCHANGED <<turn, running, queued, draining, active, dispatched, obs, faults>>

\* The stream and the result are in.  A Stop that the monitor has not seen is
\* delivered before the settlement, unless the result already answers it.
StreamEnds(a) ==
  /\ run[a].exec = "stream"
  /\ run[a].result # "none"
  /\ \/ /\ run[a].result = "threw"
        /\ ExecEnds(a, "failSettle")
     \/ /\ run[a].result # "threw"
        /\ run' = IF turn.stop # "none" /\ run[a].result \notin {"completed", "cancelled"}
                  THEN [run EXCEPT ![a].exec = "join", ![a].delivery = Delivering(@)]
                  ELSE [run EXCEPT ![a].exec = "settle"]
  /\ UNCHANGED <<turn, running, queued, draining, active, dispatched, obs, faults>>

\* await deliverCancellation().
Join(a) ==
  /\ run[a].exec = "join"
  /\ \/ /\ run[a].delivery = "delivered"
        /\ run' = [run EXCEPT ![a].exec = "settle"]
     \/ run[a].delivery = "lost" /\ ExecEnds(a, "release")
     \/ run[a].delivery = "refused" /\ ExecEnds(a, "failSettle")
  /\ UNCHANGED <<turn, running, queued, draining, active, dispatched, obs, faults>>

\* Mutants of Outcome: the delegate's result is written as it came; a Stop that
\* was only requested does not count.
OutcomeVerbatim(r, result) == result
OutcomeOfAcceptedStop(r, result) ==
  IF result = "completed" THEN "completed"
  ELSE IF result = "cancelled" \/ r.stop = "accepted" THEN "cancelled"
  ELSE IF result = "disconnected" THEN "pending"
  ELSE result

\* The status settle() writes.  A requested Stop is no evidence that the
\* delegate accepted it, and a lost observation is no terminal failure: both
\* leave the turn recoverable.
Outcome(r, result) ==
  IF result = "completed" THEN "completed"
  ELSE IF result = "cancelled" \/ r.stop = "accepted" THEN "cancelled"
  ELSE IF r.stop = "requested" \/ result = "disconnected" THEN "pending"
  ELSE result

\* Mutant of SettleWrite: no fence.
SettleUnfenced(a, result) == [Unleased(turn) EXCEPT !.status = Outcome(turn, result)]

\* settle(): fenced by owner and claim, not by `stopped`.
SettleWrite(a, result) ==
  IF turn.status \in Terminal \/ ~RecordOwned(a) THEN turn
  ELSE [Unleased(turn) EXCEPT !.status = Outcome(turn, result)]

Settle(a) ==
  /\ run[a].exec = "settle"
  /\ turn' = SettleWrite(a, run[a].result)
  /\ ExecEnds(a, "release")
  /\ UNCHANGED <<running, queued, draining, active, dispatched, obs, faults>>

-----------------------------------------------------------------------------
(* deliverCancellation() *)

\* Mutant of DeliverLoad: without a handle there is nothing to cancel.
DeliverLoadTrusting(a) ==
  /\ run[a].delivery = "load"
  /\ run' = [run EXCEPT ![a].delivery =
       IF ~Owned(a) THEN "lost"
       ELSE IF turn.stop # "requested" THEN "delivered"
       ELSE IF turn.handle THEN "call" ELSE "accept"]
  /\ UNCHANGED <<turn, running, queued, draining, active, dispatched, obs, faults>>

\* Never replay an uncertain start: without a handle, only a record that was
\* never made ready proves that no work was admitted.
DeliverLoad(a) ==
  /\ run[a].delivery = "load"
  /\ run' = [run EXCEPT ![a].delivery =
       IF ~Owned(a) THEN "lost"
       ELSE IF turn.stop # "requested" THEN "delivered"
       ELSE IF turn.handle THEN "call"
       ELSE IF turn.started = "no" THEN "accept"
       ELSE "refused"]
  /\ UNCHANGED <<turn, running, queued, draining, active, dispatched, obs, faults>>

\* Mutant of Abort: the Stop is acknowledged and the execution left alone.
AbortNothing(w) == active

\* cancelTurn of the delegate: abort the execution of THIS process, if any, and
\* acknowledge in either case.
Abort(w) ==
  IF active[w] = NoJob THEN active ELSE [active EXCEPT ![w].aborted = TRUE]

DeliverCall(a) ==
  /\ run[a].delivery = "call"
  /\ active' = Abort(run[a].owner)
  /\ run' = [run EXCEPT ![a].delivery = "accept"]
  /\ UNCHANGED <<turn, running, queued, draining, dispatched, obs, faults>>

AcceptWrite == [turn EXCEPT !.stop = "accepted"]

DeliverAccept(a) ==
  /\ run[a].delivery = "accept"
  /\ turn' = IF Owned(a) THEN AcceptWrite ELSE turn
  /\ run' = [run EXCEPT ![a].delivery = IF Owned(a) THEN "delivered" ELSE "lost"]
  /\ UNCHANGED <<running, queued, draining, active, dispatched, obs, faults>>

-----------------------------------------------------------------------------
(* The monitor, and the catch and finally blocks of run() *)

\* Lease renewal, by the monitor of run() or by the one of decodeRequest(),
\* which does not look at `stopped`.
Renew(a) ==
  /\ ~turn.leaseLive
  /\ \/ run[a].sup # "none" /\ Owned(a)
     \/ /\ run[a].exec = "decode" /\ RecordOwned(a)
        /\ turn.status \notin Terminal /\ turn.stop = "none"
  /\ turn' = [turn EXCEPT !.leaseLive = TRUE]
  /\ UNCHANGED <<run, running, queued, draining, active, dispatched, obs, faults>>

\* The monitor's owned() throws: run() leaves the race, execute() goes on.
MonitorFenced(a) ==
  /\ run[a].sup = "racing"
  /\ ~Owned(a)
  /\ run' = [run EXCEPT ![a].sup = "release"]
  /\ UNCHANGED <<turn, running, queued, draining, active, dispatched, obs, faults>>

\* The monitor sees a Stop while the delegate is being observed.
MonitorDelivers(a) ==
  /\ run[a].observed /\ ~Stopped(a)
  /\ turn.stop # "none"
  /\ run[a].delivery = "idle"
  /\ run' = [run EXCEPT ![a].delivery = "load"]
  /\ UNCHANGED <<turn, running, queued, draining, active, dispatched, obs, faults>>

\* The rejection of a delivery the monitor started interrupts the race.
DeliveryInterrupts(a) ==
  /\ run[a].sup = "racing" /\ run[a].observed
  /\ run[a].delivery \in {"refused", "lost"}
  /\ run' = [run EXCEPT ![a].sup = IF run[a].delivery = "lost" THEN "release" ELSE "failSettle"]
  /\ UNCHANGED <<turn, running, queued, draining, active, dispatched, obs, faults>>

\* catch (PreparationCancelledError): deliver the Stop, then settle.
CatchDeliver(a) ==
  /\ run[a].sup = "cancelDeliver"
  /\ \/ /\ run[a].delivery = "idle"
        /\ run' = [run EXCEPT ![a].delivery = "load"]
     \/ /\ run[a].delivery = "delivered"
        /\ run' = [run EXCEPT ![a].sup = "cancelSettle"]
     \/ /\ run[a].delivery \in {"refused", "lost"}
        /\ run' = [run EXCEPT ![a].sup = "release"]
  /\ UNCHANGED <<turn, running, queued, draining, active, dispatched, obs, faults>>

CatchResult(a) == IF run[a].sup = "cancelSettle" THEN "cancelled" ELSE "failed"

CatchSettle(a) ==
  /\ run[a].sup \in {"cancelSettle", "failSettle"}
  /\ turn' = SettleWrite(a, CatchResult(a))
  /\ run' = [run EXCEPT ![a].sup = "release"]
  /\ UNCHANGED <<running, queued, draining, active, dispatched, obs, faults>>

\* finally: disconnect, keep the Stop and release only this fenced claim.
ReleaseWrite(a) ==
  IF RecordOwned(a) /\ turn.stop # "none"
  THEN [Unleased(turn) EXCEPT !.status = "pending"] ELSE turn

Release(a) ==
  /\ run[a].sup = "release"
  /\ turn' = ReleaseWrite(a)
  /\ run' = [run EXCEPT ![a].sup = "gone", ![a].observed = FALSE]
  /\ RunReturns(run[a].owner)
  /\ UNCHANGED <<draining, active, dispatched, obs, faults>>

-----------------------------------------------------------------------------
(* The application's execution, and the environment *)

\* execute() of the application settles, aborted or not, with any result.
JobEnds(w, result) ==
  /\ active[w] # NoJob
  /\ active' = [active EXCEPT ![w] = NoJob]
  /\ run' = [run EXCEPT ![active[w].claim].result =
       IF run[active[w].claim].exec \in {"save", "stream"} THEN result ELSE @]
  /\ UNCHANGED <<turn, running, queued, draining, dispatched, obs, faults>>

\* A failure, of which there are at most MaxFaults.
Fails == faults < MaxFaults /\ faults' = faults + 1

\* The clock passes expiresAt: of a lease that nobody renews any more ...
ExpireLease ==
  /\ turn.leaseLive
  /\ turn' = [turn EXCEPT !.leaseLive = FALSE]
  /\ UNCHANGED <<run, running, queued, draining, active, dispatched, obs>>

LeaseExpires ==
  /\ \A a \in Claims : RecordOwned(a) => run[a].sup \in {"none", "gone"}
  /\ ExpireLease
  /\ UNCHANGED faults

\* ... or of a process that was paused for longer than the lease.
Stall ==
  /\ \E a \in Claims : RecordOwned(a) /\ run[a].sup \notin {"none", "gone"}
  /\ ExpireLease
  /\ Fails

\* The process dies and comes back with the same workerId and empty memory.
Crash(w) ==
  /\ Fails
  /\ run' = [a \in Claims |-> IF run[a].owner = w THEN DeadRun(w) ELSE run[a]]
  /\ running' = [running EXCEPT ![w] = "idle"]
  /\ queued' = queued \ {w}
  /\ draining' = draining \ {w}
  /\ active' = [active EXCEPT ![w] = NoJob]
  /\ UNCHANGED <<turn, dispatched, obs>>

\* authorizeRecovery denies, or the store fails, before or in the first update
\* of run(); a store that fails may have committed the claim.
ClaimFails(w) ==
  /\ Fails
  /\ running[w] = "claiming"
  /\ \/ UNCHANGED <<turn, run>>
     \/ /\ Claimable(w) /\ ~Exhausted /\ turn.attempt < MaxClaims
        /\ turn' = ClaimWrite(w)
        /\ run' = [run EXCEPT ![turn.attempt + 1] = DeadRun(w)]
  /\ RunReturns(w)
  /\ UNCHANGED <<draining, active, dispatched, obs>>

\* authorizeRecovery denies between decodeRequest() and the ready update.
ReadyDenied(a) ==
  /\ Fails
  /\ run[a].exec = "ready"
  /\ ExecEnds(a, "release")
  /\ UNCHANGED <<turn, running, queued, draining, active, dispatched, obs>>

\* A step of execute() throws: the codec, or an update whose answer was lost,
\* with or without its commit.
ExecWrites(a) ==
  CASE run[a].exec = "ready" /\ Owned(a) /\ turn.stop = "none" -> {turn, ReadyWrite}
    [] run[a].exec = "save" /\ Owned(a) -> {turn, SaveWrite}
    [] run[a].exec = "stream" /\ Owned(a) /\ Len(turn.events) < MaxEvents
         -> {turn, AppendWrite(a)}
    [] run[a].exec = "settle" -> {turn, SettleWrite(a, run[a].result)}
    [] OTHER -> {turn}

ExecFails(a) ==
  /\ Fails
  /\ run[a].exec \in {"decode", "ready", "save", "stream", "settle"}
  /\ turn' \in ExecWrites(a)
  /\ ExecEnds(a, "failSettle")
  /\ UNCHANGED <<running, queued, draining, active, dispatched, obs>>

\* The store fails under the monitor: run() leaves the race, execute() goes on.
MonitorFails(a) ==
  /\ Fails
  /\ run[a].sup = "racing"
  /\ run' = [run EXCEPT ![a].sup = "failSettle"]
  /\ UNCHANGED <<turn, running, queued, draining, active, dispatched, obs>>

\* authorizeRecovery denies the delivery; the store fails under it; or the
\* delegate does not acknowledge in time, having aborted or not.
DeliveryFails(a) ==
  /\ Fails
  /\ \/ /\ run[a].delivery = "load"
        /\ run' = [run EXCEPT ![a].delivery = "lost"]
        /\ UNCHANGED <<turn, running, queued, draining, active, dispatched, obs>>
     \/ /\ run[a].delivery \in {"load", "call", "accept"}
        /\ run' = [run EXCEPT ![a].delivery = "refused"]
        /\ active' \in IF run[a].delivery = "call" THEN {active, Abort(run[a].owner)} ELSE {active}
        /\ turn' \in IF run[a].delivery = "accept" /\ Owned(a) THEN {turn, AcceptWrite} ELSE {turn}
        /\ UNCHANGED <<running, queued, draining, dispatched, obs>>

\* The store fails under the catch or the finally block, whose errors are
\* swallowed.
CleanupFails(a) ==
  /\ Fails
  /\ \/ /\ run[a].sup \in {"cancelSettle", "failSettle"}
        /\ run' = [run EXCEPT ![a].sup = "release"]
        /\ UNCHANGED <<turn, running, queued, draining, active, dispatched, obs>>
     \/ /\ run[a].sup = "release"
        /\ run' = [run EXCEPT ![a].sup = "gone", ![a].observed = FALSE]
        /\ RunReturns(run[a].owner)
        /\ UNCHANGED <<turn, draining, active, dispatched, obs>>

-----------------------------------------------------------------------------
(* The specification *)

Api ==
  \/ \E w \in Workers : StartTurn(w) \/ ResumeApprovalTurn(w) \/ StopWorkers(w)
  \/ \E w \in Workers, k \in StopKeys : CancelTurn(w, k)
  \/ \E k \in StopKeys : CancelTurnBeforeStart(k)
  \/ \E w \in Workers, o \in Observers : ResumeTurn(w, o)

Claiming(w) == ClaimRefused(w) \/ ClaimExhausted(w) \/ Claim(w)

Executing(a) ==
  \/ Decode(a) \/ DecodeInterrupted(a) \/ Ready(a) \/ Dispatch(a) \/ SaveHandle(a)
  \/ ExecFenced(a) \/ StreamEnds(a) \/ Join(a) \/ Settle(a)

Delivery(a) == DeliverLoad(a) \/ DeliverCall(a) \/ DeliverAccept(a)

Supervising(a) ==
  \/ MonitorFenced(a) \/ MonitorDelivers(a) \/ DeliveryInterrupts(a)
  \/ CatchDeliver(a) \/ CatchSettle(a) \/ Release(a)

Faults ==
  \/ Stall
  \/ \E w \in Workers : Crash(w) \/ ClaimFails(w)
  \/ \E a \in Claims : ReadyDenied(a) \/ ExecFails(a) \/ MonitorFails(a)
                     \/ DeliveryFails(a) \/ CleanupFails(a)

Works ==
  \/ LeaseExpires
  \/ \E w \in Workers : RecoverTurn(w) \/ Claiming(w)
  \/ \E a \in Claims : Executing(a) \/ AppendEvents(a) \/ Delivery(a)
                     \/ Renew(a) \/ Supervising(a)
  \/ \E w \in Workers, r \in Results : JobEnds(w, r)
  \/ \E o \in Observers : Poll(o)

Next == Api \/ Works \/ Faults

Spec == Init /\ [][Next]_vars

\* Timers and promises of a live process fire, the application's execute()
\* settles, clients go on polling, and the clock passes the expiry of a lease
\* nobody renews.  Nothing is assumed of the API callers or of failures.
LocalFairness ==
  /\ WF_vars(LeaseExpires)
  /\ \A w \in Workers : WF_vars(Claiming(w)) /\ WF_vars(\E r \in Results : JobEnds(w, r))
  /\ \A a \in Claims : /\ WF_vars(Executing(a))
                      /\ WF_vars(Delivery(a))
                      /\ WF_vars(Supervising(a))
  /\ \A o \in Observers : WF_vars(Poll(o))

\* The recovery scanner reaches every turn it can discover.
ScanFairness == \A w \in Workers \ Drainable : WF_vars(RecoverTurn(w))

SpecUnscanned == Spec /\ LocalFairness
SpecScanned == Spec /\ LocalFairness /\ ScanFairness

-----------------------------------------------------------------------------
(* Properties *)

\* Every variable stays within its type (the record shapes of durable.ts:11-173).
TypeOK ==
  /\ turn \in Turn
  /\ run \in [Claims -> Run]
  /\ running \in [Workers -> {"idle", "claiming", "claimed"}]
  /\ queued \subseteq Workers
  /\ draining \subseteq Workers
  /\ active \in [Workers -> Job]
  /\ dispatched \subseteq Claims
  /\ obs \in [Observers -> Obs]
  /\ faults \in 0..MaxFaults

\* A Stop that was retained never ends in a manufactured terminal: whatever
\* fails, and however often, a stopped turn is completed, cancelled or still
\* discoverable by the recovery scan, never failed and never paused again
\* (settle, the exhausted claim, cancelTurn's reopening and the final release
\* all have to agree on this).
StoppedTurnNeverFails ==
  turn.stop # "none" => turn.status \notin {"failed", "waiting_for_approval"}

\* A Stop is accepted without a delegate handle only if no claim ever reached
\* the delegate, and none does afterwards: deliverCancellation() reads
\* delegateStartAttempted in one step and records acceptedAt in another.
AcceptedStopIsCertain ==
  turn.stop = "accepted" => turn.handle \/ dispatched = {}

\* Replaced workers never write: retained events come in the order of the
\* claims that produced them, and only from claims that were dispatched.
FencedEvents ==
  /\ \A i, j \in 1..Len(turn.events) : i < j => turn.events[i] <= turn.events[j]
  /\ \A i \in 1..Len(turn.events) : turn.events[i] \in dispatched

\* Crash recovery is bounded: executions are started only by claims within the
\* attempt budget, which human approval pauses extend and Stop deliveries, of
\* which there may be any number, do not spend.
ExecutionBudget ==
  \A a \in dispatched : a <= MaximumAttempts + turn.resumes

\* A client told that the turn completed, or was cancelled, has seen every event
\* the record will ever hold (observe() resolves from the snapshot it yielded).
ObserverSawEverything ==
  \A o \in Observers :
    obs[o].outcome \in {"completed", "cancelled"} =>
      obs[o].index = Len(turn.events) /\ turn.status = obs[o].outcome

\* Late fibers of settled claims change nothing: a completed or cancelled record
\* is final, and a failed one is reopened only by a Stop, and only with evidence
\* that the delegate may have been reached.
SettledForGood ==
  [][/\ turn.status \in {"completed", "cancelled"} => turn' = turn
     /\ turn.status = "failed" /\ turn' # turn =>
          turn'.stop = "requested" /\ (turn.handle \/ turn.started = "yes")]_vars

\* Once retained, a Stop stays, under the identity that requested it first, and
\* its acceptance is not taken back: not by a retry with another identity, an
\* approval that arrives late, a new claim or a release.
StopIsKept ==
  [][turn.stop # "none" =>
       /\ turn'.stopKey = turn.stopKey
       /\ turn'.stop = "accepted" \/ turn'.stop = turn.stop]_vars

\* durable.ts:690-691 of cancelTurn: "A newly authorized Stop must still reach
\* that work": no execution goes on undisturbed once the turn is cancelled.
StopReachesWork ==
  turn.status = "cancelled" =>
    \A w \in Workers : active[w] = NoJob \/ active[w].aborted

\* durable.ts:510-511 of execute(): "Stop winning it prevents start; Stop after it
\* must wait for the actual delegate handle": as long as nothing has failed, a
\* stopped turn that was dispatched is not released without its handle.
StopWaitsForHandle ==
  faults = 0 /\ turn.stop = "requested" /\ turn.lease = None /\ turn.started = "yes"
    => turn.handle

\* A retained Stop is settled, through crashes, lost answers, expired leases and
\* refused deliveries, unless the admission of the delegate is uncertain (the
\* case docs/durable-stop.md leaves to the host).
StopSettles ==
  turn.stop = "requested" /\ (turn.handle \/ turn.started = "no")
    ~> turn.status \in {"completed", "cancelled"}

\* An admitted turn comes to rest, or is stopped: claims that die are found and
\* retried, and the retries end.
TurnRests ==
  turn.status = "pending" /\ turn.stop = "none"
    ~> turn.status \in Terminal \/ turn.stop # "none"

\* Nothing has failed and no process has been told to stop its workers.
Undisturbed == faults = 0 /\ draining = {}

\* Without the recovery scan, a retained Stop settles all the same as long as
\* nothing fails: the kick chained behind the running worker is enough.
UndisturbedStopSettles ==
  turn.stop = "requested" /\ (turn.handle \/ turn.started = "no")
    ~> turn.status \in {"completed", "cancelled"} \/ ~Undisturbed

\* A client that follows an unstopped turn is told how it went, or that it has to
\* come back, without any help from the scan.
ObserverResolves ==
  \A o \in Observers :
    obs[o].outcome = "watching" ~> obs[o].outcome # "watching" \/ ~Undisturbed

=============================================================================
