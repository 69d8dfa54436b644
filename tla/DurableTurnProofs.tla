-------------------------- MODULE DurableTurnProofs -------------------------
(* Theorems about DurableTurn, for any processes, Stop identities, observers   *)
(* and bounds.                                                                 *)
EXTENDS DurableTurn, TLAPS

-----------------------------------------------------------------------------
(* The writes of the updates *)

\* What each update() writes is a record again.
LEMMA WritesType ==
  ASSUME TypeOK
  PROVE  /\ Unleased(turn) \in Turn
         /\ ReadyWrite \in Turn
         /\ SaveWrite \in Turn
         /\ AcceptWrite \in Turn
         /\ \A a \in Claims : AppendWrite(a) \in Turn /\ ReleaseWrite(a) \in Turn
         /\ \A a \in Claims, r \in Results \ {"threw"} : SettleWrite(a, r) \in Turn
         /\ \A w \in Workers : turn.attempt < MaxClaims => ClaimWrite(w) \in Turn
<1> USE BoundsAssumption DEF TypeOK, Turn
<1>1. Unleased(turn) \in Turn
  BY DEF Unleased
<1>2. ReadyWrite \in Turn /\ SaveWrite \in Turn /\ AcceptWrite \in Turn
  BY DEF ReadyWrite, SaveWrite, AcceptWrite
<1>3. ASSUME NEW a \in Claims
      PROVE  AppendWrite(a) \in Turn
  <2>1. Append(turn.events, a) \in Seq(Claims)
    OBVIOUS
  <2> QED BY <2>1 DEF AppendWrite
<1>4. ASSUME NEW a \in Claims
      PROVE  ReleaseWrite(a) \in Turn
  BY <1>1 DEF ReleaseWrite, Status
<1>5. ASSUME NEW a \in Claims, NEW r \in Results \ {"threw"}
      PROVE  SettleWrite(a, r) \in Turn
  <2>1. r # "disconnected" => r \in Status
    BY DEF Results, Status, Terminal
  <2>2. Outcome(turn, r) \in Status
    BY <2>1 DEF Outcome, Status, Terminal
  <2> QED BY <1>1, <2>2 DEF SettleWrite
<1>6. ASSUME NEW w \in Workers, turn.attempt < MaxClaims
      PROVE  ClaimWrite(w) \in Turn
  <2>1. turn.attempt + 1 \in 0..MaxClaims /\ "running" \in Status
    BY <1>6 DEF Status
  <2>2. (IF turn.attempt = 0 /\ turn.started = "unset" THEN "no" ELSE turn.started)
          \in {"unset", "no", "yes"}
    OBVIOUS
  <2> QED BY <2>1, <2>2 DEF ClaimWrite
<1> QED BY <1>1, <1>2, <1>3, <1>4, <1>5, <1>6

-----------------------------------------------------------------------------
(* Type correctness *)

\* A run that is about to settle knows a result that settle() accepts: the one
\* thing the type invariant needs beyond itself.
ResultKnown ==
  \A a \in Claims :
    run[a].exec \in {"join", "settle"} => run[a].result \in Results \ {"threw"}

TypeInv == TypeOK /\ ResultKnown

\* The two variables of kick() and of a returning run() keep their types.
LEMMA KickType ==
  ASSUME TypeOK, NEW w
  PROVE  /\ Kick(w) => running' \in [Workers -> {"idle", "claiming", "claimed"}]
         /\ KickAfter(w) /\ w \in Workers =>
              /\ running' \in [Workers -> {"idle", "claiming", "claimed"}]
              /\ queued' \subseteq Workers
         /\ RunReturns(w) =>
              /\ running' \in [Workers -> {"idle", "claiming", "claimed"}]
              /\ queued' \subseteq Workers
BY DEF TypeOK, Kick, KickAfter, RunReturns

\* One run changes, to one that knows its result if it is about to settle.
LEMMA RunChanges ==
  ASSUME TypeInv, NEW a \in Claims, NEW r \in Run,
         r.exec \in {"join", "settle"} => r.result \in Results \ {"threw"},
         run' = [run EXCEPT ![a] = r]
  PROVE  run' \in [Claims -> Run] /\ ResultKnown'
BY DEF TypeInv, TypeOK, ResultKnown

\* The end of execute() leaves a run, and no result to settle with.
LEMMA ExecEndsType ==
  ASSUME TypeInv, NEW a \in Claims, NEW s \in {"cancelDeliver", "failSettle", "release"},
         ExecEnds(a, s)
  PROVE  run' \in [Claims -> Run] /\ ResultKnown'
<1> DEFINE r == [run[a] EXCEPT !.exec = "done", !.result = "none",
                               !.sup = IF run[a].sup = "racing" THEN s ELSE run[a].sup]
<1>1. run[a] \in Run
  BY DEF TypeInv, TypeOK
<1>2. r \in Run /\ r.exec = "done"
  BY <1>1 DEF Run
<1>3. run' = [run EXCEPT ![a] = r]
  BY DEF ExecEnds
<1> QED BY <1>2, <1>3, RunChanges

\* Aborting an execution leaves the shape of the delegate's map.
LEMMA AbortType ==
  ASSUME TypeOK, NEW w
  PROVE  Abort(w) \in [Workers -> Job]
<1>1. CASE w \notin Workers
  BY <1>1 DEF Abort, TypeOK
<1>2. CASE w \in Workers
  <2>1. [active[w] EXCEPT !.aborted = TRUE] \in Job
    BY <1>2 DEF TypeOK, Job
  <2> QED BY <1>2, <2>1 DEF Abort, TypeOK
<1> QED BY <1>1, <1>2

\* The initial state has them.
LEMMA InitTypes == Init => TypeInv
BY BoundsAssumption DEF Init, TypeInv, TypeOK, ResultKnown, AbsentTurn, Turn, Status, UnusedRun, Run,
   NoJob, Job, Obs

\* Every step keeps the types.
LEMMA StepKeepsTypes ==
  ASSUME TypeInv, [Next]_vars
  PROVE  TypeInv'
<1> USE DEF TypeInv, TypeOK, ResultKnown
<1>1. CASE UNCHANGED vars
  BY <1>1 DEF vars
<1>2. ASSUME NEW w \in Workers, StartTurn(w)
      PROVE  TypeInv'
  BY <1>2, KickType, BoundsAssumption DEF StartTurn, Turn, Status
<1>3. ASSUME NEW w \in Workers, NEW k \in StopKeys, CancelTurn(w, k)
      PROVE  TypeInv'
  BY <1>3, KickType DEF CancelTurn, Turn, Status
<1>4. ASSUME NEW k \in StopKeys, CancelTurnBeforeStart(k)
      PROVE  TypeInv'
  BY <1>4 DEF CancelTurnBeforeStart, Turn, Status, Terminal
<1>5. ASSUME NEW w \in Workers, ResumeApprovalTurn(w)
      PROVE  TypeInv'
  <2>1. turn' \in Turn
    <3>1. Unleased(turn) \in Turn /\ Unleased(turn).resumes = turn.resumes
      BY WritesType DEF Unleased, Turn
    <3>2. CASE turn.status = "waiting_for_approval" /\ turn.stop = "none"
      <4>1. turn.resumes + 1 \in 0..MaxResumes /\ "pending" \in Status
        BY <1>5, <3>2, BoundsAssumption DEF ResumeApprovalTurn, Turn, Status
      <4>2. turn' = [Unleased(turn) EXCEPT !.status = "pending", !.resumes = turn.resumes + 1]
        BY <1>5, <3>1, <3>2 DEF ResumeApprovalTurn
      <4> QED BY <3>1, <4>1, <4>2 DEF Turn
    <3>3. CASE ~(turn.status = "waiting_for_approval" /\ turn.stop = "none")
      BY <1>5, <3>3 DEF ResumeApprovalTurn
    <3> QED BY <3>2, <3>3
  <2> QED BY <1>5, <2>1, KickType DEF ResumeApprovalTurn
<1>6. ASSUME NEW w \in Workers, StopWorkers(w)
      PROVE  TypeInv'
  BY <1>6 DEF StopWorkers
<1>7. ASSUME NEW w \in Workers, NEW o \in Observers, ResumeTurn(w, o)
      PROVE  TypeInv'
  BY <1>7, KickType DEF ResumeTurn, Obs
<1>8. ASSUME NEW o \in Observers, Poll(o)
      PROVE  TypeInv'
  BY <1>8 DEF Poll, Turn, Obs
<1>9. ASSUME NEW w \in Workers, RecoverTurn(w)
      PROVE  TypeInv'
  BY <1>9, KickType DEF RecoverTurn
<1>10. ASSUME NEW w \in Workers, ClaimRefused(w)
      PROVE  TypeInv'
  BY <1>10, KickType DEF ClaimRefused
<1>11. ASSUME NEW w \in Workers, ClaimExhausted(w)
      PROVE  TypeInv'
  BY <1>11, KickType DEF ClaimExhausted, Unleased, Turn, Status, Terminal
<1>12. ASSUME NEW w \in Workers, Claim(w)
      PROVE  TypeInv'
  <2>1. turn.attempt + 1 \in Claims
    BY <1>12, BoundsAssumption DEF Claim, Claims, Turn
  <2> DEFINE fresh == [owner |-> w, observed |-> FALSE, exec |-> "decode", result |-> "none",
                       sup |-> "racing", delivery |-> "idle"]
             stop == [owner |-> w, observed |-> FALSE, exec |-> "join", result |-> "cancelled",
                      sup |-> "racing", delivery |-> "load"]
  <2>2. fresh \in Run /\ stop \in Run /\ fresh.exec = "decode" /\ stop.result = "cancelled"
    BY DEF Run, Results
  <2>3. run' \in [Claims -> Run] /\ ResultKnown'
    <3>1. "cancelled" \in Results \ {"threw"}
      BY DEF Results
    <3>2. run' = [run EXCEPT ![turn.attempt + 1] = fresh]
            \/ run' = [run EXCEPT ![turn.attempt + 1] = stop]
      BY <1>12 DEF Claim
    <3> HIDE DEF fresh, stop, TypeInv
    <3>3. CASE run' = [run EXCEPT ![turn.attempt + 1] = fresh]
      BY <2>1, <2>2, <3>3, RunChanges
    <3>4. CASE run' = [run EXCEPT ![turn.attempt + 1] = stop]
      BY <2>1, <2>2, <3>1, <3>4, RunChanges
    <3> QED BY <3>2, <3>3, <3>4
  <2>4. turn' \in Turn
    BY <1>12, WritesType DEF Claim
  <2> QED BY <1>12, <2>3, <2>4 DEF Claim
<1>13. ASSUME NEW a \in Claims, Decode(a)
      PROVE  TypeInv'
  BY <1>13, WritesType DEF Decode, Run
<1>14. ASSUME NEW a \in Claims, Ready(a)
      PROVE  TypeInv'
  <2>1. turn' \in Turn
    BY <1>14, WritesType DEF Ready
  <2>2. CASE run' = [run EXCEPT ![a].exec = "start"]
    BY <1>14, <2>1, <2>2 DEF Ready, Run
  <2>3. CASE run' = [run EXCEPT ![a].exec = "join", ![a].result = "cancelled",
                                ![a].delivery = Delivering(@)]
    <3> DEFINE r == [run[a] EXCEPT !.exec = "join", !.result = "cancelled",
                                   !.delivery = Delivering(run[a].delivery)]
    <3>1. Delivering(run[a].delivery) \in {"idle", "load", "call", "accept", "delivered", "refused", "lost"}
      BY DEF Delivering, Run
    <3>2. "cancelled" \in Results \ {"threw"}
      BY DEF Results
    <3>0. run[a] \in Run
      OBVIOUS
    <3>3. r \in Run /\ r.result = "cancelled"
      <4> HIDE DEF TypeInv, TypeOK, ResultKnown
      <4> QED BY <3>0, <3>1, <3>2 DEF Run
    <3>4. run' = [run EXCEPT ![a] = r]
      BY <2>3
    <3> QED BY <1>14, <2>1, <3>2, <3>3, <3>4, RunChanges DEF Ready
  <2> QED BY <1>14, <2>2, <2>3 DEF Ready
<1>15. ASSUME NEW a \in Claims, Dispatch(a)
      PROVE  TypeInv'
  <2>1. active' \in [Workers -> Job]
    <3>1. [claim |-> a, aborted |-> FALSE] \in Job
      BY BoundsAssumption DEF Job, Claims
    <3> QED BY <1>15, <3>1 DEF Dispatch
  <2>2. "failed" \in Results \ {"threw"}
    BY DEF Results
  <2>3. run' \in [Claims -> Run] /\ ResultKnown'
    BY <1>15, <2>2 DEF Dispatch, Run
  <2> QED BY <1>15, <2>1, <2>3 DEF Dispatch
<1>16. ASSUME NEW a \in Claims, SaveHandle(a)
      PROVE  TypeInv'
  BY <1>16, WritesType DEF SaveHandle, Run
<1>17. ASSUME NEW a \in Claims, AppendEvents(a)
      PROVE  TypeInv'
  BY <1>17, WritesType DEF AppendEvents, Run
<1>18. ASSUME NEW a \in Claims, DeliverLoad(a)
      PROVE  TypeInv'
  BY <1>18, WritesType DEF DeliverLoad, Run
<1>19. ASSUME NEW a \in Claims, DeliverCall(a)
      PROVE  TypeInv'
  BY <1>19, AbortType DEF DeliverCall, Run
<1>20. ASSUME NEW a \in Claims, DeliverAccept(a)
      PROVE  TypeInv'
  BY <1>20, WritesType DEF DeliverAccept, Run
<1>21. ASSUME NEW a \in Claims, Renew(a)
      PROVE  TypeInv'
  BY <1>21, WritesType DEF Renew, Turn
<1>22. ASSUME NEW a \in Claims, MonitorFenced(a)
      PROVE  TypeInv'
  BY <1>22, WritesType DEF MonitorFenced, Run
<1>23. ASSUME NEW a \in Claims, MonitorDelivers(a)
      PROVE  TypeInv'
  BY <1>23, WritesType DEF MonitorDelivers, Run
<1>24. ASSUME NEW a \in Claims, DeliveryInterrupts(a)
      PROVE  TypeInv'
  BY <1>24, WritesType DEF DeliveryInterrupts, Run
<1>25. ASSUME NEW a \in Claims, CatchDeliver(a)
      PROVE  TypeInv'
  BY <1>25, WritesType DEF CatchDeliver, Run
<1>26. ASSUME NEW a \in Claims, CatchSettle(a)
      PROVE  TypeInv'
  BY <1>26, WritesType DEF CatchSettle, Run, CatchResult, Results
<1>27. ASSUME NEW a \in Claims, StreamEnds(a)
      PROVE  TypeInv'
  BY <1>27, ExecEndsType DEF StreamEnds, Run, Delivering
<1>28. ASSUME NEW a \in Claims, Join(a)
      PROVE  TypeInv'
  BY <1>28, ExecEndsType DEF Join, Run
<1>29. ASSUME NEW a \in Claims, Settle(a)
      PROVE  TypeInv'
  BY <1>29, ExecEndsType, WritesType DEF Settle
<1>30. ASSUME NEW a \in Claims, DecodeInterrupted(a)
      PROVE  TypeInv'
  BY <1>30, ExecEndsType DEF DecodeInterrupted
<1>31. ASSUME NEW a \in Claims, ExecFenced(a)
      PROVE  TypeInv'
  BY <1>31, ExecEndsType DEF ExecFenced
<1>32. ASSUME NEW a \in Claims, Release(a)
      PROVE  TypeInv'
  <2> DEFINE r == [run[a] EXCEPT !.sup = "gone", !.observed = FALSE]
  <2>0. run[a] \in Run
    OBVIOUS
  <2>1. run' \in [Claims -> Run] /\ ResultKnown'
    <3>1. r \in Run /\ r.exec = run[a].exec /\ r.result = run[a].result
      BY <2>0 DEF Run
    <3>2. run' = [run EXCEPT ![a] = r]
      BY <1>32 DEF Release
    <3> HIDE DEF r
    <3> QED BY <3>1, <3>2, RunChanges
  <2> QED BY <1>32, <2>1, WritesType, KickType DEF Release
<1>33. ASSUME NEW w \in Workers, NEW r \in Results, JobEnds(w, r)
      PROVE  TypeInv'
  <2>1. active' \in [Workers -> Job]
    <3>1. NoJob \in Job
      BY BoundsAssumption DEF NoJob, Job
    <3> QED BY <1>33, <3>1 DEF JobEnds
  <2> DEFINE c == active[w].claim
  <2>2. run' \in [Claims -> Run] /\ ResultKnown'
    <3>1. CASE c \notin Claims
      BY <1>33, <3>1 DEF JobEnds
    <3>2. CASE c \in Claims
      <4> DEFINE s == [run[c] EXCEPT !.result =
                        IF run[c].exec \in {"save", "stream"} THEN r ELSE run[c].result]
      <4>1. s \in Run /\ s.exec = run[c].exec
        BY <3>2 DEF Run
      <4>2. s.exec \in {"join", "settle"} => s.result \in Results \ {"threw"}
        BY <3>2, <4>1 DEF Run
      <4>3. run' = [run EXCEPT ![c] = s]
        BY <1>33 DEF JobEnds
      <4> HIDE DEF c, s
      <4> QED BY <3>2, <4>1, <4>2, <4>3, RunChanges
    <3> QED BY <3>1, <3>2
  <2> QED BY <1>33, <2>1, <2>2 DEF JobEnds
<1>34. CASE LeaseExpires
  BY <1>34 DEF LeaseExpires, ExpireLease, Turn
<1>35. CASE Stall
  <2>1. turn' \in Turn
    BY <1>35 DEF Stall, ExpireLease, Turn
  <2>2. faults' \in 0..MaxFaults
    BY <1>35, BoundsAssumption DEF Stall, Fails
  <2> QED BY <1>35, <2>1, <2>2 DEF Stall, ExpireLease
<1>36. ASSUME NEW w \in Workers, Crash(w)
      PROVE  TypeInv'
  BY <1>36, BoundsAssumption DEF Crash, Fails, DeadRun, Run, Job, NoJob
<1>37. ASSUME NEW w \in Workers, ClaimFails(w)
      PROVE  TypeInv'
  <2>1. faults' \in 0..MaxFaults
    BY <1>37, BoundsAssumption DEF ClaimFails, Fails
  <2>2. CASE UNCHANGED <<turn, run>>
    BY <1>37, <2>1, <2>2, KickType DEF ClaimFails
  <2>3. CASE /\ turn.attempt < MaxClaims
             /\ turn' = ClaimWrite(w)
             /\ run' = [run EXCEPT ![turn.attempt + 1] = DeadRun(w)]
    <3>1. turn.attempt + 1 \in Claims
      BY <2>3, BoundsAssumption DEF Claims, Turn
    <3>2. DeadRun(w) \in Run /\ DeadRun(w).exec = "done"
      BY DEF DeadRun, Run
    <3>3. run' \in [Claims -> Run] /\ ResultKnown'
      BY <2>3, <3>1, <3>2, RunChanges
    <3>4. turn' \in Turn
      BY <2>3, WritesType
    <3> QED BY <1>37, <2>1, <3>3, <3>4, KickType DEF ClaimFails
  <2> QED BY <1>37, <2>2, <2>3 DEF ClaimFails
<1>38. ASSUME NEW a \in Claims, ReadyDenied(a)
      PROVE  TypeInv'
  BY <1>38, ExecEndsType, BoundsAssumption DEF ReadyDenied, Fails
<1>39. ASSUME NEW a \in Claims, ExecFails(a)
      PROVE  TypeInv'
  BY <1>39, ExecEndsType, WritesType, BoundsAssumption DEF ExecFails, ExecWrites, Fails
<1>40. ASSUME NEW a \in Claims, MonitorFails(a)
      PROVE  TypeInv'
  BY <1>40, BoundsAssumption DEF MonitorFails, Fails, Run
<1>41. ASSUME NEW a \in Claims, DeliveryFails(a)
      PROVE  TypeInv'
  <2>1. faults' \in 0..MaxFaults
    BY <1>41, BoundsAssumption DEF DeliveryFails, Fails
  <2>2. run' \in [Claims -> Run] /\ ResultKnown'
    BY <1>41 DEF DeliveryFails, Run
  <2>3. turn' \in Turn /\ active' \in [Workers -> Job]
    BY <1>41, WritesType, AbortType DEF DeliveryFails
  <2> QED BY <1>41, <2>1, <2>2, <2>3 DEF DeliveryFails
<1>42. ASSUME NEW a \in Claims, CleanupFails(a)
      PROVE  TypeInv'
  BY <1>42, KickType, BoundsAssumption DEF CleanupFails, Fails, Run
<1> QED
  BY <1>1, <1>2, <1>3, <1>4, <1>5, <1>6, <1>7, <1>8, <1>9, <1>10, <1>11, <1>12, <1>13, <1>14, <1>15, <1>16, <1>17, <1>18, <1>19, <1>20, <1>21, <1>22, <1>23, <1>24, <1>25, <1>26, <1>27, <1>28, <1>29, <1>30, <1>31, <1>32, <1>33, <1>34, <1>35, <1>36, <1>37, <1>38, <1>39, <1>40, <1>41, <1>42
  DEF Next, Api, Works, Faults, Claiming, Executing, Delivery, Supervising

\* The variables of the durable transport keep the shapes of their declarations
\* in every behaviour.
THEOREM TypeCorrect == Spec => []TypeOK
<1>1. Init => TypeInv
  BY InitTypes
<1>2. TypeInv /\ [Next]_vars => TypeInv'
  BY StepKeepsTypes
<1> QED BY <1>1, <1>2, PTL DEF Spec, TypeInv

-----------------------------------------------------------------------------
(* What a step may write to the stored record *)

\* The writes of the transport, each with the condition of the record it is made
\* under: the shape the safety theorems below share.
TurnStep ==
  \/ turn' = turn
  \/ /\ turn.status = "absent"
     /\ turn' = [turn EXCEPT !.status = "pending", !.started = "no"]
  \/ /\ turn.status = "absent"
     /\ \E k \in StopKeys :
          turn' = [turn EXCEPT !.status = "cancelled", !.stop = "requested", !.stopKey = k]
  \/ /\ Stoppable(turn) /\ turn.stop = "none"
     /\ \E k \in StopKeys :
          turn' = [turn EXCEPT !.status = IF @ \in Terminal THEN "pending" ELSE @,
                               !.stop = "requested", !.stopKey = k]
  \/ /\ turn.status = "waiting_for_approval" /\ turn.stop = "none"
     /\ turn' = [Unleased(turn) EXCEPT !.status = "pending", !.resumes = turn.resumes + 1]
  \/ /\ turn.status \notin Terminal /\ Exhausted
     /\ turn' = [Unleased(turn) EXCEPT !.status = "failed"]
  \/ \E w \in Workers : turn.status \notin Terminal /\ turn' = ClaimWrite(w)
  \/ \E a \in Claims :
       /\ Owned(a)
       /\ \/ turn.stop = "none" /\ turn' = ReadyWrite
          \/ turn' = SaveWrite
          \/ run[a].exec = "stream" /\ turn' = AppendWrite(a)
          \/ run[a].delivery = "accept" /\ turn' = AcceptWrite
  \/ \E a \in Claims, r \in Results \ {"threw"} : turn' = SettleWrite(a, r)
  \/ \E a \in Claims : run[a].sup = "release" /\ turn' = ReleaseWrite(a)
  \/ \E a \in Claims : /\ RecordOwned(a) /\ turn.status \notin Terminal
                      /\ turn' = [turn EXCEPT !.leaseLive = TRUE]
  \/ turn.leaseLive /\ turn' = [turn EXCEPT !.leaseLive = FALSE]

\* Every step of the system writes the record in one of these ways.
LEMMA StepWrites ==
  ASSUME TypeInv, [Next]_vars
  PROVE  TurnStep
<1> USE DEF TurnStep
<1>1. CASE UNCHANGED vars
  BY <1>1 DEF vars
<1>2. CASE Api
  BY <1>2 DEF Api, StartTurn, CancelTurn, CancelTurnBeforeStart, ResumeApprovalTurn, StopWorkers,
     ResumeTurn, Unleased
<1>3. CASE Works
  <2>1. ASSUME NEW w \in Workers, Claiming(w) \/ RecoverTurn(w)
        PROVE  TurnStep
    BY <2>1 DEF Claiming, RecoverTurn, ClaimRefused, ClaimExhausted, Claim, Claimable
  <2>2. ASSUME NEW a \in Claims, Executing(a)
        PROVE  TurnStep
    <3>1. CASE Settle(a)
      BY <3>1 DEF Settle, TypeInv, ResultKnown
    <3> QED BY <2>2, <3>1 DEF Executing, Decode, DecodeInterrupted, Ready, Dispatch, SaveHandle,
           ExecFenced, StreamEnds, Join
  <2>3. ASSUME NEW a \in Claims, AppendEvents(a) \/ Renew(a) \/ Delivery(a)
        PROVE  TurnStep
    BY <2>3 DEF AppendEvents, Renew, Owned, Delivery, DeliverLoad, DeliverCall, DeliverAccept
  <2>4. ASSUME NEW a \in Claims, Supervising(a)
        PROVE  TurnStep
    <3>1. CatchResult(a) \in Results \ {"threw"}
      BY DEF CatchResult, Results
    <3> QED BY <2>4, <3>1 DEF Supervising, MonitorFenced, MonitorDelivers, DeliveryInterrupts,
           CatchDeliver, CatchSettle, Release
  <2> QED BY <1>3, <2>1, <2>2, <2>3, <2>4 DEF Works, LeaseExpires, ExpireLease, JobEnds, Poll
<1>4. CASE Faults
  <2>1. ASSUME NEW w \in Workers, Crash(w) \/ ClaimFails(w)
        PROVE  TurnStep
    BY <2>1 DEF Crash, ClaimFails, Claimable
  <2>2. ASSUME NEW a \in Claims, ExecFails(a)
        PROVE  TurnStep
    <3>1. CASE run[a].exec = "settle"
      BY <2>2, <3>1 DEF ExecFails, ExecWrites, TypeInv, ResultKnown
    <3>2. CASE run[a].exec # "settle"
      BY <2>2, <3>2 DEF ExecFails, ExecWrites
    <3> QED BY <3>1, <3>2
  <2>3. ASSUME NEW a \in Claims,
               ReadyDenied(a) \/ MonitorFails(a) \/ DeliveryFails(a) \/ CleanupFails(a)
        PROVE  TurnStep
    BY <2>3 DEF ReadyDenied, MonitorFails, DeliveryFails, CleanupFails
  <2> QED BY <1>4, <2>1, <2>2, <2>3 DEF Faults, Stall, ExpireLease
<1> QED BY <1>1, <1>2, <1>3, <1>4 DEF Next

-----------------------------------------------------------------------------
(* Stop *)

\* Every write keeps a stopped turn out of "failed" and "waiting_for_approval".
LEMMA StepKeepsStopped ==
  ASSUME TypeInv, StoppedTurnNeverFails, TurnStep
  PROVE  StoppedTurnNeverFails'
<1> USE DEF StoppedTurnNeverFails, TypeInv, TypeOK, Turn, Status, Terminal
<1>1. ASSUME NEW a \in Claims, NEW r \in Results \ {"threw"}, turn' = SettleWrite(a, r)
      PROVE  StoppedTurnNeverFails'
  BY <1>1 DEF SettleWrite, Outcome, Unleased
<1>2. ASSUME NEW a \in Claims, turn' = ReleaseWrite(a)
      PROVE  StoppedTurnNeverFails'
  BY <1>2 DEF ReleaseWrite, Unleased
<1>3. ASSUME NEW a \in Claims,
             turn' \in {turn, ReadyWrite, SaveWrite, AppendWrite(a), AcceptWrite},
             Owned(a)
      PROVE  StoppedTurnNeverFails'
  BY <1>3 DEF ReadyWrite, SaveWrite, AppendWrite, AcceptWrite, Owned
<1>4. ASSUME NEW w \in Workers, turn' = ClaimWrite(w)
      PROVE  StoppedTurnNeverFails'
  BY <1>4 DEF ClaimWrite
<1>5. ASSUME NEW k \in StopKeys, Stoppable(turn),
             turn' = [turn EXCEPT !.status = IF @ \in Terminal THEN "pending" ELSE @,
                                  !.stop = "requested", !.stopKey = k]
      PROVE  StoppedTurnNeverFails'
  BY <1>5 DEF Stoppable
<1>6. CASE Exhausted /\ turn' = [Unleased(turn) EXCEPT !.status = "failed"]
  BY <1>6 DEF Exhausted, Unleased
<1>7. CASE turn.stop = "none"
           /\ turn' = [Unleased(turn) EXCEPT !.status = "pending", !.resumes = turn.resumes + 1]
  BY <1>7 DEF Unleased
<1> QED BY <1>1, <1>2, <1>3, <1>4, <1>5, <1>6, <1>7 DEF TurnStep

\* A record that does not exist has no Stop, and no claim that could write one.
AbsentClean == turn.status = "absent" => turn.stop = "none" /\ turn.attempt = 0

StopInv == TypeInv /\ StoppedTurnNeverFails /\ AbsentClean

\* Every step keeps the three together.
LEMMA StepKeepsStopInv ==
  ASSUME StopInv, [Next]_vars
  PROVE  StopInv'
<1>1. TypeInv /\ StoppedTurnNeverFails /\ AbsentClean /\ TurnStep
  BY StepWrites DEF StopInv
<1>2. TypeInv' /\ StoppedTurnNeverFails'
  BY <1>1, StepKeepsTypes, StepKeepsStopped
<1>3. AbsentClean'
  <2> USE <1>1 DEF AbsentClean, TypeInv, TypeOK, Turn, Status, Terminal
  <2>1. ASSUME NEW a \in Claims, NEW r \in Results \ {"threw"}, turn' = SettleWrite(a, r)
        PROVE  AbsentClean'
    BY <2>1 DEF SettleWrite, Outcome, Unleased, Results
  <2>2. ASSUME NEW a \in Claims, turn' = ReleaseWrite(a)
        PROVE  AbsentClean'
    BY <2>2 DEF ReleaseWrite, Unleased
  <2>3. ASSUME NEW a \in Claims, turn' \in {ReadyWrite, SaveWrite, AppendWrite(a), AcceptWrite},
               Owned(a)
        PROVE  AbsentClean'
    <3>1. turn.attempt = a /\ a # 0
      BY <2>3, BoundsAssumption DEF Owned, RecordOwned, Claims
    <3> QED BY <2>3, <3>1 DEF ReadyWrite, SaveWrite, AppendWrite, AcceptWrite
  <2>4. ASSUME NEW w \in Workers, turn' = ClaimWrite(w)
        PROVE  AbsentClean'
    BY <2>4 DEF ClaimWrite
  <2>5. ASSUME NEW k \in StopKeys, Stoppable(turn),
               turn' = [turn EXCEPT !.status = IF @ \in Terminal THEN "pending" ELSE @,
                                    !.stop = "requested", !.stopKey = k]
        PROVE  AbsentClean'
    BY <2>5 DEF Stoppable
  <2>6. CASE turn' \in {[Unleased(turn) EXCEPT !.status = "failed"],
                        [Unleased(turn) EXCEPT !.status = "pending", !.resumes = turn.resumes + 1]}
    BY <2>6 DEF Unleased
  <2> QED BY <2>1, <2>2, <2>3, <2>4, <2>5, <2>6 DEF TurnStep
<1> QED BY <1>2, <1>3 DEF StopInv

\* The initial state has them.
LEMMA InitStopInv == Init => StopInv
<1>1. Init => StoppedTurnNeverFails /\ AbsentClean
  BY DEF Init, AbsentTurn, StoppedTurnNeverFails, AbsentClean
<1> QED BY <1>1, InitTypes DEF StopInv

\* For every number of processes, claims and failures, a turn with a retained
\* Stop never ends failed or paused: cancelTurn, settle(), the exhausted claim
\* and the release in finally agree.
THEOREM StoppedNeverFails == Spec => []StoppedTurnNeverFails
<1>1. StopInv /\ [Next]_vars => StopInv'
  BY StepKeepsStopInv
<1> QED BY <1>1, InitStopInv, PTL DEF Spec, StopInv

\* No step withdraws a Stop, gives it another identity or takes its acceptance
\* back.
THEOREM StopStays == Spec => StopIsKept
<1> DEFINE Kept == turn.stop # "none" => /\ turn'.stopKey = turn.stopKey
                                         /\ turn'.stop = "accepted" \/ turn'.stop = turn.stop
<1>1. ASSUME StopInv, [Next]_vars
      PROVE  [Kept]_vars
  <2>1. TypeInv /\ AbsentClean /\ TurnStep
    BY <1>1, StepWrites DEF StopInv
  <2>2. SUFFICES ASSUME turn.stop # "none"
                 PROVE  /\ turn'.stopKey = turn.stopKey
                        /\ turn'.stop = "accepted" \/ turn'.stop = turn.stop
    OBVIOUS
  <2> USE <2>1, <2>2 DEF TypeInv, TypeOK, Turn
  <2>3. turn.status # "absent" /\ ~Exhausted
    BY DEF AbsentClean, Exhausted
  <2>4. ASSUME NEW a \in Claims, NEW r \in Results \ {"threw"},
               turn' \in {SettleWrite(a, r), ReleaseWrite(a)}
        PROVE  turn'.stopKey = turn.stopKey /\ turn'.stop = turn.stop
    BY <2>4 DEF SettleWrite, ReleaseWrite, Unleased
  <2>5. ASSUME NEW a \in Claims, turn' \in {ReadyWrite, SaveWrite, AppendWrite(a), AcceptWrite}
        PROVE  turn'.stopKey = turn.stopKey /\ (turn'.stop = "accepted" \/ turn'.stop = turn.stop)
    BY <2>5 DEF ReadyWrite, SaveWrite, AppendWrite, AcceptWrite
  <2>6. ASSUME NEW w \in Workers, turn' = ClaimWrite(w)
        PROVE  turn'.stopKey = turn.stopKey /\ turn'.stop = turn.stop
    BY <2>6 DEF ClaimWrite
  <2>7. "completed" \in Results \ {"threw"}
    BY DEF Results
  <2> QED BY <2>3, <2>4, <2>5, <2>6, <2>7 DEF TurnStep
<1>2. StopInv /\ [Next]_vars => StopInv'
  BY StepKeepsStopInv
<1> QED BY <1>1, <1>2, InitStopInv, PTL DEF Spec, StopIsKept

-----------------------------------------------------------------------------
(* The execution budget *)

\* On the way to the delegate, or there.
Bound(a) == run[a].exec \in {"decode", "ready", "start"} \/ a \in dispatched

\* The budget is checked when a claim is made and holds until it dispatches,
\* because approval pauses only extend it.
BudgetInv == \A a \in Claims : Bound(a) => a <= MaximumAttempts + turn.resumes

\* No write takes back an approval pause.
LEMMA ResumesGrow ==
  ASSUME TypeInv, TurnStep
  PROVE  turn.resumes \in Nat /\ turn'.resumes \in Nat /\ turn'.resumes >= turn.resumes
<1> USE BoundsAssumption DEF TypeInv, TypeOK, Turn
<1>1. turn.resumes \in Nat
  OBVIOUS
<1>2. ASSUME NEW a \in Claims, NEW r \in Results \ {"threw"},
             turn' \in {SettleWrite(a, r), ReleaseWrite(a)}
      PROVE  turn'.resumes = turn.resumes
  BY <1>2 DEF SettleWrite, ReleaseWrite, Unleased
<1>3. ASSUME NEW a \in Claims, turn' \in {ReadyWrite, SaveWrite, AppendWrite(a), AcceptWrite}
      PROVE  turn'.resumes = turn.resumes
  BY <1>3 DEF ReadyWrite, SaveWrite, AppendWrite, AcceptWrite
<1>4. ASSUME NEW w \in Workers, turn' = ClaimWrite(w)
      PROVE  turn'.resumes = turn.resumes
  BY <1>4 DEF ClaimWrite
<1>5. "completed" \in Results \ {"threw"}
  BY DEF Results
<1>6. turn' = [Unleased(turn) EXCEPT !.status = "failed"] => turn'.resumes = turn.resumes
  BY DEF Unleased
<1>7. turn' = [Unleased(turn) EXCEPT !.status = "pending", !.resumes = turn.resumes + 1]
        => turn'.resumes = turn.resumes + 1
  BY DEF Unleased
<1>8. ASSUME NEW k \in StopKeys,
             turn' = [turn EXCEPT !.status = IF @ \in Terminal THEN "pending" ELSE @,
                                  !.stop = "requested", !.stopKey = k]
      PROVE  turn'.resumes = turn.resumes
  BY <1>8
<1>9. turn'.resumes \in {turn.resumes, turn.resumes + 1}
  BY <1>2, <1>3, <1>4, <1>5, <1>6, <1>7, <1>8 DEF TurnStep
<1> QED BY <1>1, <1>9

\* A step that sends no new claim on its way.
Unbinding ==
  /\ dispatched' \subseteq dispatched \cup {a \in Claims : run[a].exec = "start"}
  /\ \A a \in Claims : run'[a].exec \in {"decode", "ready", "start"}
                         => run[a].exec \in {"decode", "ready", "start"}

\* Only a claim of an unstopped turn within its budget does.
LEMMA StepBinds ==
  ASSUME TypeInv, [Next]_vars
  PROVE  Unbinding \/ (\E w \in Workers : Claim(w))
<1> USE DEF Unbinding, TypeInv, TypeOK, Run
<1>1. CASE UNCHANGED <<run, dispatched>>
  BY <1>1
<1>2. ASSUME NEW a \in Claims, NEW s, ExecEnds(a, s), UNCHANGED dispatched
      PROVE  Unbinding
  BY <1>2 DEF ExecEnds
<1>3. ASSUME NEW a \in Claims, Executing(a)
      PROVE  Unbinding
  <2>1. CASE Decode(a) \/ Ready(a) \/ SaveHandle(a)
    BY <1>3, <2>1 DEF Decode, Ready, SaveHandle
  <2>2. CASE Dispatch(a)
    BY <1>3, <2>2 DEF Dispatch
  <2>3. CASE DecodeInterrupted(a) \/ ExecFenced(a) \/ Settle(a)
    BY <1>2, <2>3 DEF DecodeInterrupted, ExecFenced, Settle
  <2>4. CASE StreamEnds(a)
    <3>1. CASE ExecEnds(a, "failSettle")
      BY <1>2, <2>4, <3>1 DEF StreamEnds
    <3>2. CASE ~ExecEnds(a, "failSettle")
      BY <2>4, <3>2 DEF StreamEnds
    <3> QED BY <3>1, <3>2
  <2>5. CASE Join(a)
    <3>1. CASE ExecEnds(a, "release") \/ ExecEnds(a, "failSettle")
      BY <1>2, <2>5, <3>1 DEF Join
    <3>2. CASE ~(ExecEnds(a, "release") \/ ExecEnds(a, "failSettle"))
      BY <2>5, <3>2 DEF Join
    <3> QED BY <3>1, <3>2
  <2> QED BY <1>3, <2>1, <2>2, <2>3, <2>4, <2>5 DEF Executing
<1>4. ASSUME NEW a \in Claims, Delivery(a) \/ Supervising(a)
      PROVE  Unbinding
  <2>1. dispatched' = dispatched
    BY <1>4 DEF Delivery, DeliverLoad, DeliverCall, DeliverAccept, Supervising, MonitorFenced,
       MonitorDelivers, DeliveryInterrupts, CatchDeliver, CatchSettle, Release
  <2>2. \A b \in Claims : run'[b].exec = run[b].exec
    BY <1>4 DEF Delivery, DeliverLoad, DeliverCall, DeliverAccept, Supervising, MonitorFenced,
       MonitorDelivers, DeliveryInterrupts, CatchDeliver, CatchSettle, Release
  <2> QED BY <2>1, <2>2
<1>5. ASSUME NEW w \in Workers, NEW r \in Results, JobEnds(w, r)
      PROVE  Unbinding
  BY <1>5 DEF JobEnds
<1>6. ASSUME NEW w \in Workers, Crash(w) \/ ClaimFails(w)
      PROVE  Unbinding
  BY <1>6 DEF Crash, ClaimFails, DeadRun
<1>7. ASSUME NEW a \in Claims, ReadyDenied(a) \/ ExecFails(a)
      PROVE  Unbinding
  BY <1>2, <1>7 DEF ReadyDenied, ExecFails
<1>8. ASSUME NEW a \in Claims, MonitorFails(a) \/ DeliveryFails(a) \/ CleanupFails(a)
      PROVE  Unbinding
  BY <1>8 DEF MonitorFails, DeliveryFails, CleanupFails
<1>9. CASE Api
  BY <1>1, <1>9 DEF Api, StartTurn, CancelTurn, CancelTurnBeforeStart, ResumeApprovalTurn, StopWorkers,
     ResumeTurn
<1>10. CASE Works
  <2>1. ASSUME NEW w \in Workers, Claiming(w) \/ RecoverTurn(w)
        PROVE  Unbinding \/ Claim(w)
    BY <1>1, <2>1 DEF Claiming, RecoverTurn, ClaimRefused, ClaimExhausted
  <2>2. ASSUME NEW a \in Claims, AppendEvents(a) \/ Renew(a)
        PROVE  Unbinding
    BY <1>1, <2>2 DEF AppendEvents, Renew
  <2>3. ASSUME LeaseExpires \/ \E o \in Observers : Poll(o)
        PROVE  Unbinding
    BY <1>1, <2>3 DEF LeaseExpires, ExpireLease, Poll
  <2> QED BY <1>3, <1>4, <1>5, <1>10, <2>1, <2>2, <2>3 DEF Works
<1>11. CASE Faults
  <2>1. CASE Stall
    BY <1>1, <2>1 DEF Stall, ExpireLease
  <2> QED BY <1>6, <1>7, <1>8, <1>11, <2>1 DEF Faults
<1> QED BY <1>1, <1>9, <1>10, <1>11 DEF Next, vars

\* Every step keeps the budget.
LEMMA StepKeepsBudget ==
  ASSUME TypeInv, BudgetInv, [Next]_vars
  PROVE  BudgetInv'
<1>1. turn.resumes \in Nat /\ turn'.resumes \in Nat /\ turn'.resumes >= turn.resumes
  BY StepWrites, ResumesGrow
<1> USE BoundsAssumption
<1>2. CASE Unbinding
  <2>1. \A a \in Claims : Bound(a)' => Bound(a)
    BY <1>2 DEF Unbinding, Bound
  <2> QED BY <1>1, <2>1 DEF BudgetInv, Claims
<1>3. ASSUME NEW w \in Workers, Claim(w)
      PROVE  BudgetInv'
  <2>1. turn.attempt \in Nat /\ run \in [Claims -> Run]
    BY DEF TypeInv, TypeOK, Turn
  <2>2. turn.stop = "none" => turn.attempt + 1 <= MaximumAttempts + turn.resumes
    BY <1>1, <1>3, <2>1 DEF Claim, Exhausted
  <2>3. \A a \in Claims : Bound(a)' => Bound(a) \/ (a = turn.attempt + 1 /\ turn.stop = "none")
    BY <1>3, <2>1 DEF Claim, Bound
  <2> QED BY <1>1, <2>2, <2>3 DEF BudgetInv, Claims
<1> QED BY <1>2, <1>3, StepBinds

\* Crash recovery is bounded, for any number of processes and failures: no claim
\* beyond maximumAttempts plus the resumed approval pauses reaches the delegate,
\* although the deliveries of a Stop go on claiming.
THEOREM BudgetHolds == Spec => []ExecutionBudget
<1>1. Init => TypeInv /\ BudgetInv
  BY InitTypes DEF Init, BudgetInv, Bound, UnusedRun
<1>2. TypeInv /\ BudgetInv /\ [Next]_vars => TypeInv' /\ BudgetInv'
  BY StepKeepsTypes, StepKeepsBudget
<1>3. TypeInv /\ BudgetInv => ExecutionBudget
  BY DEF TypeInv, TypeOK, BudgetInv, Bound, ExecutionBudget
<1> QED BY <1>1, <1>2, <1>3, PTL DEF Spec

-----------------------------------------------------------------------------
(* Settled records *)

\* A record at rest, or not there yet, is leased to nobody.
RestUnleased ==
  turn.status \in Terminal \cup {"absent"} => turn.lease = None /\ turn.leaseLive = FALSE

\* A run() that was ever there belongs to a process.
RunsOwned == \A a \in Claims : run[a].sup # "none" => run[a].owner \in Workers

SettledInv == StopInv /\ RestUnleased /\ RunsOwned

\* A run keeps its owner, and one that begins gets one.
LEMMA StepKeepsOwners ==
  ASSUME TypeInv, RunsOwned, [Next]_vars
  PROVE  RunsOwned'
<1> DEFINE Keeps(a) == run'[a].owner = run[a].owner /\ (run'[a].sup # "none" => run[a].sup # "none")
<1> USE DEF TypeInv, TypeOK, Run
<1>1. SUFFICES \A a \in Claims : Keeps(a) \/ run'[a].owner \in Workers
  BY DEF RunsOwned
<1>2. CASE UNCHANGED run
  BY <1>2
<1>3. ASSUME NEW a \in Claims, NEW s, ExecEnds(a, s)
      PROVE  \A b \in Claims : Keeps(b)
  BY <1>3 DEF ExecEnds
<1>4. ASSUME NEW a \in Claims, Executing(a)
      PROVE  \A b \in Claims : Keeps(b)
  <2>1. CASE \E s : ExecEnds(a, s)
    BY <1>3, <2>1
  <2>2. CASE ~\E s : ExecEnds(a, s)
    BY <1>4, <2>2 DEF Executing, Decode, DecodeInterrupted, Ready, Dispatch, SaveHandle, ExecFenced,
       StreamEnds, Join, Settle
  <2> QED BY <2>1, <2>2
<1>5. ASSUME NEW a \in Claims, Delivery(a) \/ Supervising(a)
      PROVE  \A b \in Claims : Keeps(b)
  BY <1>5 DEF Delivery, DeliverLoad, DeliverCall, DeliverAccept, Supervising, MonitorFenced,
     MonitorDelivers, DeliveryInterrupts, CatchDeliver, CatchSettle, Release
<1>6. ASSUME NEW w \in Workers, NEW r \in Results, JobEnds(w, r)
      PROVE  \A b \in Claims : Keeps(b)
  BY <1>6 DEF JobEnds
<1>7. ASSUME NEW w \in Workers, Claim(w) \/ Crash(w) \/ ClaimFails(w)
      PROVE  \A b \in Claims : Keeps(b) \/ run'[b].owner \in Workers
  BY <1>7 DEF Claim, Crash, ClaimFails, DeadRun
<1>8. ASSUME NEW a \in Claims,
             ReadyDenied(a) \/ ExecFails(a) \/ MonitorFails(a) \/ DeliveryFails(a) \/ CleanupFails(a)
      PROVE  \A b \in Claims : Keeps(b)
  <2>1. CASE ReadyDenied(a) \/ ExecFails(a)
    BY <1>3, <2>1 DEF ReadyDenied, ExecFails
  <2>2. CASE MonitorFails(a) \/ DeliveryFails(a) \/ CleanupFails(a)
    BY <2>2 DEF MonitorFails, DeliveryFails, CleanupFails
  <2> QED BY <1>8, <2>1, <2>2
<1>9. CASE Api
  BY <1>2, <1>9 DEF Api, StartTurn, CancelTurn, CancelTurnBeforeStart, ResumeApprovalTurn, StopWorkers,
     ResumeTurn
<1>10. CASE Works
  <2>1. ASSUME NEW w \in Workers, Claiming(w) \/ RecoverTurn(w)
        PROVE  UNCHANGED run \/ Claim(w)
    BY <2>1 DEF Claiming, RecoverTurn, ClaimRefused, ClaimExhausted
  <2>2. ASSUME NEW a \in Claims, AppendEvents(a) \/ Renew(a)
        PROVE  UNCHANGED run
    BY <2>2 DEF AppendEvents, Renew
  <2>3. ASSUME LeaseExpires \/ \E o \in Observers : Poll(o)
        PROVE  UNCHANGED run
    BY <2>3 DEF LeaseExpires, ExpireLease, Poll
  <2> HIDE DEF Keeps
  <2> QED BY <1>2, <1>4, <1>5, <1>6, <1>7, <1>10, <2>1, <2>2, <2>3 DEF Works
<1>11. CASE Faults
  <2>1. CASE Stall
    BY <1>2, <2>1 DEF Stall, ExpireLease
  <2> QED BY <1>7, <1>8, <1>11, <2>1 DEF Faults
<1> QED BY <1>2, <1>9, <1>10, <1>11 DEF Next, vars

\* Whoever writes under a lease owns a record that is neither at rest nor absent.
LEMMA OwnersWork ==
  ASSUME SettledInv, NEW a \in Claims, RecordOwned(a)
  PROVE  /\ turn.status # "absent"
         /\ run[a].sup # "none" => turn.status \notin Terminal
<1>1. turn.status # "absent"
  BY BoundsAssumption DEF SettledInv, StopInv, AbsentClean, RecordOwned, Claims
<1>2. run[a].sup # "none" => turn.lease \in Workers
  BY DEF SettledInv, RunsOwned, RecordOwned
<1> QED BY <1>1, <1>2, NoneAssumption DEF SettledInv, RestUnleased

\* Every step keeps records at rest unleased.
LEMMA StepKeepsRest ==
  ASSUME SettledInv, TurnStep
  PROVE  RestUnleased'
<1>1. turn \in Turn
  BY DEF SettledInv, StopInv, TypeInv, TypeOK
<1> USE <1>1 DEF RestUnleased, SettledInv, Turn, Status, Terminal
<1>2. ASSUME NEW a \in Claims, NEW r \in Results \ {"threw"}, turn' = SettleWrite(a, r)
      PROVE  RestUnleased'
  BY <1>2 DEF SettleWrite, Unleased
<1>3. ASSUME NEW a \in Claims, turn' = ReleaseWrite(a)
      PROVE  RestUnleased'
  BY <1>3 DEF ReleaseWrite, Unleased
<1>4. ASSUME NEW a \in Claims, Owned(a), turn' \in {ReadyWrite, SaveWrite, AppendWrite(a), AcceptWrite}
      PROVE  RestUnleased'
  <2>1. turn.status \notin Terminal \cup {"absent"}
    BY <1>4, OwnersWork DEF Owned
  <2> QED BY <1>4, <2>1 DEF ReadyWrite, SaveWrite, AppendWrite, AcceptWrite
<1>5. ASSUME NEW a \in Claims, RecordOwned(a), turn.status \notin Terminal,
             turn' = [turn EXCEPT !.leaseLive = TRUE]
      PROVE  RestUnleased'
  BY <1>5, OwnersWork
<1>6. ASSUME NEW w \in Workers, turn' = ClaimWrite(w)
      PROVE  RestUnleased'
  BY <1>6 DEF ClaimWrite
<1>7. ASSUME NEW k \in StopKeys,
             \/ turn.status = "absent" /\ turn' = [turn EXCEPT !.status = "cancelled",
                                                     !.stop = "requested", !.stopKey = k]
             \/ turn' = [turn EXCEPT !.status = IF @ \in Terminal THEN "pending" ELSE @,
                                     !.stop = "requested", !.stopKey = k]
      PROVE  RestUnleased'
  BY <1>7
<1>8. CASE turn' \in {[Unleased(turn) EXCEPT !.status = "failed"],
                      [Unleased(turn) EXCEPT !.status = "pending", !.resumes = turn.resumes + 1]}
  BY <1>8 DEF Unleased
<1>9. CASE \/ turn' = turn
           \/ turn' = [turn EXCEPT !.status = "pending", !.started = "no"]
           \/ turn' = [turn EXCEPT !.leaseLive = FALSE]
  BY <1>9
<1> QED BY <1>2, <1>3, <1>4, <1>5, <1>6, <1>7, <1>8, <1>9 DEF TurnStep

\* The steps the theorem below allows.
Final ==
  /\ turn.status \in {"completed", "cancelled"} => turn' = turn
  /\ turn.status = "failed" /\ turn' # turn =>
       turn'.stop = "requested" /\ (turn.handle \/ turn.started = "yes")

\* No write disturbs a settled record, but for a Stop with evidence.
LEMMA StepIsFinal ==
  ASSUME SettledInv, TurnStep
  PROVE  Final
<1>1. SUFFICES ASSUME turn.status \in {"completed", "cancelled", "failed"}
               PROVE  Final
  BY DEF Final
<1>2. turn \in Turn /\ turn.status \in Terminal /\ turn.leaseLive = FALSE
  BY <1>1 DEF SettledInv, StopInv, TypeInv, TypeOK, RestUnleased, Terminal
<1>3. ASSUME NEW a \in Claims, run[a].sup = "release", turn' = ReleaseWrite(a)
      PROVE  turn' = turn
  BY <1>2, <1>3, OwnersWork DEF ReleaseWrite
<1>4. ASSUME NEW a \in Claims, NEW r \in Results \ {"threw"}, turn' = SettleWrite(a, r)
      PROVE  turn' = turn
  BY <1>2, <1>4 DEF SettleWrite
<1>5. ASSUME NEW k \in StopKeys, Stoppable(turn),
             turn' = [turn EXCEPT !.status = IF @ \in Terminal THEN "pending" ELSE @,
                                  !.stop = "requested", !.stopKey = k]
      PROVE  Final
  BY <1>1, <1>2, <1>5 DEF Stoppable, Final, Turn, Terminal
<1>6. \A a \in Claims : ~Owned(a)
  BY <1>2 DEF Owned
<1>7. turn.status \notin {"absent", "waiting_for_approval"}
  BY <1>1
<1>8. turn' = turn => Final
  BY DEF Final
<1> HIDE DEF Final
<1> QED BY <1>2, <1>3, <1>4, <1>5, <1>6, <1>7, <1>8 DEF TurnStep

\* Completed and cancelled records are final and failed ones are reopened only by a
\* Stop with evidence of admission, whatever fibers of earlier claims still run in
\* whatever processes.
THEOREM SettledStays == Spec => SettledForGood
<1>1. Init => SettledInv
  <2>1. Init => RestUnleased /\ RunsOwned
    BY DEF Init, RestUnleased, RunsOwned, AbsentTurn, UnusedRun
  <2> QED BY <2>1, InitStopInv DEF SettledInv
<1>2. SettledInv /\ [Next]_vars => SettledInv' /\ [Final]_vars
  <2>1. SettledInv /\ [Next]_vars => TurnStep
    BY StepWrites DEF SettledInv, StopInv
  <2>2. SettledInv /\ [Next]_vars => RunsOwned'
    BY StepKeepsOwners DEF SettledInv, StopInv
  <2> QED BY <2>1, <2>2, StepKeepsStopInv, StepKeepsRest, StepIsFinal DEF SettledInv
<1> QED BY <1>1, <1>2, PTL DEF Spec, SettledForGood, Final

-----------------------------------------------------------------------------
(* Observers *)

ObserverInv == SettledInv /\ ObserverSawEverything

\* Only a poll tells an observer anything, and it tells what the record says.
LEMMA StepTells ==
  ASSUME TypeInv, [Next]_vars, NEW o \in Observers,
         obs'[o].outcome \in {"completed", "cancelled"}
  PROVE  \/ obs'[o] = obs[o]
         \/ turn' = turn /\ turn.status = obs'[o].outcome /\ obs'[o].index = Len(turn.events)
<1> USE DEF TypeInv, TypeOK, Obs
<1>1. CASE UNCHANGED obs
  BY <1>1
<1>2. ASSUME NEW p \in Observers, Poll(p)
      PROVE  \/ obs'[o] = obs[o]
             \/ turn' = turn /\ turn.status = obs'[o].outcome /\ obs'[o].index = Len(turn.events)
  <2> DEFINE told == CASE turn.status \in Terminal -> turn.status
                      [] turn.status = "pending" /\ turn.attempt > 0 /\ turn.lease = None
                           -> "disconnected"
                      [] OTHER -> "watching"
  <2>1. obs' = [obs EXCEPT ![p] = [index |-> Len(turn.events), outcome |-> told]] /\ turn' = turn
    BY <1>2 DEF Poll
  <2>2. told \in {"completed", "cancelled"} => turn.status = told
    <3>1. turn.status \in Terminal => told = turn.status
      BY Z3 DEF Terminal
    <3>2. turn.status \notin Terminal => told \in {"disconnected", "watching"}
      BY Z3 DEF Terminal
    <3> QED BY <3>1, <3>2
  <2> HIDE DEF told
  <2>3. CASE o = p
    <3>1. obs'[o] = [index |-> Len(turn.events), outcome |-> told]
      BY <2>1, <2>3
    <3> QED BY <2>1, <2>2, <3>1
  <2>4. CASE o # p
    BY <2>1, <2>4
  <2> QED BY <2>3, <2>4
<1>3. ASSUME NEW w \in Workers, NEW p \in Observers, ResumeTurn(w, p)
      PROVE  obs'[o] = obs[o]
  <2>1. obs' = [obs EXCEPT ![p] = [obs[p] EXCEPT !.outcome = "watching"]]
    BY <1>3 DEF ResumeTurn
  <2>2. o = p => obs'[o].outcome = "watching"
    BY <2>1
  <2> QED BY <2>1, <2>2
<1>4. CASE Api
  BY <1>1, <1>3, <1>4 DEF Api, StartTurn, CancelTurn, CancelTurnBeforeStart, ResumeApprovalTurn,
     StopWorkers
<1>5. CASE Works
  <2>1. ASSUME NEW w \in Workers, Claiming(w) \/ RecoverTurn(w)
        PROVE  UNCHANGED obs
    BY <2>1 DEF Claiming, RecoverTurn, ClaimRefused, ClaimExhausted, Claim
  <2>2. ASSUME NEW a \in Claims, Executing(a)
        PROVE  UNCHANGED obs
    BY <2>2 DEF Executing, Decode, DecodeInterrupted, Ready, Dispatch, SaveHandle, ExecFenced,
       StreamEnds, Join, Settle
  <2>3. ASSUME NEW a \in Claims, AppendEvents(a) \/ Delivery(a) \/ Renew(a) \/ Supervising(a)
        PROVE  UNCHANGED obs
    BY <2>3 DEF AppendEvents, Renew, Delivery, DeliverLoad, DeliverCall, DeliverAccept, Supervising,
       MonitorFenced, MonitorDelivers, DeliveryInterrupts, CatchDeliver, CatchSettle, Release
  <2>4. ASSUME NEW w \in Workers, NEW r \in Results, JobEnds(w, r)
        PROVE  UNCHANGED obs
    BY <2>4 DEF JobEnds
  <2> QED BY <1>1, <1>2, <1>5, <2>1, <2>2, <2>3, <2>4 DEF Works, LeaseExpires, ExpireLease
<1>6. CASE Faults
  BY <1>1, <1>6 DEF Faults, Stall, ExpireLease, Crash, ClaimFails, ReadyDenied, ExecFails, MonitorFails,
     DeliveryFails, CleanupFails
<1> QED BY <1>1, <1>4, <1>5, <1>6 DEF Next, vars

\* A client that was told completed or cancelled has read every event the record
\* will ever hold, however many claims and zombies there are: the record it was
\* told about is final.
THEOREM ObserversSeeEverything == Spec => []ObserverSawEverything
<1>1. Init => ObserverInv
  <2>1. Init => RestUnleased /\ RunsOwned /\ ObserverSawEverything
    BY DEF Init, RestUnleased, RunsOwned, AbsentTurn, UnusedRun, ObserverSawEverything
  <2> QED BY <2>1, InitStopInv DEF ObserverInv, SettledInv
<1>2. ASSUME ObserverInv, [Next]_vars
      PROVE  ObserverInv'
  <2>1. SettledInv /\ StopInv /\ TypeInv
    BY <1>2 DEF ObserverInv, SettledInv, StopInv
  <2>2. TurnStep
    BY <1>2, <2>1, StepWrites
  <2>3. SettledInv'
    BY <1>2, <2>1, <2>2, StepKeepsStopInv, StepKeepsRest, StepKeepsOwners DEF SettledInv
  <2>4. ASSUME NEW o \in Observers, obs'[o].outcome \in {"completed", "cancelled"}
        PROVE  obs'[o].index = Len(turn'.events) /\ turn'.status = obs'[o].outcome
    <3>1. CASE turn' = turn /\ turn.status = obs'[o].outcome /\ obs'[o].index = Len(turn.events)
      BY <3>1
    <3>2. CASE obs'[o] = obs[o]
      <4>1. turn.status = obs[o].outcome /\ obs[o].index = Len(turn.events)
        BY <1>2, <2>4, <3>2 DEF ObserverInv, ObserverSawEverything
      <4>2. turn' = turn
        BY <2>1, <2>2, <2>4, <3>2, <4>1, StepIsFinal DEF Final
      <4> QED BY <3>2, <4>1, <4>2
    <3> QED BY <1>2, <2>1, <2>4, <3>1, <3>2, StepTells
  <2> QED BY <2>3, <2>4 DEF ObserverInv, ObserverSawEverything
<1> QED BY <1>1, <1>2, PTL DEF Spec, ObserverInv

-----------------------------------------------------------------------------
(* What a run may do *)

\* How the fiber and the delivery of one claim move, against the record: the
\* counterpart of TurnStep that the two theorems below share.
RunStep(a) ==
  /\ run'[a].exec = "start" =>
       \/ run[a].exec = "start"
       \/ turn.status \notin Terminal /\ RecordOwned(a) /\ turn' = ReadyWrite
  /\ run'[a].exec \in {"save", "stream"} => run[a].exec \in {"save", "stream"} \/ a \in dispatched'
  /\ run'[a].delivery = "call" =>
       \/ run[a].delivery = "call"
       \/ turn.stop = "requested" /\ turn.handle /\ turn' = turn
  /\ run'[a].delivery = "accept" =>
       \/ run[a].delivery \in {"call", "accept"}
       \/ turn.stop = "requested" /\ turn.started = "no" /\ turn' = turn

\* What every step adds to the claims that reached the delegate.
DispatchStep ==
  /\ dispatched \subseteq dispatched'
  /\ dispatched' \subseteq dispatched \cup {a \in Claims : run[a].exec = "start"}

\* A run whose fiber and delivery stand still.
LEMMA StillRun ==
  ASSUME NEW a \in Claims, run'[a].exec = run[a].exec, run'[a].delivery = run[a].delivery
  PROVE  RunStep(a)
BY DEF RunStep

\* Where execute() ends, nothing else of any run moves but the race.
LEMMA EndedRun ==
  ASSUME TypeInv, NEW a \in Claims, NEW s, ExecEnds(a, s), NEW b \in Claims
  PROVE  RunStep(b)
<1> DEFINE r == [run[a] EXCEPT !.exec = "done", !.result = "none",
                               !.sup = IF run[a].sup = "racing" THEN s ELSE run[a].sup]
<1>1. run[a] \in Run /\ run \in [Claims -> Run]
  BY DEF TypeInv, TypeOK
<1>2. r.exec = "done" /\ r.delivery = run[a].delivery
  BY <1>1 DEF Run
<1>3. run' = [run EXCEPT ![a] = r]
  BY DEF ExecEnds
<1> HIDE DEF r
<1>4. run'[a] = r /\ (b # a => run'[b] = run[b])
  BY <1>1, <1>3
<1> QED BY <1>2, <1>4 DEF RunStep

\* Every step moves the runs in these ways.
LEMMA StepRuns ==
  ASSUME TypeInv, [Next]_vars
  PROVE  DispatchStep /\ \A b \in Claims : RunStep(b)
<1> DEFINE Goal == DispatchStep /\ \A b \in Claims : RunStep(b)
<1> USE DEF TypeInv, TypeOK, Run
<1>1. CASE UNCHANGED <<run, dispatched>>
  BY <1>1, StillRun DEF DispatchStep
<1>2. ASSUME NEW a \in Claims, NEW s, ExecEnds(a, s), UNCHANGED dispatched
      PROVE  Goal
  BY <1>2, EndedRun DEF DispatchStep
<1>3. ASSUME NEW a \in Claims, Executing(a)
      PROVE  Goal
  <2>1. CASE Decode(a) \/ SaveHandle(a)
    BY <2>1 DEF Decode, SaveHandle, RunStep, DispatchStep
  <2>2. CASE Ready(a)
    BY <2>2 DEF Ready, RunStep, DispatchStep, Owned, Delivering
  <2>3. CASE Dispatch(a)
    BY <2>3 DEF Dispatch, RunStep, DispatchStep
  <2>4. CASE DecodeInterrupted(a) \/ ExecFenced(a) \/ Settle(a)
    BY <1>2, <2>4 DEF DecodeInterrupted, ExecFenced, Settle
  <2>5. CASE StreamEnds(a)
    <3>1. CASE ExecEnds(a, "failSettle")
      BY <1>2, <2>5, <3>1 DEF StreamEnds
    <3>2. CASE ~ExecEnds(a, "failSettle")
      BY <2>5, <3>2 DEF StreamEnds, RunStep, DispatchStep, Delivering
    <3> QED BY <3>1, <3>2
  <2>6. CASE Join(a)
    <3>1. CASE ExecEnds(a, "release") \/ ExecEnds(a, "failSettle")
      BY <1>2, <2>6, <3>1 DEF Join
    <3>2. CASE ~(ExecEnds(a, "release") \/ ExecEnds(a, "failSettle"))
      BY <2>6, <3>2 DEF Join, RunStep, DispatchStep
    <3> QED BY <3>1, <3>2
  <2> HIDE DEF Goal
  <2> QED BY <1>3, <2>1, <2>2, <2>3, <2>4, <2>5, <2>6 DEF Executing
<1>4. ASSUME NEW a \in Claims, Delivery(a)
      PROVE  Goal
  BY <1>4 DEF Delivery, DeliverLoad, DeliverCall, DeliverAccept, RunStep, DispatchStep
<1>5. ASSUME NEW a \in Claims, Supervising(a)
      PROVE  Goal
  BY <1>5 DEF Supervising, MonitorFenced, MonitorDelivers, DeliveryInterrupts, CatchDeliver, CatchSettle,
     Release, RunStep, DispatchStep
<1>6. ASSUME NEW w \in Workers, NEW r \in Results, JobEnds(w, r)
      PROVE  Goal
  BY <1>6 DEF JobEnds, RunStep, DispatchStep
<1>7. ASSUME NEW w \in Workers, Claim(w) \/ Crash(w) \/ ClaimFails(w)
      PROVE  Goal
  BY <1>7 DEF Claim, Crash, ClaimFails, DeadRun, RunStep, DispatchStep
<1>8. ASSUME NEW a \in Claims, ReadyDenied(a) \/ ExecFails(a)
      PROVE  Goal
  BY <1>2, <1>8 DEF ReadyDenied, ExecFails
<1>9. ASSUME NEW a \in Claims, MonitorFails(a) \/ DeliveryFails(a) \/ CleanupFails(a)
      PROVE  Goal
  BY <1>9 DEF MonitorFails, DeliveryFails, CleanupFails, RunStep, DispatchStep
<1>10. CASE Api
  BY <1>1, <1>10 DEF Api, StartTurn, CancelTurn, CancelTurnBeforeStart, ResumeApprovalTurn, StopWorkers,
     ResumeTurn
<1>11. CASE Works
  <2>1. ASSUME NEW w \in Workers, Claiming(w) \/ RecoverTurn(w)
        PROVE  UNCHANGED <<run, dispatched>> \/ Claim(w)
    BY <2>1 DEF Claiming, RecoverTurn, ClaimRefused, ClaimExhausted
  <2>2. ASSUME NEW a \in Claims, AppendEvents(a) \/ Renew(a)
        PROVE  UNCHANGED <<run, dispatched>>
    BY <2>2 DEF AppendEvents, Renew
  <2>3. ASSUME LeaseExpires \/ \E o \in Observers : Poll(o)
        PROVE  UNCHANGED <<run, dispatched>>
    BY <2>3 DEF LeaseExpires, ExpireLease, Poll
  <2> HIDE DEF Goal
  <2> QED BY <1>1, <1>3, <1>4, <1>5, <1>6, <1>7, <1>11, <2>1, <2>2, <2>3 DEF Works, Goal
<1>12. CASE Faults
  <2>1. CASE Stall
    BY <1>1, <2>1 DEF Stall, ExpireLease
  <2> HIDE DEF Goal
  <2> QED BY <1>7, <1>8, <1>9, <1>12, <2>1 DEF Faults, Goal
<1> QED BY <1>1, <1>10, <1>11, <1>12 DEF Next, vars

-----------------------------------------------------------------------------
(* Fenced events *)

\* Every retained event comes from a claim that is not later than the current one,
\* and a fiber that may append belongs to a claim that was dispatched.
EventsInv ==
  /\ FencedEvents
  /\ \A i \in 1..Len(turn.events) : turn.events[i] <= turn.attempt
  /\ \A a \in Claims : run[a].exec \in {"save", "stream"} => a \in dispatched

\* Only the fiber of the claim that owns the record appends, and claims grow.
LEMMA StepAppends ==
  ASSUME TypeInv, TurnStep
  PROVE  /\ turn.attempt \in Nat /\ turn'.attempt \in Nat /\ turn.attempt <= turn'.attempt
         /\ \/ turn'.events = turn.events
            \/ /\ turn.attempt \in Claims /\ run[turn.attempt].exec = "stream"
               /\ turn'.events = Append(turn.events, turn.attempt)
<1> DEFINE Same == turn'.attempt = turn.attempt /\ turn'.events = turn.events
<1> USE BoundsAssumption DEF TypeInv, TypeOK, Turn
<1>1. turn.attempt \in Nat
  OBVIOUS
<1>2. ASSUME NEW a \in Claims, NEW r \in Results \ {"threw"},
             turn' \in {SettleWrite(a, r), ReleaseWrite(a)}
      PROVE  Same
  BY <1>2 DEF SettleWrite, ReleaseWrite, Unleased
<1>3. ASSUME NEW a \in Claims, turn' \in {ReadyWrite, SaveWrite, AcceptWrite}
      PROVE  Same
  BY <1>3 DEF ReadyWrite, SaveWrite, AcceptWrite
<1>4. ASSUME NEW a \in Claims, Owned(a), run[a].exec = "stream", turn' = AppendWrite(a)
      PROVE  /\ turn'.attempt = turn.attempt /\ turn.attempt = a
             /\ turn'.events = Append(turn.events, turn.attempt)
  BY <1>4 DEF AppendWrite, Owned, RecordOwned
<1>5. ASSUME NEW w \in Workers, turn' = ClaimWrite(w)
      PROVE  turn'.attempt = turn.attempt + 1 /\ turn'.events = turn.events
  BY <1>5 DEF ClaimWrite
<1>6. ASSUME NEW k \in StopKeys,
             turn' = [turn EXCEPT !.status = IF @ \in Terminal THEN "pending" ELSE @,
                                  !.stop = "requested", !.stopKey = k]
      PROVE  Same
  BY <1>6
<1>7. turn' = [Unleased(turn) EXCEPT !.status = "failed"] => Same
  BY DEF Unleased
<1>8. turn' = [Unleased(turn) EXCEPT !.status = "pending", !.resumes = turn.resumes + 1] => Same
  BY DEF Unleased
<1>9. ASSUME \/ turn' = turn
             \/ turn' = [turn EXCEPT !.leaseLive = TRUE]
             \/ turn' = [turn EXCEPT !.leaseLive = FALSE]
             \/ turn' = [turn EXCEPT !.status = "pending", !.started = "no"]
             \/ \E k \in StopKeys : turn' = [turn EXCEPT !.status = "cancelled", !.stop = "requested",
                                                         !.stopKey = k]
      PROVE  Same
  BY <1>9
<1>10. \/ Same
       \/ \E a \in Claims : Owned(a) /\ run[a].exec = "stream" /\ turn' = AppendWrite(a)
       \/ \E w \in Workers : turn' = ClaimWrite(w)
  <2>1. "completed" \in Results \ {"threw"}
    BY DEF Results
  <2> HIDE DEF Same, TypeInv
  <2> QED BY <1>2, <1>3, <1>6, <1>7, <1>8, <1>9, <2>1 DEF TurnStep
<1> QED BY <1>1, <1>4, <1>5, <1>10

\* Every step keeps the events in the order of the claims.
LEMMA StepKeepsEvents ==
  ASSUME TypeInv, EventsInv, [Next]_vars
  PROVE  EventsInv'
<1>1. TurnStep /\ DispatchStep /\ \A a \in Claims : RunStep(a)
  BY StepWrites, StepRuns
<1>2. \A a \in Claims : run'[a].exec \in {"save", "stream"} => a \in dispatched'
  BY <1>1 DEF EventsInv, RunStep, DispatchStep
<1>3. turn.events \in Seq(Claims) /\ turn.attempt \in Nat /\ turn'.attempt \in Nat
        /\ turn.attempt <= turn'.attempt
  BY <1>1, StepAppends DEF TypeInv, TypeOK, Turn
<1>4. CASE turn'.events = turn.events
  <2>1. FencedEvents'
    BY <1>1, <1>4 DEF EventsInv, FencedEvents, DispatchStep
  <2>2. \A i \in 1..Len(turn'.events) : turn'.events[i] <= turn'.attempt
    <3> TAKE i \in 1..Len(turn'.events)
    <3>1. turn.events[i] \in Nat /\ turn.events[i] <= turn.attempt
      BY <1>3, <1>4, BoundsAssumption DEF EventsInv, Claims
    <3> QED BY <1>3, <1>4, <3>1
  <2> QED BY <1>2, <2>1, <2>2 DEF EventsInv
<1>5. CASE /\ turn.attempt \in Claims /\ run[turn.attempt].exec = "stream"
           /\ turn'.events = Append(turn.events, turn.attempt)
  <2> DEFINE n == Len(turn.events)
  <2>1. turn.attempt \in dispatched'
    BY <1>1, <1>5 DEF EventsInv, DispatchStep
  <2>2. /\ n \in Nat /\ Len(turn'.events) = n + 1
        /\ turn'.events[n + 1] = turn.attempt
        /\ \A i \in 1..n : turn'.events[i] = turn.events[i] /\ turn.events[i] \in Nat
    BY <1>3, <1>5, BoundsAssumption DEF Claims
  <2>3. \A i \in 1..n : turn.events[i] \in dispatched /\ turn.events[i] <= turn.attempt
    BY DEF EventsInv, FencedEvents
  <2>4. \A i, j \in 1..n : i < j => turn.events[i] <= turn.events[j]
    BY DEF EventsInv, FencedEvents
  <2> HIDE DEF n
  <2>5. \A i \in 1..(n + 1) : turn'.events[i] \in dispatched' /\ turn'.events[i] <= turn'.attempt
    <3> TAKE i \in 1..(n + 1)
    <3>1. CASE i = n + 1
      BY <1>3, <2>1, <2>2, <3>1
    <3>2. CASE i \in 1..n
      BY <1>1, <1>3, <2>2, <2>3, <3>2 DEF DispatchStep
    <3> QED BY <2>2, <3>1, <3>2
  <2>6. \A i, j \in 1..(n + 1) : i < j => turn'.events[i] <= turn'.events[j]
    <3> TAKE i, j \in 1..(n + 1)
    <3> HAVE i < j
    <3>1. i \in 1..n
      BY <2>2
    <3>2. CASE j = n + 1
      BY <2>2, <2>3, <3>1, <3>2
    <3>3. CASE j \in 1..n
      BY <2>2, <2>4, <3>1, <3>3
    <3> QED BY <2>2, <3>2, <3>3
  <2> QED BY <1>2, <2>2, <2>5, <2>6 DEF EventsInv, FencedEvents
<1> QED BY <1>1, <1>4, <1>5, StepAppends

\* Replaced workers never write, however many processes, claims and zombies there
\* are: retained events come in the order of the claims and only from dispatched
\* ones.
THEOREM EventsAreFenced == Spec => []FencedEvents
<1>1. Init => TypeInv /\ EventsInv
  BY InitTypes DEF Init, EventsInv, FencedEvents, AbsentTurn, UnusedRun
<1>2. TypeInv /\ EventsInv /\ [Next]_vars => TypeInv' /\ EventsInv'
  BY StepKeepsTypes, StepKeepsEvents
<1>3. EventsInv => FencedEvents
  BY DEF EventsInv
<1> QED BY <1>1, <1>2, <1>3, PTL DEF Spec

-----------------------------------------------------------------------------
(* Accepted Stops *)

\* The record holds the delegate's handle, or shows that it was never reached.
Certain == turn.handle \/ turn.started # "yes"

\* Admission is recorded before it happens; a delivery that goes on to record the
\* acceptance is certain, and stays so; and so is an accepted Stop.
CertainInv ==
  /\ \A a \in Claims : run[a].exec = "start" \/ a \in dispatched => turn.started = "yes"
  /\ \A a \in Claims : run[a].delivery = "call" => turn.stop # "none" /\ turn.handle
  /\ \A a \in Claims : run[a].delivery = "accept" => turn.stop # "none" /\ Certain
  /\ turn.stop = "accepted" => Certain
  /\ turn.status = "absent" => turn.started = "unset"

\* What is known of the admission of a stopped turn stays true.
LEMMA StepIsCertain ==
  ASSUME StopInv, CertainInv, TurnStep
  PROVE  /\ turn.started = "yes" => turn'.started = "yes"
         /\ turn.handle => turn'.handle
         /\ turn.stop # "none" => turn'.stop # "none" /\ (turn'.started = "yes" => turn.started = "yes")
         /\ turn'.status = "absent" => turn'.started = "unset"
         /\ turn'.stop = "accepted" => \/ turn.stop = "accepted"
                                       \/ \E a \in Claims : run[a].delivery = "accept"
<1> USE BoundsAssumption DEF StopInv, TypeInv, TypeOK, Turn, Status, Terminal
<1>1. ASSUME NEW a \in Claims, NEW r \in Results \ {"threw"}, turn' = SettleWrite(a, r)
      PROVE  /\ turn'.started = turn.started /\ turn'.handle = turn.handle /\ turn'.stop = turn.stop
             /\ turn'.status = "absent" => turn.status = "absent"
  BY <1>1 DEF SettleWrite, Outcome, Unleased, Results
<1>2. ASSUME NEW a \in Claims, turn' = ReleaseWrite(a)
      PROVE  /\ turn'.started = turn.started /\ turn'.handle = turn.handle /\ turn'.stop = turn.stop
             /\ turn'.status = "absent" => turn.status = "absent"
  BY <1>2 DEF ReleaseWrite, Unleased
<1>3. ASSUME NEW a \in Claims, Owned(a)
      PROVE  turn.status # "absent"
  BY <1>3 DEF AbsentClean, Owned, RecordOwned, Claims
<1>4. ASSUME NEW a \in Claims, turn' = ReadyWrite
      PROVE  /\ turn'.started = "yes" /\ turn'.handle = turn.handle /\ turn'.stop = turn.stop
             /\ turn'.status = turn.status
  BY <1>4 DEF ReadyWrite
<1>5. ASSUME NEW a \in Claims, turn' = SaveWrite
      PROVE  /\ turn'.started = turn.started /\ turn'.handle /\ turn'.stop = turn.stop
             /\ turn'.status = turn.status
  BY <1>5 DEF SaveWrite
<1>6. ASSUME NEW a \in Claims, turn' = AppendWrite(a)
      PROVE  /\ turn'.started = turn.started /\ turn'.handle = turn.handle /\ turn'.stop = turn.stop
             /\ turn'.status = turn.status
  BY <1>6 DEF AppendWrite
<1>7. ASSUME NEW a \in Claims, turn' = AcceptWrite
      PROVE  /\ turn'.started = turn.started /\ turn'.handle = turn.handle /\ turn'.stop # "none"
             /\ turn'.status = turn.status
  BY <1>7 DEF AcceptWrite
<1>8. ASSUME NEW w \in Workers, turn' = ClaimWrite(w)
      PROVE  /\ \/ turn'.started = turn.started
                \/ turn.started = "unset" /\ turn'.started = "no"
             /\ turn'.handle = turn.handle /\ turn'.stop = turn.stop /\ turn'.status # "absent"
  BY <1>8 DEF ClaimWrite
<1>9. ASSUME NEW k \in StopKeys, Stoppable(turn),
             turn' = [turn EXCEPT !.status = IF @ \in Terminal THEN "pending" ELSE @,
                                  !.stop = "requested", !.stopKey = k]
      PROVE  /\ turn'.started = turn.started /\ turn'.handle = turn.handle /\ turn'.stop = "requested"
             /\ turn'.status # "absent"
  BY <1>9 DEF Stoppable
<1>10. CASE turn' \in {[Unleased(turn) EXCEPT !.status = "failed"],
                       [Unleased(turn) EXCEPT !.status = "pending", !.resumes = turn.resumes + 1]}
  BY <1>10 DEF Unleased
<1>11. turn.status = "absent" => turn.started = "unset" /\ turn.stop = "none"
  BY DEF CertainInv, AbsentClean
<1>12. CASE \/ turn' = turn
            \/ turn' = [turn EXCEPT !.leaseLive = TRUE] \/ turn' = [turn EXCEPT !.leaseLive = FALSE]
  BY <1>11, <1>12
<1>13. CASE /\ turn.status = "absent"
            /\ \/ turn' = [turn EXCEPT !.status = "pending", !.started = "no"]
               \/ \E k \in StopKeys : turn' = [turn EXCEPT !.status = "cancelled", !.stop = "requested",
                                                           !.stopKey = k]
  BY <1>11, <1>13
<1> QED BY <1>1, <1>2, <1>3, <1>4, <1>5, <1>6, <1>7, <1>8, <1>9, <1>10, <1>11, <1>12, <1>13 DEF TurnStep

\* Every step keeps Stops certain.
LEMMA StepKeepsCertain ==
  ASSUME StopInv, CertainInv, [Next]_vars
  PROVE  CertainInv'
<1>1. TypeInv /\ TurnStep /\ DispatchStep /\ \A a \in Claims : RunStep(a)
  BY StepWrites, StepRuns DEF StopInv
<1>2. /\ turn.started = "yes" => turn'.started = "yes"
      /\ turn.handle => turn'.handle
      /\ turn.stop # "none" => turn'.stop # "none" /\ (turn'.started = "yes" => turn.started = "yes")
      /\ turn'.status = "absent" => turn'.started = "unset"
      /\ turn'.stop = "accepted" => \/ turn.stop = "accepted"
                                    \/ \E a \in Claims : run[a].delivery = "accept"
  BY <1>1, StepIsCertain
<1>3. turn.stop # "none" /\ Certain => Certain'
  BY <1>2 DEF Certain
<1>4. ASSUME NEW a \in Claims, run'[a].exec = "start" \/ a \in dispatched'
      PROVE  turn'.started = "yes"
  <2>1. turn' = ReadyWrite => turn'.started = "yes"
    BY <1>1 DEF ReadyWrite, TypeInv, TypeOK, Turn
  <2> QED BY <1>1, <1>2, <1>4, <2>1 DEF RunStep, DispatchStep, CertainInv
<1>5. ASSUME NEW a \in Claims, run'[a].delivery = "call"
      PROVE  turn'.stop # "none" /\ turn'.handle
  BY <1>1, <1>2, <1>5 DEF RunStep, CertainInv
<1>6. ASSUME NEW a \in Claims, run'[a].delivery = "accept"
      PROVE  turn'.stop # "none" /\ Certain'
  <2>1. turn.stop # "none" /\ Certain
    BY <1>1, <1>6 DEF RunStep, CertainInv, Certain
  <2> QED BY <1>2, <1>3, <2>1
<1>7. turn'.stop = "accepted" => Certain'
  BY <1>2, <1>3 DEF CertainInv
<1> QED BY <1>2, <1>4, <1>5, <1>6, <1>7 DEF CertainInv

\* A Stop is recorded as accepted without a delegate handle only if no claim ever
\* reached the delegate, and none does afterwards, although the delivery reads
\* delegateStartAttempted in one step and records acceptedAt in a later one: the
\* ready update and the delivery exclude each other through the record.
THEOREM AcceptanceIsCertain == Spec => []AcceptedStopIsCertain
<1>1. Init => StopInv /\ CertainInv
  BY InitStopInv DEF Init, CertainInv, Certain, AbsentTurn, UnusedRun
<1>2. StopInv /\ CertainInv /\ [Next]_vars => StopInv' /\ CertainInv'
  BY StepKeepsStopInv, StepKeepsCertain
<1>3. StopInv /\ CertainInv => AcceptedStopIsCertain
  BY DEF StopInv, TypeInv, TypeOK, CertainInv, Certain, AcceptedStopIsCertain
<1> QED BY <1>1, <1>2, <1>3, PTL DEF Spec

-----------------------------------------------------------------------------
(* One process *)

\* There is one process; with two, a Stop may be settled by one while the work goes on
\* in the other.
OneProcess == \A v, w \in Workers : v = w

\* No execution goes on undisturbed.
Quiet == \A w \in Workers : active[w] = NoJob \/ active[w].aborted

\* The `running` map has a run() that has claimed the turn.
Busy == \A w \in Workers : running[w] = "claimed"

Live(r) == r.sup \notin {"none", "gone"}

\* What is known of claim a's run r, beside a record t, a process that is quiet (q) and
\* one that is busy (c): only the latest claim's run() is there; no delivery begins
\* before the delegate was reached or the execution given up; and what the delivery and
\* the result say of the delegate is true.
RunOK(a, r, t, q, c) ==
  /\ r.sup = "none" => r.exec = "none"
  /\ Live(r) => a = t.attempt /\ c
  /\ r.exec \in {"none", "decode", "ready", "start"} =>
       /\ r.delivery = "idle" /\ ~r.observed /\ r.result = "none"
       /\ r.sup \notin {"cancelDeliver", "cancelSettle"}
  /\ r.delivery # "idle" \/ r.sup = "cancelDeliver" => t.stop # "none"
  /\ r.delivery = "delivered" \/ r.sup = "cancelSettle" => t.stop = "accepted"
  /\ r.delivery = "accept" /\ a = t.attempt => q
  /\ r.exec \in {"save", "stream", "settle"} /\ r.result = "cancelled" /\ a = t.attempt => q
  /\ r.exec = "start" /\ r.sup \notin {"release", "gone"} =>
       t.status # "cancelled" /\ t.stop # "accepted"

\* An execution was dispatched; an accepted Stop has reached it.
JobsOK ==
  /\ \A w \in Workers : active[w] # NoJob => active[w].claim \in dispatched
  /\ turn.stop = "accepted" => Quiet
  /\ StopReachesWork

WorkInv == JobsOK /\ \A a \in Claims : RunOK(a, run[a], turn, Quiet, Busy)

\* The invariants that it rests on.
Known == SettledInv /\ CertainInv

\* What a run is known to be stays true while others move.
LEMMA RunStays ==
  ASSUME NEW a, NEW r, NEW t, NEW t2, NEW q, NEW q2, NEW c, NEW c2, RunOK(a, r, t, q, c),
         Live(r) => t2.attempt = t.attempt /\ c2,
         a = t2.attempt => a = t.attempt,
         t.stop # "none" => t2.stop # "none",
         t.stop = "accepted" => t2.stop = "accepted",
         q => q2,
         r.exec = "start" /\ r.sup \notin {"release", "gone"} =>
           t2.status # "cancelled" /\ t2.stop # "accepted"
  PROVE  RunOK(a, r, t2, q2, c2)
BY DEF RunOK

\* A step of one run, or of none, beside which the record keeps its claim.
LEMMA OneRunMoves ==
  ASSUME WorkInv, NEW a \in Claims, \A b \in Claims : b # a => run'[b] = run[b],
         RunOK(a, run'[a], turn', Quiet', Busy'),
         turn'.attempt = turn.attempt,
         turn.stop # "none" => turn'.stop # "none",
         turn.stop = "accepted" => turn'.stop = "accepted",
         Quiet => Quiet',
         Busy => Busy' \/ a = turn.attempt,
         turn'.status = "cancelled" => turn.status = "cancelled" \/ a = turn.attempt,
         turn'.stop = "accepted" => turn.stop = "accepted" \/ a = turn.attempt
  PROVE  \A b \in Claims : RunOK(b, run'[b], turn', Quiet', Busy')
<1> SUFFICES ASSUME NEW b \in Claims, b # a
             PROVE  RunOK(b, run[b], turn', Quiet', Busy')
  OBVIOUS
<1>1. RunOK(b, run[b], turn, Quiet, Busy)
  BY DEF WorkInv
<1>2. Live(run[b]) => b = turn.attempt /\ Busy /\ a # turn.attempt
  BY <1>1 DEF RunOK
<1>3. run[b].exec = "start" /\ run[b].sup \notin {"release", "gone"} =>
        Live(run[b]) /\ turn.status # "cancelled" /\ turn.stop # "accepted"
  BY <1>1 DEF RunOK, Live
<1> QED BY <1>1, <1>2, <1>3, RunStays

\* A step of no run.
LEMMA NoRunMoves ==
  ASSUME WorkInv, UNCHANGED run,
         turn'.attempt = turn.attempt,
         turn.stop # "none" => turn'.stop # "none",
         turn'.stop = "accepted" <=> turn.stop = "accepted",
         Quiet => Quiet',
         Busy => Busy',
         turn'.status = "cancelled" => turn.status = "cancelled" \/ turn.attempt = 0
  PROVE  \A b \in Claims : RunOK(b, run'[b], turn', Quiet', Busy')
<1> SUFFICES ASSUME NEW b \in Claims
             PROVE  RunOK(b, run[b], turn', Quiet', Busy')
  OBVIOUS
<1>1. RunOK(b, run[b], turn, Quiet, Busy)
  BY DEF WorkInv
<1>2. Live(run[b]) => b = turn.attempt /\ Busy /\ turn.attempt # 0
  BY <1>1, BoundsAssumption DEF RunOK, Claims
<1>3. run[b].exec = "start" /\ run[b].sup \notin {"release", "gone"} =>
        Live(run[b]) /\ turn.status # "cancelled" /\ turn.stop # "accepted"
  BY <1>1 DEF RunOK, Live
<1> QED BY <1>1, <1>2, <1>3, RunStays

\* A step outside the runs and the delegates.
LEMMA OutsideKeeps ==
  ASSUME Known, WorkInv, UNCHANGED <<run, active, dispatched>>, Busy => Busy',
         turn'.attempt = turn.attempt,
         turn.stop # "none" => turn'.stop # "none",
         turn'.stop = "accepted" <=> turn.stop = "accepted",
         turn'.status = "cancelled" => turn.status \in {"cancelled", "absent"}
  PROVE  WorkInv'
<1>1. Quiet' <=> Quiet
  BY DEF Quiet
<1>2. turn.status = "absent" => turn.attempt = 0 /\ Quiet
  <2>1. turn.status = "absent" => turn.attempt = 0 /\ turn.started = "unset"
    BY DEF Known, SettledInv, StopInv, AbsentClean, CertainInv
  <2>2. dispatched \subseteq Claims
    BY DEF Known, SettledInv, StopInv, TypeInv, TypeOK
  <2> QED BY <2>1, <2>2 DEF Known, CertainInv, WorkInv, JobsOK, Quiet
<1>3. \A b \in Claims : RunOK(b, run'[b], turn', Quiet', Busy')
  BY <1>1, <1>2, NoRunMoves
<1>4. StopReachesWork'
  <2>1. turn'.status = "cancelled" => Quiet
    BY <1>2 DEF WorkInv, JobsOK, StopReachesWork, Quiet
  <2> QED BY <1>1, <2>1 DEF StopReachesWork, Quiet
<1>5. JobsOK'
  BY <1>1, <1>4 DEF WorkInv, JobsOK
<1> QED BY <1>3, <1>5 DEF WorkInv

\* A kick finds no run(), or leaves it alone.
LEMMA KickLeaves ==
  ASSUME TypeOK, NEW w \in Workers
  PROVE  /\ Kick(w) => (Busy => Busy')
         /\ KickAfter(w) => (Busy => Busy')
         /\ running[w] # "claimed" => ~Busy
BY DEF Kick, KickAfter, Busy, TypeOK

\* The API, the recovery scan, the observers and the clock touch no run.
LEMMA ApiKeepsWork ==
  ASSUME Known, WorkInv, Api
  PROVE  WorkInv'
<1>0. TypeOK /\ turn \in Turn
  BY DEF Known, SettledInv, StopInv, TypeInv, TypeOK
<1>1. ASSUME NEW w \in Workers, StartTurn(w) \/ ResumeApprovalTurn(w) \/ StopWorkers(w)
      PROVE  WorkInv'
  <2>1. UNCHANGED <<run, active, dispatched>> /\ (Busy => Busy')
    BY <1>0, <1>1, KickLeaves DEF StartTurn, ResumeApprovalTurn, StopWorkers, Busy
  <2>2. /\ turn'.attempt = turn.attempt /\ turn'.stop = turn.stop
        /\ turn'.status = "cancelled" => turn.status = "cancelled"
    BY <1>0, <1>1 DEF StartTurn, ResumeApprovalTurn, StopWorkers, Unleased, Turn
  <2> QED BY <2>1, <2>2, OutsideKeeps
<1>2. ASSUME NEW w \in Workers, NEW k \in StopKeys, CancelTurn(w, k)
      PROVE  WorkInv'
  <2>1. UNCHANGED <<run, active, dispatched>> /\ (Busy => Busy')
    BY <1>0, <1>2, KickLeaves DEF CancelTurn
  <2>2. /\ turn'.attempt = turn.attempt /\ (turn.stop # "none" => turn'.stop = turn.stop)
        /\ (turn.stop = "none" => turn'.stop = "requested")
        /\ turn'.status = "cancelled" => turn.status = "cancelled"
    BY <1>0, <1>2 DEF CancelTurn, Turn, Terminal
  <2> QED BY <2>1, <2>2, OutsideKeeps
<1>3. ASSUME NEW k \in StopKeys, CancelTurnBeforeStart(k)
      PROVE  WorkInv'
  <2>1. UNCHANGED <<run, active, dispatched>> /\ (Busy => Busy')
    BY <1>3 DEF CancelTurnBeforeStart, Busy
  <2>2. turn.status = "absent" /\ turn.stop = "none"
    BY <1>3 DEF CancelTurnBeforeStart, Known, SettledInv, StopInv, AbsentClean
  <2>3. turn'.attempt = turn.attempt /\ turn'.stop = "requested"
    BY <1>0, <1>3 DEF CancelTurnBeforeStart, Turn
  <2> QED BY <2>1, <2>2, <2>3, OutsideKeeps
<1>4. ASSUME NEW w \in Workers, NEW o \in Observers, ResumeTurn(w, o)
      PROVE  WorkInv'
  <2>1. UNCHANGED <<run, active, dispatched, turn>> /\ (Busy => Busy')
    BY <1>0, <1>4, KickLeaves DEF ResumeTurn, Busy
  <2> QED BY <2>1, OutsideKeeps
<1> QED BY <1>1, <1>2, <1>3, <1>4 DEF Api

LEMMA QuietStepsKeepWork ==
  ASSUME Known, WorkInv,
         \/ \E w \in Workers : RecoverTurn(w) \/ ClaimRefused(w) \/ ClaimExhausted(w)
         \/ \E a \in Claims : AppendEvents(a) \/ Renew(a)
         \/ \E o \in Observers : Poll(o)
         \/ LeaseExpires \/ Stall
  PROVE  WorkInv'
<1>0. TypeOK /\ turn \in Turn
  BY DEF Known, SettledInv, StopInv, TypeInv, TypeOK
<1>1. ASSUME NEW w \in Workers, RecoverTurn(w) \/ ClaimRefused(w) \/ ClaimExhausted(w)
      PROVE  WorkInv'
  <2>1. UNCHANGED <<run, active, dispatched>> /\ (Busy => Busy')
    BY <1>0, <1>1, KickLeaves DEF RecoverTurn, ClaimRefused, ClaimExhausted
  <2>2. /\ turn'.attempt = turn.attempt /\ turn'.stop = turn.stop
        /\ turn'.status = "cancelled" => turn.status = "cancelled"
    BY <1>0, <1>1 DEF RecoverTurn, ClaimRefused, ClaimExhausted, Unleased, Turn
  <2> QED BY <2>1, <2>2, OutsideKeeps
<1>2. ASSUME \/ \E a \in Claims : AppendEvents(a) \/ Renew(a)
             \/ \E o \in Observers : Poll(o)
             \/ LeaseExpires \/ Stall
      PROVE  WorkInv'
  <2>1. UNCHANGED <<run, active, dispatched>> /\ (Busy => Busy')
    BY <1>2 DEF AppendEvents, Renew, Poll, LeaseExpires, Stall, ExpireLease, Busy
  <2>2. turn'.attempt = turn.attempt /\ turn'.stop = turn.stop /\ turn'.status = turn.status
    BY <1>0, <1>2 DEF AppendEvents, AppendWrite, Renew, Poll, LeaseExpires, Stall, ExpireLease, Turn
  <2> QED BY <2>1, <2>2, OutsideKeeps
<1> QED BY <1>1, <1>2

\* A step of one run that leaves the delegate alone.
LEMMA RunStepKeeps ==
  ASSUME Known, WorkInv, NEW a \in Claims, NEW r, run' = [run EXCEPT ![a] = r],
         UNCHANGED <<active, dispatched>>, RunOK(a, r, turn', Quiet, Busy'),
         turn'.attempt = turn.attempt,
         turn.stop # "none" => turn'.stop # "none",
         turn.stop = "accepted" => turn'.stop = "accepted",
         Busy => Busy' \/ a = turn.attempt,
         turn'.status = "cancelled" => turn.status = "cancelled" \/ (a = turn.attempt /\ Quiet),
         turn'.stop = "accepted" => turn.stop = "accepted" \/ (a = turn.attempt /\ Quiet)
  PROVE  WorkInv'
<1>1. Quiet' <=> Quiet
  BY DEF Quiet
<1>2. run'[a] = r /\ \A b \in Claims : b # a => run'[b] = run[b]
  BY DEF Known, SettledInv, StopInv, TypeInv, TypeOK
<1>3. RunOK(a, run'[a], turn', Quiet', Busy')
  BY <1>1, <1>2, RunStays
<1>4. \A b \in Claims : RunOK(b, run'[b], turn', Quiet', Busy')
  BY <1>1, <1>2, <1>3, OneRunMoves
<1>5. StopReachesWork'
  <2>1. turn'.status = "cancelled" => Quiet
    BY DEF WorkInv, JobsOK, StopReachesWork, Quiet
  <2> QED BY <1>1, <2>1 DEF StopReachesWork, Quiet
<1>6. JobsOK'
  BY <1>1, <1>5 DEF WorkInv, JobsOK
<1> QED BY <1>4, <1>6 DEF WorkInv

\* The same, where the record stays, or is written outside of claim, Stop and status.
LEMMA FiberKeeps ==
  ASSUME Known, WorkInv, NEW a \in Claims, NEW r, run' = [run EXCEPT ![a] = r],
         UNCHANGED <<active, dispatched, running>>, RunOK(a, r, turn, Quiet, Busy),
         turn'.attempt = turn.attempt, turn'.stop = turn.stop, turn'.status = turn.status
  PROVE  WorkInv'
<1>1. Busy' <=> Busy
  BY DEF Busy
<1>2. RunOK(a, r, turn', Quiet, Busy')
  BY <1>1 DEF RunOK
<1> QED BY <1>1, <1>2, RunStepKeeps

\* execute() ends: what is known of the run stays true.
LEMMA EndedRunOK ==
  ASSUME TypeInv, NEW a \in Claims, NEW s \in {"cancelDeliver", "failSettle", "release"},
         ExecEnds(a, s), run[a].exec # "none", NEW t, NEW q, NEW c,
         RunOK(a, run[a], t, q, c), s = "cancelDeliver" => t.stop # "none"
  PROVE  \E r \in Run :
           run' = [run EXCEPT ![a] = r] /\ r.exec = "done" /\ RunOK(a, r, t, q, c)
<1> DEFINE r == [run[a] EXCEPT !.exec = "done", !.result = "none",
                               !.sup = IF run[a].sup = "racing" THEN s ELSE run[a].sup]
<1>1. run[a] \in Run
  BY DEF TypeInv, TypeOK
<1>2. /\ r \in Run /\ r.exec = "done" /\ r.result = "none" /\ r.delivery = run[a].delivery
      /\ r.sup = IF run[a].sup = "racing" THEN s ELSE run[a].sup
  <2>1. (IF run[a].sup = "racing" THEN s ELSE run[a].sup)
           \in {"none", "racing", "cancelDeliver", "cancelSettle", "failSettle", "release", "gone"}
    BY <1>1 DEF Run
  <2>2. r \in Run
    BY <1>1, <2>1, ZenonT(30) DEF Run
  <2>3. /\ r.exec = "done" /\ r.result = "none" /\ r.delivery = run[a].delivery
        /\ r.sup = IF run[a].sup = "racing" THEN s ELSE run[a].sup
    BY <1>1 DEF Run
  <2> QED BY <2>2, <2>3
<1>3. run' = [run EXCEPT ![a] = r]
  BY DEF ExecEnds
<1> HIDE DEF r
<1>4. RunOK(a, r, t, q, c)
  <2>1. Live(r) => Live(run[a])
    BY <1>2 DEF Live
  <2>2. run[a].sup # "none" /\ r.sup # "none"
    BY <1>2 DEF RunOK
  <2>3. /\ r.sup = "cancelSettle" => run[a].sup = "cancelSettle"
        /\ r.sup = "cancelDeliver" => run[a].sup = "cancelDeliver" \/ s = "cancelDeliver"
    BY <1>2
  <2> QED BY <1>2, <2>1, <2>2, <2>3 DEF RunOK
<1> QED BY <1>2, <1>3, <1>4

LEMMA EndsKeepWork ==
  ASSUME Known, WorkInv, NEW a \in Claims, NEW s \in {"cancelDeliver", "failSettle", "release"},
         ExecEnds(a, s), run[a].exec # "none", s = "cancelDeliver" => turn.stop # "none",
         UNCHANGED <<active, dispatched, running>>,
         turn'.attempt = turn.attempt, turn'.stop = turn.stop,
         turn'.status = "cancelled" => turn.status = "cancelled" \/ (a = turn.attempt /\ Quiet)
  PROVE  WorkInv'
<1>1. RunOK(a, run[a], turn, Quiet, Busy)
  BY DEF WorkInv
<1>2. PICK r \in Run :
        run' = [run EXCEPT ![a] = r] /\ r.exec = "done" /\ RunOK(a, r, turn, Quiet, Busy)
  BY <1>1, EndedRunOK DEF Known, SettledInv, StopInv
<1>3. Busy' <=> Busy
  BY DEF Busy
<1>4. RunOK(a, r, turn', Quiet, Busy')
  BY <1>2, <1>3 DEF RunOK
<1> QED BY <1>2, <1>3, <1>4, RunStepKeeps

\* A settlement as cancelled is true: the work was reached, or is over.
LEMMA SettlesQuietly ==
  ASSUME Known, WorkInv, NEW a \in Claims, NEW r \in Results \ {"threw"}, turn' = SettleWrite(a, r),
         r = "cancelled" /\ a = turn.attempt => Quiet
  PROVE  /\ turn'.attempt = turn.attempt /\ turn'.stop = turn.stop
         /\ turn'.status = "cancelled" => turn.status = "cancelled" \/ (a = turn.attempt /\ Quiet)
<1>1. turn \in Turn
  BY DEF Known, SettledInv, StopInv, TypeInv, TypeOK
<1>2. turn'.attempt = turn.attempt /\ turn'.stop = turn.stop
  BY <1>1 DEF SettleWrite, Unleased, Turn
<1>3. \/ turn'.status = turn.status
      \/ RecordOwned(a) /\ turn'.status = Outcome(turn, r)
  BY <1>1 DEF SettleWrite, Unleased, Turn
<1>4. Outcome(turn, r) = "cancelled" => r = "cancelled" \/ turn.stop = "accepted"
  BY DEF Outcome
<1>5. turn.stop = "accepted" => Quiet
  BY DEF WorkInv, JobsOK
<1> QED BY <1>2, <1>3, <1>4, <1>5 DEF RecordOwned

LEMMA ExecutingKeepsWork ==
  ASSUME Known, WorkInv, OneProcess, NEW a \in Claims, Executing(a), ~Dispatch(a)
  PROVE  WorkInv'
<1> DEFINE r == run[a]
<1>1. r \in Run /\ RunOK(a, r, turn, Quiet, Busy) /\ turn \in Turn
  BY DEF Known, SettledInv, StopInv, TypeInv, TypeOK, WorkInv
<1>2. CASE Decode(a)
  <2> DEFINE y == [r EXCEPT !.exec = "ready"]
  <2>1. y.exec = "ready" /\ r.exec = "decode" /\ y.sup = r.sup /\ y.result = r.result
    BY <1>1, <1>2 DEF Decode, Run
  <2>2. y.delivery = r.delivery /\ y.observed = r.observed
    BY <1>1 DEF Run
  <2>3. run' = [run EXCEPT ![a] = y] /\ UNCHANGED <<turn, active, dispatched, running>>
    BY <1>2 DEF Decode
  <2> HIDE DEF y
  <2>4. RunOK(a, y, turn, Quiet, Busy)
    BY <1>1, <2>1, <2>2 DEF RunOK, Live
  <2> QED BY <2>3, <2>4, FiberKeeps
<1>3. CASE DecodeInterrupted(a) \/ ExecFenced(a)
  BY <1>3, EndsKeepWork DEF DecodeInterrupted, ExecFenced
<1>4. CASE Ready(a) /\ turn.stop = "none"
  <2> DEFINE y == [r EXCEPT !.exec = "start"]
  <2>1. y.exec = "start" /\ r.exec = "ready" /\ y.sup = r.sup /\ y.result = r.result
    BY <1>1, <1>4 DEF Ready, Run
  <2>2. y.delivery = r.delivery /\ y.observed = r.observed
    BY <1>1 DEF Run
  <2>3. run' = [run EXCEPT ![a] = y] /\ UNCHANGED <<active, dispatched, running>> /\ turn' = ReadyWrite
    BY <1>4 DEF Ready
  <2>4. turn'.attempt = turn.attempt /\ turn'.stop = turn.stop /\ turn'.status = turn.status
    BY <1>1, <2>3 DEF ReadyWrite, Turn
  <2>5. turn.status # "cancelled"
    BY <1>4 DEF Ready, Owned, Terminal
  <2> HIDE DEF y
  <2>6. RunOK(a, y, turn, Quiet, Busy)
    BY <1>1, <1>4, <2>1, <2>2, <2>5 DEF RunOK, Live
  <2> QED BY <2>3, <2>4, <2>6, FiberKeeps
<1>5. CASE Ready(a) /\ turn.stop # "none"
  <2> DEFINE d == Delivering(r.delivery)
             y == [r EXCEPT !.exec = "join", !.result = "cancelled", !.delivery = d]
  <2>1. r.exec = "ready" /\ r.delivery = "idle" /\ d = "load"
    BY <1>1, <1>5 DEF Ready, RunOK, Delivering
  <2>2. run' = [run EXCEPT ![a] = y] /\ UNCHANGED <<turn, active, dispatched, running>>
    BY <1>5 DEF Ready
  <2> HIDE DEF d
  <2>3. y.exec = "join" /\ y.sup = r.sup /\ y.delivery = "load"
    BY <1>1, <2>1 DEF Run
  <2> HIDE DEF y
  <2>4. RunOK(a, y, turn, Quiet, Busy)
    BY <1>1, <1>5, <2>1, <2>3 DEF RunOK, Live
  <2> QED BY <2>2, <2>4, FiberKeeps
<1>6. CASE SaveHandle(a)
  <2> DEFINE y == [r EXCEPT !.exec = "stream"]
  <2>1. y.exec = "stream" /\ r.exec = "save" /\ y.sup = r.sup /\ y.result = r.result
    BY <1>1, <1>6 DEF SaveHandle, Run
  <2>2. y.delivery = r.delivery
    BY <1>1 DEF Run
  <2>3. run' = [run EXCEPT ![a] = y] /\ UNCHANGED <<active, dispatched, running>> /\ turn' = SaveWrite
    BY <1>6 DEF SaveHandle
  <2>4. turn'.attempt = turn.attempt /\ turn'.stop = turn.stop /\ turn'.status = turn.status
    BY <1>1, <2>3 DEF SaveWrite, Turn
  <2> HIDE DEF y
  <2>5. RunOK(a, y, turn, Quiet, Busy)
    BY <1>1, <2>1, <2>2 DEF RunOK, Live
  <2> QED BY <2>3, <2>4, <2>5, FiberKeeps
<1>7. CASE StreamEnds(a)
  <2>1. CASE ExecEnds(a, "failSettle")
    BY <1>7, <2>1, EndsKeepWork DEF StreamEnds
  <2>2. CASE ~ExecEnds(a, "failSettle")
    <3> DEFINE d == Delivering(r.delivery)
               x == [r EXCEPT !.exec = "join", !.delivery = d]
               y == [r EXCEPT !.exec = "settle"]
    <3>1. r.exec = "stream" /\ UNCHANGED <<turn, active, dispatched, running>>
      BY <1>7 DEF StreamEnds
    <3>2. \/ run' = [run EXCEPT ![a] = x] /\ turn.stop # "none"
          \/ run' = [run EXCEPT ![a] = y]
      BY <1>7, <2>2 DEF StreamEnds
    <3>3. d = r.delivery \/ d = "load"
      BY DEF Delivering
    <3> HIDE DEF d
    <3>4. x.exec = "join" /\ x.delivery = d /\ x.sup = r.sup /\ y.exec = "settle" /\ y.sup = r.sup
      BY <1>1 DEF Run
    <3>5. y.result = r.result /\ y.delivery = r.delivery
      BY <1>1 DEF Run
    <3> HIDE DEF x, y
    <3>6. turn.stop # "none" => RunOK(a, x, turn, Quiet, Busy)
      BY <1>1, <3>1, <3>3, <3>4 DEF RunOK, Live
    <3>7. RunOK(a, y, turn, Quiet, Busy)
      BY <1>1, <3>1, <3>4, <3>5 DEF RunOK, Live
    <3> QED BY <3>1, <3>2, <3>6, <3>7, FiberKeeps
  <2> QED BY <2>1, <2>2
<1>8. CASE Join(a)
  <2>1. CASE ExecEnds(a, "release") \/ ExecEnds(a, "failSettle")
    BY <1>8, <2>1, EndsKeepWork DEF Join
  <2>2. CASE ~(ExecEnds(a, "release") \/ ExecEnds(a, "failSettle"))
    <3> DEFINE y == [r EXCEPT !.exec = "settle"]
    <3>1. /\ r.exec = "join" /\ r.delivery = "delivered" /\ run' = [run EXCEPT ![a] = y]
          /\ UNCHANGED <<turn, active, dispatched, running>>
      BY <1>8, <2>2 DEF Join
    <3>2. y.exec = "settle" /\ y.sup = r.sup /\ y.delivery = r.delivery
      BY <1>1 DEF Run
    <3>3. Quiet
      BY <1>1, <3>1 DEF RunOK, WorkInv, JobsOK
    <3> HIDE DEF y
    <3>4. RunOK(a, y, turn, Quiet, Busy)
      BY <1>1, <3>1, <3>2, <3>3 DEF RunOK, Live
    <3> QED BY <3>1, <3>4, FiberKeeps
  <2> QED BY <2>1, <2>2
<1>9. CASE Settle(a)
  <2>1. r.exec = "settle" /\ r.result \in Results \ {"threw"} /\ turn' = SettleWrite(a, r.result)
    BY <1>9 DEF Settle, Known, SettledInv, StopInv, TypeInv, ResultKnown
  <2>2. r.result = "cancelled" /\ a = turn.attempt => Quiet
    BY <1>1, <2>1 DEF RunOK
  <2>3. ExecEnds(a, "release") /\ UNCHANGED <<active, dispatched, running>>
    BY <1>9 DEF Settle
  <2> HIDE DEF r
  <2>4. /\ turn'.attempt = turn.attempt /\ turn'.stop = turn.stop
        /\ turn'.status = "cancelled" => turn.status = "cancelled" \/ (a = turn.attempt /\ Quiet)
    BY <2>1, <2>2, SettlesQuietly
  <2> QED BY <2>1, <2>3, <2>4, EndsKeepWork DEF r
<1> QED BY <1>2, <1>3, <1>4, <1>5, <1>6, <1>7, <1>8, <1>9 DEF Executing, Ready

\* A step that leaves no execution undisturbed.
LEMMA QuietStepKeeps ==
  ASSUME Known, WorkInv, NEW a \in Claims, NEW r, run' = [run EXCEPT ![a] = r],
         UNCHANGED <<turn, dispatched, running>>, RunOK(a, r, turn, TRUE, Busy), Quiet',
         \A w \in Workers : active'[w] # NoJob => active'[w].claim \in dispatched
  PROVE  WorkInv'
<1>1. Busy' <=> Busy
  BY DEF Busy
<1>2. run'[a] = r /\ \A b \in Claims : b # a => run'[b] = run[b]
  BY DEF Known, SettledInv, StopInv, TypeInv, TypeOK
<1>3. RunOK(a, run'[a], turn', Quiet', Busy')
  BY <1>1, <1>2 DEF RunOK
<1>4. \A b \in Claims : RunOK(b, run'[b], turn', Quiet', Busy')
  BY <1>1, <1>2, <1>3, OneRunMoves
<1>5. JobsOK'
  BY DEF JobsOK, StopReachesWork, Quiet
<1> QED BY <1>4, <1>5 DEF WorkInv

\* A delivery is of a run whose process is the one there is, and the delegate's
\* cancelTurn() leaves nothing undisturbed in it.
LEMMA AbortQuiets ==
  ASSUME Known, WorkInv, OneProcess, NEW a \in Claims, run[a].delivery # "idle",
         active' = Abort(run[a].owner)
  PROVE  /\ Quiet'
         /\ \A w \in Workers : active'[w] # NoJob => active'[w].claim \in dispatched
<1> DEFINE o == run[a].owner
<1>1. RunOK(a, run[a], turn, Quiet, Busy) /\ active \in [Workers -> Job]
  BY DEF WorkInv, Known, SettledInv, StopInv, TypeInv, TypeOK
<1>2. o \in Workers
  BY <1>1 DEF RunOK, Known, SettledInv, RunsOwned
<1>3. active[o] # NoJob => active[o].claim \in dispatched
  BY <1>2 DEF WorkInv, JobsOK
<1> HIDE DEF o
<1>4. CASE active[o] = NoJob
  BY <1>2, <1>4 DEF OneProcess, Quiet, Abort, o
<1>5. CASE active[o] # NoJob
  <2> DEFINE j == [active[o] EXCEPT !.aborted = TRUE]
  <2>1. active' = [active EXCEPT ![o] = j]
    BY <1>5 DEF Abort, o
  <2>2. j.aborted /\ j.claim = active[o].claim
    BY <1>1, <1>2 DEF Job
  <2> HIDE DEF j
  <2>3. active'[o] = j
    BY <1>1, <1>2, <2>1
  <2> QED BY <1>2, <1>3, <1>5, <2>2, <2>3 DEF OneProcess, Quiet
<1> QED BY <1>4, <1>5

\* What a delivery is about to record may be recorded.
LEMMA AcceptKeeps ==
  ASSUME Known, WorkInv, NEW a \in Claims, run[a].delivery = "accept", Owned(a),
         NEW d \in {"delivered", "refused"}, run' = [run EXCEPT ![a].delivery = d],
         turn' = AcceptWrite, UNCHANGED <<active, dispatched, running>>
  PROVE  WorkInv'
<1> DEFINE r == run[a]
           y == [r EXCEPT !.delivery = d]
<1>1. r \in Run /\ RunOK(a, r, turn, Quiet, Busy) /\ turn \in Turn
  BY DEF Known, SettledInv, StopInv, TypeInv, TypeOK, WorkInv
<1>2. a = turn.attempt /\ Quiet
  BY <1>1 DEF Owned, RecordOwned, RunOK
<1>3. turn'.attempt = turn.attempt /\ turn'.stop = "accepted" /\ turn'.status = turn.status
  BY <1>1 DEF AcceptWrite, Turn
<1>4. run' = [run EXCEPT ![a] = y]
  OBVIOUS
<1>5. y.delivery = d /\ y.exec = r.exec /\ y.sup = r.sup /\ y.result = r.result
  BY <1>1 DEF Run
<1> HIDE DEF y
<1>6. Busy' <=> Busy
  BY DEF Busy
<1>7. RunOK(a, y, turn', Quiet, Busy')
  BY <1>1, <1>2, <1>3, <1>5, <1>6 DEF RunOK, Live
<1> QED BY <1>2, <1>3, <1>4, <1>6, <1>7, RunStepKeeps

\* The delivery moves on and changes nothing else.
LEMMA DeliveryMoves ==
  ASSUME Known, WorkInv, NEW a \in Claims, run[a].exec \notin {"none", "decode", "ready", "start"},
         NEW d \in {"load", "call", "accept", "delivered", "refused", "lost"},
         run' = [run EXCEPT ![a].delivery = d], UNCHANGED <<turn, active, dispatched, running>>,
         turn.stop # "none", d = "delivered" => turn.stop = "accepted",
         d = "accept" => Quiet
  PROVE  WorkInv'
<1> DEFINE r == run[a]
           y == [r EXCEPT !.delivery = d]
<1>1. r \in Run /\ RunOK(a, r, turn, Quiet, Busy)
  BY DEF Known, SettledInv, StopInv, TypeInv, TypeOK, WorkInv
<1>2. run' = [run EXCEPT ![a] = y]
  OBVIOUS
<1>3. y.delivery = d /\ y.exec = r.exec /\ y.sup = r.sup /\ y.result = r.result
  BY <1>1 DEF Run
<1> HIDE DEF y
<1>4. RunOK(a, y, turn, Quiet, Busy)
  BY <1>1, <1>3 DEF RunOK, Live
<1> QED BY <1>2, <1>4, FiberKeeps

\* A delivery under way.
LEMMA UnderWay ==
  ASSUME WorkInv, NEW a \in Claims, run[a].delivery # "idle"
  PROVE  run[a].exec \notin {"none", "decode", "ready", "start"} /\ turn.stop # "none"
<1>1. RunOK(a, run[a], turn, Quiet, Busy)
  BY DEF WorkInv
<1> QED BY <1>1 DEF RunOK

\* A record that was never made ready proves that nothing runs.
LEMMA UnstartedIsQuiet ==
  ASSUME Known, WorkInv, turn.started = "no"
  PROVE  Quiet
<1>1. dispatched \subseteq Claims
  BY DEF Known, SettledInv, StopInv, TypeInv, TypeOK
<1> QED BY <1>1 DEF Known, CertainInv, WorkInv, JobsOK, Quiet

LEMMA DeliveryKeepsWork ==
  ASSUME Known, WorkInv, OneProcess, NEW a \in Claims, Delivery(a) \/ DeliveryFails(a)
  PROVE  WorkInv'
<1> DEFINE r == run[a]
<1>1. r \in Run /\ RunOK(a, r, turn, Quiet, Busy) /\ turn \in Turn
  BY DEF Known, SettledInv, StopInv, TypeInv, TypeOK, WorkInv
<1>2. r.delivery # "idle"
  BY DEF Delivery, DeliverLoad, DeliverCall, DeliverAccept, DeliveryFails
<1>3. r.exec \notin {"none", "decode", "ready", "start"} /\ turn.stop # "none"
  BY <1>2, UnderWay
<1>4. CASE DeliverLoad(a)
  <2>1. PICK d \in {"lost", "delivered", "call", "accept", "refused"} :
          /\ run' = [run EXCEPT ![a].delivery = d]
          /\ d = "delivered" => turn.stop # "requested"
          /\ d = "accept" => turn.started = "no"
    BY <1>4 DEF DeliverLoad
  <2>2. turn.stop \in {"requested", "accepted"}
    BY <1>1, <1>3 DEF Turn
  <2>3. UNCHANGED <<turn, active, dispatched, running>>
    BY <1>4 DEF DeliverLoad
  <2> QED BY <1>3, <2>1, <2>2, <2>3, UnstartedIsQuiet, DeliveryMoves
<1>5. ASSUME NEW d \in {"accept", "refused"}, run' = [run EXCEPT ![a].delivery = d],
             active' = Abort(r.owner), UNCHANGED <<turn, dispatched, running>>
      PROVE  WorkInv'
  <2> DEFINE y == [r EXCEPT !.delivery = d]
  <2>1. y.delivery = d /\ y.exec = r.exec /\ y.sup = r.sup /\ y.result = r.result
    BY <1>1 DEF Run
  <2>2. run' = [run EXCEPT ![a] = y]
    BY <1>5
  <2> HIDE DEF y
  <2>3. RunOK(a, y, turn, TRUE, Busy)
    BY <1>1, <1>3, <2>1 DEF RunOK, Live
  <2>4. Quiet' /\ \A w \in Workers : active'[w] # NoJob => active'[w].claim \in dispatched
    BY <1>2, <1>5, AbortQuiets
  <2> QED BY <1>5, <2>2, <2>3, <2>4, QuietStepKeeps
<1>6. CASE DeliverCall(a)
  BY <1>5, <1>6 DEF DeliverCall
<1>7. CASE DeliverAccept(a)
  <2>1. CASE Owned(a)
    BY <1>7, <2>1, AcceptKeeps DEF DeliverAccept
  <2>2. CASE ~Owned(a)
    BY <1>3, <1>7, <2>2, DeliveryMoves DEF DeliverAccept
  <2> QED BY <2>1, <2>2
<1>8. CASE DeliveryFails(a)
  <2>1. \/ /\ run' = [run EXCEPT ![a].delivery = "lost"] /\ UNCHANGED <<turn, active>>
        \/ /\ run' = [run EXCEPT ![a].delivery = "refused"]
           /\ \/ UNCHANGED <<turn, active>>
              \/ active' = Abort(r.owner) /\ UNCHANGED turn
              \/ r.delivery = "accept" /\ Owned(a) /\ turn' = AcceptWrite /\ UNCHANGED active
    BY <1>8 DEF DeliveryFails
  <2>2. UNCHANGED <<dispatched, running>>
    BY <1>8 DEF DeliveryFails
  <2>3. ASSUME NEW d \in {"lost", "refused"}, run' = [run EXCEPT ![a].delivery = d],
               UNCHANGED <<turn, active>>
        PROVE  WorkInv'
    BY <1>3, <2>2, <2>3, DeliveryMoves
  <2> QED BY <1>5, <2>1, <2>2, <2>3, AcceptKeeps
<1> QED BY <1>4, <1>6, <1>7, <1>8 DEF Delivery

\* run() moves on, and settles or not.
LEMMA SupervisorMoves ==
  ASSUME Known, WorkInv, NEW a \in Claims, Live(run[a]), run[a].sup # "release",
         NEW s \in {"cancelSettle", "failSettle", "release"}, run' = [run EXCEPT ![a].sup = s],
         s = "cancelSettle" => turn.stop = "accepted" /\ run[a].sup = "cancelDeliver",
         UNCHANGED <<active, dispatched, running>>, s = "release" \/ UNCHANGED turn,
         turn'.attempt = turn.attempt, turn'.stop = turn.stop,
         turn'.status = "cancelled" => turn.status = "cancelled" \/ Quiet
  PROVE  WorkInv'
<1> DEFINE r == run[a]
           y == [r EXCEPT !.sup = s]
<1>1. r \in Run /\ RunOK(a, r, turn, Quiet, Busy)
  BY DEF Known, SettledInv, StopInv, TypeInv, TypeOK, WorkInv
<1>2. run' = [run EXCEPT ![a] = y]
  OBVIOUS
<1>3. y.sup = s /\ y.exec = r.exec /\ y.delivery = r.delivery /\ y.result = r.result
  BY <1>1 DEF Run
<1>4. y.observed = r.observed
  BY <1>1 DEF Run
<1> HIDE DEF y
<1>5. Busy' <=> Busy
  BY DEF Busy
<1>6. a = turn.attempt /\ r.sup \notin {"release", "gone", "none"}
  BY <1>1 DEF RunOK, Live
<1>7. RunOK(a, y, turn, Quiet, Busy)
  BY <1>1, <1>3, <1>4, <1>6 DEF RunOK, Live
<1>8. RunOK(a, y, turn', Quiet, Busy')
  BY <1>3, <1>5, <1>7 DEF RunOK
<1> QED BY <1>2, <1>5, <1>6, <1>8, RunStepKeeps

\* finally has run: the claim's run() is gone.
LEMMA GoneKeeps ==
  ASSUME Known, WorkInv, NEW a \in Claims, run[a].sup = "release",
         run' = [run EXCEPT ![a].sup = "gone", ![a].observed = FALSE],
         UNCHANGED <<active, dispatched>>, turn'.attempt = turn.attempt, turn'.stop = turn.stop,
         turn'.status = "cancelled" => turn.status = "cancelled"
  PROVE  WorkInv'
<1> DEFINE r == run[a]
           y == [r EXCEPT !.sup = "gone", !.observed = FALSE]
<1>1. r \in Run /\ RunOK(a, r, turn, Quiet, Busy) /\ run \in [Claims -> Run]
  BY DEF Known, SettledInv, StopInv, TypeInv, TypeOK, WorkInv
<1>2. run' = [run EXCEPT ![a] = y]
  BY <1>1 DEF Run
<1>3. y.sup = "gone" /\ y.exec = r.exec /\ y.delivery = r.delivery /\ y.result = r.result
  BY <1>1 DEF Run
<1>4. y.observed = FALSE
  BY <1>1 DEF Run
<1> HIDE DEF y
<1>5. a = turn.attempt
  BY <1>1 DEF RunOK, Live
<1>6. RunOK(a, y, turn', Quiet, Busy')
  BY <1>1, <1>3, <1>4 DEF RunOK, Live
<1> QED BY <1>2, <1>5, <1>6, RunStepKeeps

LEMMA SupervisingKeepsWork ==
  ASSUME Known, WorkInv, NEW a \in Claims, Supervising(a) \/ MonitorFails(a) \/ CleanupFails(a)
  PROVE  WorkInv'
<1> DEFINE r == run[a]
<1>1. r \in Run /\ RunOK(a, r, turn, Quiet, Busy) /\ turn \in Turn
  BY DEF Known, SettledInv, StopInv, TypeInv, TypeOK, WorkInv
<1>2. CASE MonitorFenced(a) \/ MonitorFails(a)
  BY <1>2, SupervisorMoves DEF MonitorFenced, MonitorFails, Live
<1>3. CASE MonitorDelivers(a)
  <2>1. r.exec \notin {"none", "decode", "ready", "start"}
    BY <1>1, <1>3 DEF MonitorDelivers, RunOK
  <2> QED BY <1>3, <2>1, DeliveryMoves DEF MonitorDelivers
<1>4. CASE DeliveryInterrupts(a)
  <2>1. PICK s \in {"release", "failSettle"} : run' = [run EXCEPT ![a].sup = s]
    BY <1>4 DEF DeliveryInterrupts
  <2> QED BY <1>4, <2>1, SupervisorMoves DEF DeliveryInterrupts, Live
<1>5. CASE CatchDeliver(a)
  <2>1. r.sup = "cancelDeliver" /\ UNCHANGED <<turn, active, dispatched, running>>
    BY <1>5 DEF CatchDeliver
  <2>2. r.exec \notin {"none", "decode", "ready", "start"} /\ turn.stop # "none"
    BY <1>1, <2>1 DEF RunOK
  <2>3. CASE run' = [run EXCEPT ![a].delivery = "load"]
    BY <2>1, <2>2, <2>3, DeliveryMoves
  <2>4. CASE r.delivery = "delivered" /\ run' = [run EXCEPT ![a].sup = "cancelSettle"]
    <3>1. turn.stop = "accepted"
      BY <1>1, <2>4 DEF RunOK
    <3> QED BY <2>1, <2>4, <3>1, SupervisorMoves DEF Live
  <2>5. CASE run' = [run EXCEPT ![a].sup = "release"]
    BY <2>1, <2>5, SupervisorMoves DEF Live
  <2> QED BY <1>5, <2>3, <2>4, <2>5 DEF CatchDeliver
<1>6. CASE CatchSettle(a)
  <2> DEFINE v == CatchResult(a)
  <2>1. v \in Results \ {"threw"} /\ turn' = SettleWrite(a, v)
    BY <1>6 DEF CatchSettle, CatchResult, Results
  <2>2. v = "cancelled" => Quiet
    BY <1>1 DEF CatchResult, RunOK, WorkInv, JobsOK
  <2> HIDE DEF v
  <2>3. /\ turn'.attempt = turn.attempt /\ turn'.stop = turn.stop
        /\ turn'.status = "cancelled" => turn.status = "cancelled" \/ Quiet
    BY <2>1, <2>2, SettlesQuietly
  <2>4. Live(r) /\ r.sup # "release"
    BY <1>6 DEF CatchSettle, Live
  <2>5. run' = [run EXCEPT ![a].sup = "release"] /\ UNCHANGED <<active, dispatched, running>>
    BY <1>6 DEF CatchSettle
  <2> QED BY <2>3, <2>4, <2>5, SupervisorMoves
<1>7. CASE Release(a)
  <2>1. /\ turn'.attempt = turn.attempt /\ turn'.stop = turn.stop
        /\ turn'.status = "cancelled" => turn.status = "cancelled"
    BY <1>1, <1>7 DEF Release, ReleaseWrite, Unleased, Turn
  <2> QED BY <1>7, <2>1, GoneKeeps DEF Release
<1>8. CASE CleanupFails(a)
  <2>1. CASE r.sup \in {"cancelSettle", "failSettle"}
    BY <1>8, <2>1, SupervisorMoves DEF CleanupFails, Live
  <2>2. CASE r.sup = "release"
    BY <1>8, <2>2, GoneKeeps DEF CleanupFails
  <2> QED BY <1>8, <2>1, <2>2 DEF CleanupFails
<1> QED BY <1>2, <1>3, <1>4, <1>5, <1>6, <1>7, <1>8 DEF Supervising

\* A step of execute() throws.
LEMMA ExecFailsKeepsWork ==
  ASSUME Known, WorkInv, NEW a \in Claims, ExecFails(a) \/ ReadyDenied(a)
  PROVE  WorkInv'
<1> DEFINE r == run[a]
<1>1. r \in Run /\ RunOK(a, r, turn, Quiet, Busy) /\ turn \in Turn
  BY DEF Known, SettledInv, StopInv, TypeInv, TypeOK, WorkInv
<1>2. CASE ReadyDenied(a)
  BY <1>2, EndsKeepWork DEF ReadyDenied
<1>3. CASE ExecFails(a)
  <2>1. ExecEnds(a, "failSettle") /\ r.exec # "none" /\ UNCHANGED <<active, dispatched, running>>
    BY <1>3 DEF ExecFails
  <2>2. CASE turn' = turn \/ turn' = ReadyWrite \/ turn' = SaveWrite \/ turn' = AppendWrite(a)
    <3>1. turn'.attempt = turn.attempt /\ turn'.stop = turn.stop /\ turn'.status = turn.status
      BY <1>1, <2>2 DEF ReadyWrite, SaveWrite, AppendWrite, Turn
    <3> QED BY <2>1, <3>1, EndsKeepWork
  <2>3. CASE r.exec = "settle" /\ turn' = SettleWrite(a, r.result)
    <3> DEFINE v == r.result
    <3>1. v \in Results \ {"threw"} /\ turn' = SettleWrite(a, v)
      BY <2>3 DEF Known, SettledInv, StopInv, TypeInv, ResultKnown
    <3>2. v = "cancelled" /\ a = turn.attempt => Quiet
      BY <1>1, <2>3 DEF RunOK
    <3> HIDE DEF v
    <3>3. /\ turn'.attempt = turn.attempt /\ turn'.stop = turn.stop
          /\ turn'.status = "cancelled" => turn.status = "cancelled" \/ (a = turn.attempt /\ Quiet)
      BY <3>1, <3>2, SettlesQuietly
    <3> QED BY <2>1, <3>3, EndsKeepWork
  <2> QED BY <1>3, <2>2, <2>3 DEF ExecFails, ExecWrites
<1> QED BY <1>2, <1>3

\* delegate.startTurn: the run that reaches it is the only one, and nothing was
\* accepted or cancelled that it could contradict.
LEMMA DispatchKeepsWork ==
  ASSUME Known, WorkInv, NEW a \in Claims, Dispatch(a)
  PROVE  WorkInv'
<1> DEFINE r == run[a]
           o == r.owner
           j == [claim |-> a, aborted |-> FALSE]
           x == [r EXCEPT !.exec = "save", !.observed = TRUE]
           y == [r EXCEPT !.exec = "settle", !.result = "failed"]
<1>1. /\ r \in Run /\ RunOK(a, r, turn, Quiet, Busy)
      /\ run \in [Claims -> Run] /\ active \in [Workers -> Job]
  BY DEF Known, SettledInv, StopInv, TypeInv, TypeOK, WorkInv
<1>2. /\ r.exec = "start" /\ r.sup \notin {"release", "gone"} /\ UNCHANGED <<turn, running>>
      /\ dispatched' = dispatched \cup {a}
  BY DEF Dispatch, Stopped
<1>3. r.sup # "none" /\ r.delivery = "idle" /\ r.result = "none" /\ turn.status # "cancelled"
        /\ turn.stop # "accepted"
  BY <1>1, <1>2 DEF RunOK
<1>4. r.sup \notin {"cancelDeliver", "cancelSettle"} /\ Live(r) /\ a = turn.attempt /\ Busy
  BY <1>1, <1>2, <1>3 DEF RunOK, Live
<1>5. o \in Workers
  BY <1>3 DEF Known, SettledInv, RunsOwned
<1>6. Busy' <=> Busy
  BY <1>2 DEF Busy
<1>7. \/ run' = [run EXCEPT ![a] = x] /\ active' = [active EXCEPT ![o] = j]
      \/ run' = [run EXCEPT ![a] = y] /\ UNCHANGED active
  BY <1>1 DEF Dispatch, Run
<1>8. /\ x.exec = "save" /\ x.sup = r.sup /\ x.delivery = r.delivery /\ x.result = r.result
      /\ y.exec = "settle" /\ y.sup = r.sup /\ y.delivery = r.delivery /\ y.result = "failed"
  BY <1>1 DEF Run
<1>9. j.claim = a
  OBVIOUS
<1> HIDE DEF x, y, o, j
<1>10. \A w \in Workers : active'[w] = active[w] \/ active'[w] = j
  BY <1>1, <1>5, <1>7
<1>11. run'[a] \in {x, y} /\ \A b \in Claims : b # a => run'[b] = run[b]
  BY <1>1, <1>7
<1>12. RunOK(a, run'[a], turn', Quiet', Busy')
  BY <1>2, <1>3, <1>4, <1>6, <1>8, <1>11 DEF RunOK, Live
<1>13. ASSUME NEW b \in Claims, b # a
       PROVE  RunOK(b, run'[b], turn', Quiet', Busy')
  <2>1. RunOK(b, run[b], turn, Quiet, Busy)
    BY DEF WorkInv
  <2>2. b # turn.attempt
    BY <1>4, <1>13
  <2> QED BY <1>2, <1>6, <1>11, <1>13, <2>1, <2>2 DEF RunOK
<1>14. JobsOK'
  BY <1>2, <1>3, <1>9, <1>10 DEF WorkInv, JobsOK, StopReachesWork
<1> QED BY <1>12, <1>13, <1>14 DEF WorkInv

\* The application's execute() settles.
LEMMA JobEndsKeepsWork ==
  ASSUME Known, WorkInv, OneProcess, NEW w \in Workers, NEW v \in Results, JobEnds(w, v)
  PROVE  WorkInv'
<1> DEFINE a == active[w].claim
           r == run[a]
           n == IF r.exec \in {"save", "stream"} THEN v ELSE r.result
           y == [r EXCEPT !.result = n]
<1>1. a \in Claims
  BY DEF JobEnds, WorkInv, JobsOK, Known, SettledInv, StopInv, TypeInv, TypeOK
<1>2. /\ r \in Run /\ RunOK(a, r, turn, Quiet, Busy) /\ active \in [Workers -> Job]
  BY <1>1 DEF Known, SettledInv, StopInv, TypeInv, TypeOK, WorkInv
<1>3. run' = [run EXCEPT ![a] = y] /\ UNCHANGED <<turn, dispatched, running>>
  BY DEF JobEnds
<1>4. active' = [active EXCEPT ![w] = NoJob]
  BY DEF JobEnds
<1>5. y.exec = r.exec /\ y.sup = r.sup /\ y.delivery = r.delivery /\ y.result = n
  BY <1>2 DEF Run
<1>6. y.observed = r.observed
  BY <1>2 DEF Run
<1> HIDE DEF y
<1>7. r.exec \in {"none", "decode", "ready", "start"} => n = r.result
  OBVIOUS
<1> HIDE DEF n
<1>8. RunOK(a, y, turn, TRUE, Busy)
  BY <1>2, <1>5, <1>6, <1>7 DEF RunOK, Live
<1>9. \A u \in Workers : active'[u] = NoJob
  BY <1>2, <1>4 DEF OneProcess
<1>10. Quiet' /\ \A u \in Workers : active'[u] # NoJob => active'[u].claim \in dispatched
  BY <1>9 DEF Quiet
<1> HIDE DEF a
<1> QED BY <1>1, <1>3, <1>8, <1>10, QuietStepKeeps

\* The process dies: nothing of it goes on.
LEMMA CrashKeepsWork ==
  ASSUME Known, WorkInv, OneProcess, NEW w \in Workers, Crash(w)
  PROVE  WorkInv'
<1>1. /\ run \in [Claims -> Run] /\ active \in [Workers -> Job] /\ UNCHANGED <<turn, dispatched>>
      /\ run' = [a \in Claims |-> IF run[a].owner = w THEN DeadRun(w) ELSE run[a]]
      /\ active' = [active EXCEPT ![w] = NoJob]
  BY DEF Crash, Known, SettledInv, StopInv, TypeInv, TypeOK
<1>2. \A u \in Workers : active'[u] = NoJob
  BY <1>1 DEF OneProcess
<1>3. Quiet' /\ JobsOK'
  BY <1>2 DEF Quiet, JobsOK, StopReachesWork
<1>4. ASSUME NEW b \in Claims
      PROVE  RunOK(b, run'[b], turn', Quiet', Busy')
  <2>1. RunOK(b, run[b], turn, Quiet, Busy)
    BY DEF WorkInv
  <2>2. CASE run[b].owner = w
    <3>1. /\ run'[b].exec = "done" /\ run'[b].sup = "gone" /\ run'[b].delivery = "idle"
          /\ run'[b].result = "none"
      BY <1>1, <2>2 DEF DeadRun
    <3> QED BY <3>1 DEF RunOK, Live
  <2>3. CASE run[b].owner # w
    <3>1. run'[b] = run[b] /\ run[b].sup = "none"
      BY <1>1, <2>3 DEF Known, SettledInv, RunsOwned, OneProcess
    <3> QED BY <1>1, <1>3, <2>1, <3>1 DEF RunOK, Live
  <2> QED BY <2>2, <2>3
<1> QED BY <1>3, <1>4 DEF WorkInv

\* A claim begins where no run() is.
LEMMA ClaimKeepsWork ==
  ASSUME Known, WorkInv, OneProcess, NEW w \in Workers, Claim(w) \/ ClaimFails(w)
  PROVE  WorkInv'
<1> DEFINE n == turn.attempt + 1
<1>1. /\ run \in [Claims -> Run] /\ turn \in Turn /\ turn.attempt \in Nat /\ ~Busy
      /\ UNCHANGED <<active, dispatched>> /\ running \in [Workers -> {"idle", "claiming", "claimed"}]
  BY BoundsAssumption DEF Claim, ClaimFails, Busy, Known, SettledInv, StopInv, TypeInv, TypeOK, Turn
<1>2. Quiet' <=> Quiet
  BY <1>1 DEF Quiet
<1>3. \A b \in Claims : RunOK(b, run[b], turn, Quiet, Busy) /\ ~Live(run[b])
  BY <1>1 DEF WorkInv, RunOK
<1>4. CASE UNCHANGED <<turn, run>>
  BY <1>1, <1>4, OutsideKeeps
<1>5. ASSUME NEW r, run' = [run EXCEPT ![n] = r], n \in Claims, turn' = ClaimWrite(w),
             RunOK(n, r, turn', Quiet, Busy')
      PROVE  WorkInv'
  <2>1. turn'.attempt = n /\ turn'.stop = turn.stop /\ turn'.status = "running"
    BY <1>1, <1>5 DEF ClaimWrite, Turn
  <2>2. run'[n] = r /\ \A b \in Claims : b # n => run'[b] = run[b]
    BY <1>1, <1>5
  <2>3. ASSUME NEW b \in Claims
        PROVE  RunOK(b, run'[b], turn', Quiet', Busy')
    <3>1. CASE b = n
      BY <1>2, <1>5, <2>2, <3>1 DEF RunOK
    <3>2. CASE b # n
      BY <1>2, <1>3, <2>1, <2>2, <3>2 DEF RunOK, Live
    <3> QED BY <3>1, <3>2
  <2>4. JobsOK'
    BY <1>1, <1>2, <2>1 DEF WorkInv, JobsOK, StopReachesWork
  <2> QED BY <2>3, <2>4 DEF WorkInv
<1>6. CASE Claim(w)
  <2>1. /\ turn.attempt < MaxClaims /\ turn' = ClaimWrite(w)
        /\ running' = [running EXCEPT ![w] = "claimed"]
    BY <1>6 DEF Claim
  <2>2. n \in Claims /\ Busy'
    BY <1>1, <2>1, BoundsAssumption DEF Claims, Busy, OneProcess
  <2>3. turn'.attempt = n /\ turn'.stop = turn.stop
    BY <1>1, <2>1 DEF ClaimWrite, Turn
  <2> DEFINE x == [owner |-> w, observed |-> FALSE, exec |-> "decode", result |-> "none",
                   sup |-> "racing", delivery |-> "idle"]
             y == [owner |-> w, observed |-> FALSE, exec |-> "join", result |-> "cancelled",
                   sup |-> "racing", delivery |-> "load"]
  <2>4. RunOK(n, x, turn', Quiet, Busy')
    BY <2>2, <2>3 DEF RunOK, Live
  <2>5. turn.stop # "none" => RunOK(n, y, turn', Quiet, Busy')
    BY <2>2, <2>3 DEF RunOK, Live
  <2>6. run' = [run EXCEPT ![n] = IF turn.stop = "none" THEN x ELSE y]
    BY <1>6 DEF Claim
  <2> HIDE DEF x, y, n
  <2> QED BY <1>5, <2>1, <2>2, <2>4, <2>5, <2>6
<1>7. CASE ClaimFails(w) /\ ~UNCHANGED <<turn, run>>
  <2>1. turn.attempt < MaxClaims /\ turn' = ClaimWrite(w) /\ run' = [run EXCEPT ![n] = DeadRun(w)]
    BY <1>7 DEF ClaimFails
  <2>2. n \in Claims
    BY <1>1, <2>1, BoundsAssumption DEF Claims
  <2>3. RunOK(n, DeadRun(w), turn', Quiet, Busy')
    BY DEF RunOK, Live, DeadRun
  <2> HIDE DEF n
  <2> QED BY <1>5, <2>1, <2>2, <2>3
<1> QED BY <1>4, <1>6, <1>7

\* Every step of the one process keeps the invariant.
LEMMA StepKeepsWork ==
  ASSUME Known, WorkInv, OneProcess, [Next]_vars
  PROVE  WorkInv'
<1>1. CASE UNCHANGED vars
  BY <1>1, OutsideKeeps DEF vars, Busy
<1>2. CASE Works
  <2>1. ASSUME NEW w \in Workers, Claiming(w) \/ RecoverTurn(w)
        PROVE  WorkInv'
    BY <2>1, QuietStepsKeepWork, ClaimKeepsWork DEF Claiming
  <2>2. ASSUME NEW a \in Claims, Executing(a) \/ AppendEvents(a) \/ Delivery(a) \/ Renew(a) \/ Supervising(a)
        PROVE  WorkInv'
    BY <2>2, ExecutingKeepsWork, DispatchKeepsWork, QuietStepsKeepWork, DeliveryKeepsWork,
       SupervisingKeepsWork
  <2> QED BY <1>2, <2>1, <2>2, JobEndsKeepsWork, QuietStepsKeepWork DEF Works
<1>3. CASE Faults
  BY <1>3, QuietStepsKeepWork, CrashKeepsWork, ClaimKeepsWork, ExecFailsKeepsWork, SupervisingKeepsWork,
     DeliveryKeepsWork DEF Faults
<1> QED BY <1>1, <1>2, <1>3, ApiKeepsWork DEF Next

\* In one process a Stop that ends in "cancelled" has reached the work (the chained
\* kick of cancelTurn, deliverCancellation(), and the delegate's cancelTurn): whatever
\* fails, dies, is claimed again or is left behind as a zombie, no execution goes on
\* undisturbed once the turn is cancelled.
THEOREM StopReachesOneProcess ==
  ASSUME OneProcess
  PROVE  Spec => []StopReachesWork
<1>1. Init => Known /\ WorkInv
  <2> SUFFICES ASSUME Init
               PROVE  Known /\ WorkInv
    OBVIOUS
  <2>1. Known
    BY InitStopInv DEF Init, Known, SettledInv, RestUnleased, RunsOwned, CertainInv, Certain, AbsentTurn,
       UnusedRun
  <2>2. JobsOK
    BY DEF Init, JobsOK, StopReachesWork, AbsentTurn
  <2>3. \A a \in Claims : RunOK(a, run[a], turn, Quiet, Busy)
    BY DEF Init, RunOK, Live, UnusedRun
  <2> QED BY <2>1, <2>2, <2>3 DEF WorkInv
<1>2. Known /\ WorkInv /\ [Next]_vars => Known' /\ WorkInv'
  <2> SUFFICES ASSUME Known, WorkInv, [Next]_vars
               PROVE  Known' /\ WorkInv'
    OBVIOUS
  <2>1. SettledInv /\ StopInv /\ TypeInv /\ CertainInv
    BY DEF Known, SettledInv, StopInv
  <2>2. TurnStep
    BY <2>1, StepWrites
  <2>3. SettledInv'
    BY <2>1, <2>2, StepKeepsStopInv, StepKeepsRest, StepKeepsOwners DEF SettledInv
  <2>4. CertainInv'
    BY <2>1, StepKeepsCertain
  <2> QED BY <2>3, <2>4, StepKeepsWork DEF Known
<1>3. WorkInv => StopReachesWork
  BY DEF WorkInv, JobsOK
<1> QED BY <1>1, <1>2, <1>3, PTL DEF Spec

=============================================================================
