------------------------- MODULE ApprovalExecution --------------------------
(***************************************************************************)
(* The execution of one approved tool call: the decision coordinator       *)
(* (src/src/conversation/approval-coordinator.ts), the execution           *)
(* coordinator (src/src/tools/approval-execution.ts), the bounded executor *)
(* (src/src/tools/executor.ts), and the three stores they share: approval  *)
(* proposals, the conversation's event log and the execution ledger        *)
(* (src/src/postgres/index.ts).  Each store operation is one transaction;  *)
(* nothing spans two of them, and any number of requests for the same call *)
(* may be under way in any number of processes.                            *)
(***************************************************************************)
EXTENDS Naturals, Sequences

CONSTANTS
  Confirmers,    \* decision requests that confirm
  Rejecters,     \* decision requests that reject
  Callers,       \* requests to execute the call
  Executions,    \* executionIds the host has given out
  ExecutionOf,   \* the executionId of each request
  KeepsKeyOrder, \* the event store returns JSON objects with their keys in order
  MaxFaults      \* bound: crashes, failures of a store, cancellations

Reviewers == Confirmers \cup Rejecters

ASSUME RequestsAssumption ==
  /\ ExecutionOf \in [Callers -> Executions]
  /\ Reviewers \cap Executions = {}
ASSUME FaultsAssumption == MaxFaults \in Nat /\ KeepsKeyOrder \in BOOLEAN

VARIABLES
  proposal,  \* the stored proposal
  receipts,  \* the proposal store's idempotency records
  log,       \* the status events of the proposal in the conversation's log
  ledger,    \* the ledger entry of the tool call
  review,    \* the progress of each decision request
  caller,    \* the progress of each execution request
  effects,   \* history: invocations of the registered tool
  truth,     \* history: what the tool returned
  faults     \* failures so far

vars == <<proposal, receipts, log, ledger, review, caller, effects, truth, faults>>

-----------------------------------------------------------------------------
(* Types *)

Statuses == {"pending", "confirmed", "rejected", "executing", "executed", "failed"}

\* A state of the proposal, with its version.
Proposal == [status : Statuses, version : 1..4]

\* A retained transition or an appended event: a proposal state and the identity,
\* of a reviewer's decision or of an execution, that it was requested under.
Entry == [by : Reviewers \cup Executions, status : Statuses, version : 1..4]

\* pc names the await a request is at; rec is the proposal record it holds;
\* recorded is the outcome of settle().
Caller == [pc : {"get", "audit", "claim", "append", "reuse", "admit", "invoke", "running",
                 "settle", "settleAppend", "record"},
           rec : Proposal, recorded : BOOLEAN, answer : {"none", "success", "error"}]

\* Between requests, with the answer to the last one.
Idle(answer) == [pc |-> "get", rec |-> [status |-> "pending", version |-> 1],
                 recorded |-> FALSE, answer |-> answer]

\* The confirmed version: created at 1, decided once.
ConfirmedVersion == 2

Init ==
  /\ proposal = [status |-> "pending", version |-> 1]
  /\ receipts = {}
  /\ log = <<>>
  /\ ledger = "none"
  /\ review = [r \in Reviewers |-> "open"]
  /\ caller = [c \in Callers |-> Idle("none")]
  /\ effects = 0
  /\ truth = "none"
  /\ faults = 0

Fails == faults < MaxFaults /\ faults' = faults + 1

-----------------------------------------------------------------------------
(* The stores *)

\* CONVERSATION_APPROVAL_PROPOSAL_TRANSITIONS; "expired" is never entered.
Legal(from, to) ==
  \/ from = "pending" /\ to \in {"confirmed", "rejected"}
  \/ from \in {"confirmed", "failed"} /\ to = "executing"
  \/ from = "executing" /\ to \in {"executed", "failed"}

\* transition() under the idempotency key <<by, to>>: the retained result if there
\* is one, else a versioned change of the proposal.
Retained(by, to) == {e \in receipts : e.by = by /\ e.status = to}

\* Mutant of Accepts: the version is not compared.
AcceptsAnyVersion(by, to, expected) ==
  Retained(by, to) # {} \/ Legal(proposal.status, to)

Accepts(by, to, expected) ==
  \/ Retained(by, to) # {}
  \/ proposal.version = expected /\ Legal(proposal.status, to)

Transition(by, to) ==
  IF Retained(by, to) # {} THEN UNCHANGED <<proposal, receipts>>
  ELSE /\ proposal' = [status |-> to, version |-> proposal.version + 1]
       /\ receipts' = receipts \cup {[by |-> by, status |-> to, version |-> proposal.version + 1]}

\* The record transition() returns.
Result(by, to) ==
  [status |-> to,
   version |-> IF Retained(by, to) = {} THEN proposal.version + 1
               ELSE (CHOOSE e \in Retained(by, to) : TRUE).version]

\* The in-memory proposal store drops its oldest idempotency records at capacity.
Evict ==
  /\ Fails
  /\ \E e \in receipts : receipts' = receipts \ {e}
  /\ UNCHANGED <<proposal, log, ledger, review, caller, effects, truth>>

\* append() of an event whose identity the log may already have, at the same
\* revision (an exact retry) or at another one.
Logged(by, to) == \E i \in DOMAIN log : log[i].by = by /\ log[i].status = to

\* Mutant of AppendEvent: the event's identity is not looked up.
AppendAlways(by, rec) ==
  log' = Append(log, [by |-> by, status |-> rec.status, version |-> rec.version])

AppendEvent(by, rec) ==
  log' = IF Logged(by, rec.status) THEN log
         ELSE Append(log, [by |-> by, status |-> rec.status, version |-> rec.version])

\* Whether the coordinator takes the event for appended.  At another revision it
\* compares the stored payload with its own as JSON text (eventExists).
Appended(by, rec) == IF Logged(by, rec.status) THEN {TRUE, KeepsKeyOrder} ELSE {TRUE}

-----------------------------------------------------------------------------
(* The decision coordinator *)

\* The status a reviewer's request asks for, and the record it is answered with.
Decision(r) == IF r \in Confirmers THEN "confirmed" ELSE "rejected"

Decided(r) == [status |-> Decision(r), version |-> ConfirmedVersion]

\* decide(): the transition ...
Decide(r) ==
  /\ review[r] = "open"
  /\ Accepts(r, Decision(r), 1)
  /\ Transition(r, Decision(r))
  /\ review' = [review EXCEPT ![r] = "append"]
  /\ UNCHANGED <<log, ledger, caller, effects, truth, faults>>

\* ... which is refused once the proposal is decided otherwise ...
DecideRefused(r) ==
  /\ review[r] = "open"
  /\ ~Accepts(r, Decision(r), 1)
  /\ review' = [review EXCEPT ![r] = "refused"]
  /\ UNCHANGED <<proposal, receipts, log, ledger, caller, effects, truth, faults>>

\* ... and then the decision event.
DecideAppend(r) ==
  /\ review[r] = "append"
  /\ AppendEvent(r, Decided(r))
  /\ review' = [review EXCEPT ![r] = "accepted"]
  /\ UNCHANGED <<proposal, receipts, ledger, caller, effects, truth, faults>>

\* A crash or a store failure between the two; the reviewer's client retries.
DecideFails(r) ==
  /\ Fails
  /\ review[r] = "append"
  /\ \/ UNCHANGED log
     \/ AppendEvent(r, Decided(r))
  /\ review' = [review EXCEPT ![r] = "open"]
  /\ UNCHANGED <<proposal, receipts, ledger, caller, effects, truth>>

-----------------------------------------------------------------------------
(* claim() of the execution coordinator *)

\* The request ends with an answer, and may be made again.
Ends(c, answer) == caller' = [caller EXCEPT ![c] = Idle(answer)]

Get(c) ==
  /\ caller[c].pc = "get"
  /\ caller' = [caller EXCEPT ![c] =
       [pc |-> "audit", rec |-> proposal, recorded |-> FALSE, answer |-> "none"]]
  /\ UNCHANGED <<proposal, receipts, log, ledger, review, effects, truth, faults>>

\* Mutant of Confirmed: the proposal's status is taken for the evidence.
ConfirmedByStatus(c) == caller[c].rec.status \notin {"pending", "rejected"}

\* readProposalAudit and hasExactConfirmation, on the proposal read before.
Confirmed(c) ==
  /\ caller[c].rec.status \notin {"pending", "rejected"}
  /\ \E i \in DOMAIN log : log[i].status = "confirmed" /\ log[i].version = ConfirmedVersion

TerminalLogged(x) == Logged(x, "executed") \/ Logged(x, "failed")

\* The status whose transition claim() makes: of a confirmed proposal, or once
\* more where repairMissingLifecycleAudit finds the event missing.
Claims(c) ==
  \/ caller[c].rec.status = "confirmed"
  \/ caller[c].rec.status = "executing" /\ ~Logged(ExecutionOf[c], "executing")
  \/ caller[c].rec.status \in {"executed", "failed"} /\ ~TerminalLogged(ExecutionOf[c])

\* matchesExistingExecution: the audit tells of this execution.
SameExecution(c) ==
  LET x == ExecutionOf[c]
      At(s, v) == \E i \in DOMAIN log : log[i] = [by |-> x, status |-> s, version |-> v]
  IN /\ At("executing", ConfirmedVersion + 1)
     /\ \/ caller[c].rec = [status |-> "executing", version |-> ConfirmedVersion + 1]
        \/ /\ caller[c].rec.version = ConfirmedVersion + 2
           /\ At(caller[c].rec.status, ConfirmedVersion + 2)

Audit(c) ==
  /\ caller[c].pc = "audit"
  /\ \/ /\ Confirmed(c) /\ Claims(c)
        /\ caller' = [caller EXCEPT ![c].pc = "claim"]
     \/ /\ Confirmed(c) /\ ~Claims(c) /\ SameExecution(c)
        /\ caller' = [caller EXCEPT ![c].pc = "reuse"]
     \/ /\ ~Confirmed(c) \/ (~Claims(c) /\ ~SameExecution(c))
        /\ Ends(c, "error")
  /\ UNCHANGED <<proposal, receipts, log, ledger, review, effects, truth, faults>>

\* The transition's target and expected version.
Target(c) == IF caller[c].rec.status = "confirmed" THEN "executing" ELSE caller[c].rec.status

\* Mutant of Expected: the version after the confirmation.
ExpectedLater(c) == ConfirmedVersion + 1

Expected(c) == IF Target(c) = "executing" THEN ConfirmedVersion ELSE ConfirmedVersion + 1

Claim(c) ==
  /\ caller[c].pc = "claim"
  /\ Accepts(ExecutionOf[c], Target(c), Expected(c))
  /\ Transition(ExecutionOf[c], Target(c))
  /\ caller' = [caller EXCEPT ![c].pc = "append", ![c].rec = Result(ExecutionOf[c], Target(c))]
  /\ UNCHANGED <<log, ledger, review, effects, truth, faults>>

ClaimRefused(c) ==
  /\ caller[c].pc = "claim"
  /\ ~Accepts(ExecutionOf[c], Target(c), Expected(c))
  /\ Ends(c, "error")
  /\ UNCHANGED <<proposal, receipts, log, ledger, review, effects, truth, faults>>

\* appendLifecycleEvent: "claimed" or, after a repaired terminal event, "reuse".
ClaimAppend(c) ==
  /\ caller[c].pc = "append"
  /\ AppendEvent(ExecutionOf[c], caller[c].rec)
  /\ \E appended \in Appended(ExecutionOf[c], caller[c].rec) :
       IF appended
       THEN caller' = [caller EXCEPT ![c].pc =
              IF caller[c].rec.status = "executing" THEN "admit" ELSE "reuse"]
       ELSE Ends(c, "error")
  /\ UNCHANGED <<proposal, receipts, ledger, review, effects, truth, faults>>

-----------------------------------------------------------------------------
(* The executor and the ledger *)

\* What a request for a recorded call is answered.
Answer == IF ledger = "success" THEN "success" ELSE "error"

\* lookup(): an admission without a result stays uncertain.
Reuse(c) ==
  /\ caller[c].pc = "reuse"
  /\ Ends(c, Answer)
  /\ UNCHANGED <<proposal, receipts, log, ledger, review, effects, truth, faults>>

\* Mutant of Admit: the admission is part of a transaction that ends with the result.
AdmitUncommitted(c) ==
  /\ caller[c].pc = "admit"
  /\ IF ledger = "none"
     THEN caller' = [caller EXCEPT ![c].pc = "invoke"] ELSE Ends(c, Answer)
  /\ UNCHANGED <<proposal, receipts, log, ledger, review, effects, truth, faults>>

\* getOrExecuteTool: admit the call, answer it from the ledger, or refuse it
\* because an earlier admission may have had its effect.
Admit(c) ==
  /\ caller[c].pc = "admit"
  /\ IF ledger = "none"
     THEN /\ ledger' = "admitted"
          /\ caller' = [caller EXCEPT ![c].pc = "invoke"]
     ELSE /\ Ends(c, Answer)
          /\ UNCHANGED ledger
  /\ UNCHANGED <<proposal, receipts, log, review, effects, truth, faults>>

\* The registered tool is called.
Invoke(c) ==
  /\ caller[c].pc = "invoke"
  /\ effects' = effects + 1
  /\ caller' = [caller EXCEPT ![c].pc = "running"]
  /\ UNCHANGED <<proposal, receipts, log, ledger, review, truth, faults>>

\* It returns, or fails or is cut off by the deadline.
Returns(c, status) ==
  /\ caller[c].pc = "running"
  /\ truth' = status
  /\ caller' = [caller EXCEPT ![c].pc = "settle", ![c].rec.status = status]
  /\ UNCHANGED <<proposal, receipts, log, ledger, review, effects, faults>>

\* Mutant of Settle: the execution is over, so it is executed.
SettleAsExecuted(c) ==
  /\ caller[c].pc = "settle"
  /\ IF Accepts(ExecutionOf[c], "executed", caller[c].rec.version)
     THEN /\ Transition(ExecutionOf[c], "executed")
          /\ caller' = [caller EXCEPT ![c].pc = "settleAppend",
                                      ![c].rec = Result(ExecutionOf[c], "executed")]
     ELSE /\ caller' = [caller EXCEPT ![c].pc = "record"]
          /\ UNCHANGED <<proposal, receipts>>
  /\ UNCHANGED <<log, ledger, review, effects, truth, faults>>

\* settle(): the terminal transition from the claimed version, whose event comes
\* second ...
Settle(c) ==
  LET to == caller[c].rec.status IN
  /\ caller[c].pc = "settle"
  /\ IF Accepts(ExecutionOf[c], to, caller[c].rec.version)
     THEN /\ Transition(ExecutionOf[c], to)
          /\ caller' = [caller EXCEPT ![c].pc = "settleAppend", ![c].rec = Result(ExecutionOf[c], to)]
     ELSE /\ caller' = [caller EXCEPT ![c].pc = "record"]
          /\ UNCHANGED <<proposal, receipts>>
  /\ UNCHANGED <<log, ledger, review, effects, truth, faults>>

SettleAppend(c) ==
  /\ caller[c].pc = "settleAppend"
  /\ AppendEvent(ExecutionOf[c], caller[c].rec)
  /\ \E appended \in Appended(ExecutionOf[c], caller[c].rec) :
       caller' = [caller EXCEPT ![c].pc = "record", ![c].recorded = appended]
  /\ UNCHANGED <<proposal, receipts, ledger, review, effects, truth, faults>>

\* Mutant of Kept: the tool's result, recorded or not.
KeptAnyway(c) == IF caller[c].rec.status = "executed" THEN "success" ELSE "error"

\* ... and the ledger keeps the tool's result only if both were recorded.
Kept(c) ==
  IF caller[c].recorded /\ caller[c].rec.status = "executed" THEN "success" ELSE "error"

Record(c) ==
  /\ caller[c].pc = "record"
  /\ ledger' = Kept(c)
  /\ Ends(c, Kept(c))
  /\ UNCHANGED <<proposal, receipts, log, review, effects, truth, faults>>

-----------------------------------------------------------------------------
(* Failures *)

\* The process dies, or the caller gives up before a transition was made: every
\* store keeps what it has, and a caller that is told nothing assumes an error.
Crash(c) ==
  /\ Fails
  /\ caller[c].pc # "get"
  /\ Ends(c, "error")
  /\ UNCHANGED <<proposal, receipts, log, ledger, review, effects, truth>>

\* Cancellation, a full executor or onExecutionStarted keeps an admitted call
\* from being invoked.
NotInvoked(c) ==
  /\ Fails
  /\ caller[c].pc = "invoke"
  /\ caller' = [caller EXCEPT ![c].pc = "settle", ![c].rec.status = "failed"]
  /\ UNCHANGED <<proposal, receipts, log, ledger, review, effects, truth>>

\* A store fails under claim(), with or without its commit: "unavailable".
ClaimFails(c) ==
  /\ Fails
  /\ \/ /\ caller[c].pc = "claim"
        /\ Accepts(ExecutionOf[c], Target(c), Expected(c))
        /\ Transition(ExecutionOf[c], Target(c))
        /\ UNCHANGED <<log, ledger>>
     \/ /\ caller[c].pc = "append"
        /\ AppendEvent(ExecutionOf[c], caller[c].rec)
        /\ UNCHANGED <<proposal, receipts, ledger>>
     \/ /\ caller[c].pc = "admit" /\ ledger = "none"
        /\ ledger' = "admitted"
        /\ UNCHANGED <<proposal, receipts, log>>
     \/ /\ caller[c].pc \in {"audit", "claim", "append", "reuse", "admit"}
        /\ UNCHANGED <<proposal, receipts, log, ledger>>
  /\ Ends(c, "error")
  /\ UNCHANGED <<review, effects, truth>>

\* A store fails under settle(): the execution is not recorded as such.
SettleFails(c) ==
  LET x == ExecutionOf[c] IN
  /\ Fails
  /\ \/ /\ caller[c].pc \in {"settle", "settleAppend"}
        /\ UNCHANGED <<proposal, receipts, log>>
     \/ /\ caller[c].pc = "settle"
        /\ Accepts(x, caller[c].rec.status, caller[c].rec.version)
        /\ Transition(x, caller[c].rec.status)
        /\ UNCHANGED log
     \/ /\ caller[c].pc = "settleAppend"
        /\ AppendEvent(x, caller[c].rec)
        /\ UNCHANGED <<proposal, receipts>>
  /\ caller' = [caller EXCEPT ![c].pc = "record"]
  /\ UNCHANGED <<ledger, review, effects, truth>>

\* The ledger fails under the result, with or without its commit.
RecordFails(c) ==
  /\ Fails
  /\ caller[c].pc = "record"
  /\ ledger' \in {ledger, Kept(c)}
  /\ Ends(c, "error")
  /\ UNCHANGED <<proposal, receipts, log, review, effects, truth>>

-----------------------------------------------------------------------------
(* The specification *)

Deciding(r) == Decide(r) \/ DecideRefused(r) \/ DecideAppend(r)

Executing(c) ==
  \/ Get(c) \/ Audit(c) \/ Claim(c) \/ ClaimRefused(c) \/ ClaimAppend(c) \/ Reuse(c) \/ Admit(c)
  \/ Invoke(c) \/ (\E status \in {"executed", "failed"} : Returns(c, status))
  \/ Settle(c) \/ SettleAppend(c) \/ Record(c)

Faults ==
  \/ Evict
  \/ \E r \in Reviewers : DecideFails(r)
  \/ \E c \in Callers : Crash(c) \/ NotInvoked(c) \/ ClaimFails(c) \/ SettleFails(c) \/ RecordFails(c)

Next ==
  \/ \E r \in Reviewers : Deciding(r)
  \/ \E c \in Callers : Executing(c)
  \/ Faults

Spec == Init /\ [][Next]_vars

\* Reviewers and callers go on with what they began, and the host asks again for a
\* call that has no answer yet.
FairSpec ==
  /\ Spec
  /\ WF_vars(\E r \in Reviewers : Deciding(r))
  /\ \A c \in Callers : WF_vars(Executing(c))

-----------------------------------------------------------------------------
(* Properties *)

\* Every variable stays within its type.
TypeOK ==
  /\ proposal \in Proposal
  /\ receipts \subseteq Entry
  /\ log \in Seq(Entry)
  /\ ledger \in {"none", "admitted", "success", "error"}
  /\ review \in [Reviewers -> {"open", "append", "accepted", "refused"}]
  /\ caller \in [Callers -> Caller]
  /\ effects \in Nat
  /\ truth \in {"none", "executed", "failed"}
  /\ faults \in 0..MaxFaults

\* However many requests, processes and retries there are, and whatever dies in
\* between, the tool is invoked at most once.  claim() alone does not give this:
\* its transition is idempotent, so two requests can both be told "claimed".
EffectAtMostOnce == effects <= 1

\* The tool is invoked only after a human's confirmation and the start of the
\* execution are both in the audit log; nothing of the kind follows a rejection.
EffectIsAudited ==
  effects > 0 =>
    \E i, j \in DOMAIN log :
      /\ i < j
      /\ log[i].by \in Confirmers /\ log[i].status = "confirmed"
      /\ log[j].by \in Executions /\ log[j].status = "executing"

\* The audit log tells one story: one event for each version of the proposal that
\* it tells of, in the order of the versions, all of one execution.
AuditIsLinear ==
  /\ \A i, j \in DOMAIN log : i < j => log[i].version < log[j].version
  /\ \A i, j \in DOMAIN log :
       log[i].by \in Executions /\ log[j].by \in Executions => log[i].by = log[j].by

\* A result is never better than the truth: what the ledger replays, or a request
\* is told, as a success was executed, is so in the proposal, and is so in the log.
SuccessIsTrue ==
  (ledger = "success" \/ \E c \in Callers : caller[c].answer = "success") =>
    /\ truth = "executed"
    /\ proposal.status = "executed"
    /\ \E x \in Executions : Logged(x, "executed")

\* A proposal is recorded as executed only by the execution that invoked the tool
\* and saw it return.
ExecutedIsTrue == proposal.status = "executed" => truth = "executed"

\* As long as nothing fails, a confirmed proposal is executed and its result kept,
\* although requests under different identities compete for it.
ApprovedRuns ==
  proposal.status = "confirmed" ~> ledger \in {"success", "error"} \/ faults > 0

\* docs/native-assistant-tool-runtime.md:33, "A recreated application must be able
\* to read an already executed approval's result": as long as nothing fails, the
\* result kept of an executed call is its result.
ExecutedResultIsRead ==
  faults = 0 /\ proposal.status = "executed" => ledger # "error"

=============================================================================
