---------------------- MODULE ApprovalExecutionProofs -----------------------
(* Theorems about ApprovalExecution, for any number of requests, executions,   *)
(* reviewers and failures.                                                     *)
EXTENDS ApprovalExecution, TLAPS

-----------------------------------------------------------------------------
(* Versions *)

\* The version a proposal has in each status: the lifecycle is a line, although
\* the transition table would let a failed proposal execute again.
VersionOf(status) ==
  IF status = "pending" THEN 1
  ELSE IF status \in {"confirmed", "rejected"} THEN 2
  ELSE IF status = "executing" THEN 3 ELSE 4

Versioned(p) == p.version = VersionOf(p.status)

\* The record a request holds at each of its awaits.
Held(r) ==
  /\ r.pc \in {"audit", "claim", "append"} => Versioned(r.rec)
  /\ r.pc = "claim" => r.rec.status \notin {"pending", "rejected"}
  /\ r.pc = "append" => r.rec.status \in {"executing", "executed", "failed"}
  /\ r.pc \in {"admit", "invoke", "running", "settle"} => r.rec.version = 3
  /\ r.pc = "settle" => r.rec.status \in {"executed", "failed"}

Requests == {r \in Caller : Held(r)}

StoresOK ==
  /\ proposal \in Proposal /\ Versioned(proposal)
  /\ receipts \subseteq Entry /\ \A e \in receipts : Versioned(e)
  /\ log \in Seq(Entry)
  /\ ledger \in {"none", "admitted", "success", "error"}

RestOK ==
  /\ review \in [Reviewers -> {"open", "append", "accepted", "refused"}]
  /\ effects \in Nat
  /\ truth \in {"none", "executed", "failed"}
  /\ faults \in 0..MaxFaults

VersionInv == StoresOK /\ RestOK /\ caller \in [Callers -> Requests]

\* A transition keeps the line, and returns a record that is on it.
LEMMA TransitionOnLine ==
  ASSUME StoresOK, NEW x \in Reviewers \cup Executions,
         NEW to \in {"confirmed", "rejected", "executing", "executed", "failed"}, NEW v,
         v = VersionOf(to) - 1, Accepts(x, to, v)
  PROVE  /\ Result(x, to) \in Proposal
         /\ Result(x, to).status = to /\ Versioned(Result(x, to))
         /\ Transition(x, to) =>
              /\ proposal' \in Proposal /\ Versioned(proposal)'
              /\ receipts' \subseteq Entry /\ \A e \in receipts' : Versioned(e)
<1> USE DEF StoresOK, VersionOf, Versioned
<1>1. CASE Retained(x, to) # {}
  <2>1. PICK e \in Retained(x, to) : e = CHOOSE f \in Retained(x, to) : TRUE
    BY <1>1
  <2>2. e \in Entry /\ e.status = to /\ e.version = VersionOf(to)
    BY <2>1 DEF Retained
  <2>3. Result(x, to) = [status |-> to, version |-> e.version]
    BY <1>1, <2>1 DEF Result
  <2> QED BY <1>1, <2>2, <2>3 DEF Entry, Proposal, Transition
<1>2. CASE Retained(x, to) = {}
  <2>1. proposal.version = v /\ v \in 1..3
    BY <1>2 DEF Accepts
  <2>2. proposal.version + 1 = VersionOf(to) /\ proposal.version + 1 \in 1..4
    BY <2>1
  <2>3. [by |-> x, status |-> to, version |-> proposal.version + 1] \in Entry
    BY <2>2 DEF Entry, Statuses
  <2>4. [status |-> to, version |-> proposal.version + 1] \in Proposal
    BY <2>2 DEF Proposal, Statuses
  <2> QED BY <1>2, <2>2, <2>3, <2>4 DEF Result, Transition
<1> QED BY <1>1, <1>2

\* An append keeps the log a sequence of entries.
LEMMA AppendKeepsLog ==
  ASSUME StoresOK, NEW x \in Reviewers \cup Executions, NEW r \in Proposal, AppendEvent(x, r)
  PROVE  log' \in Seq(Entry)
<1>1. [by |-> x, status |-> r.status, version |-> r.version] \in Entry
  BY DEF Entry, Proposal
<1> QED BY <1>1 DEF AppendEvent, StoresOK

\* A request that ends is a request again.
LEMMA EndsType ==
  ASSUME caller \in [Callers -> Requests], NEW c \in Callers, NEW a \in {"none", "success", "error"},
         Ends(c, a)
  PROVE  caller' \in [Callers -> Requests]
<1>1. Idle(a) \in Requests
  BY DEF Idle, Requests, Caller, Held, Proposal, Statuses
<1> QED BY <1>1 DEF Ends

\* A request's own steps.
LEMMA StepType ==
  ASSUME caller \in [Callers -> Requests], NEW c \in Callers, NEW r \in Requests,
         caller' = [caller EXCEPT ![c] = r]
  PROVE  caller' \in [Callers -> Requests]
OBVIOUS

\* The steps of the decision coordinator.
LEMMA DecisionsKeepVersions ==
  ASSUME VersionInv, NEW r \in Reviewers, Deciding(r) \/ DecideFails(r)
  PROVE  VersionInv'
<1> USE DEF VersionInv
<1>1. Decision(r) \in {"confirmed", "rejected"} /\ VersionOf(Decision(r)) = 2
  BY DEF Decision, VersionOf
<1>2. Decided(r) \in Proposal
  BY <1>1 DEF Decided, ConfirmedVersion, Proposal, Statuses
<1>3. CASE Decide(r)
  BY <1>1, <1>3, TransitionOnLine DEF Decide, StoresOK, RestOK
<1>4. CASE DecideRefused(r)
  BY <1>4 DEF DecideRefused, StoresOK, RestOK
<1>5. CASE DecideAppend(r)
  <2>1. log' \in Seq(Entry)
    BY <1>2, <1>5, AppendKeepsLog DEF DecideAppend
  <2> QED BY <1>5, <2>1 DEF DecideAppend, StoresOK, RestOK
<1>6. CASE DecideFails(r)
  <2>1. log' \in Seq(Entry)
    BY <1>2, <1>6, AppendKeepsLog DEF DecideFails, StoresOK
  <2>2. faults' \in 0..MaxFaults
    BY <1>6, FaultsAssumption DEF DecideFails, Fails, RestOK
  <2> QED BY <1>6, <2>1, <2>2 DEF DecideFails, StoresOK, RestOK
<1> QED BY <1>3, <1>4, <1>5, <1>6 DEF Deciding

\* The steps of a request that no failure disturbs.
LEMMA ExecutingKeepsVersions ==
  ASSUME VersionInv, NEW c \in Callers, Executing(c)
  PROVE  VersionInv'
<1> DEFINE x == ExecutionOf[c]
           me == caller[c]
<1> USE DEF VersionInv
<1>1. /\ me \in Caller /\ Held(me) /\ me.rec \in Proposal
      /\ x \in Reviewers \cup Executions
  BY RequestsAssumption DEF Requests, Caller
<1>2. Answer \in {"success", "error"} /\ Kept(c) \in {"success", "error"}
  BY DEF Answer, Kept
<1>3. CASE Get(c)
  <2>1. [pc |-> "audit", rec |-> proposal, recorded |-> FALSE, answer |-> "none"] \in Requests
    BY DEF Requests, Caller, Held, StoresOK
  <2> QED BY <1>3, <2>1, StepType DEF Get, StoresOK, RestOK
<1>4. CASE Audit(c)
  <2>1. CASE caller' = [caller EXCEPT ![c].pc = "claim"] /\ Confirmed(c)
    <3>1. [me EXCEPT !.pc = "claim"] \in Requests
      BY <1>1, <1>4, <2>1 DEF Audit, Confirmed, Requests, Caller, Held
    <3> QED BY <1>4, <2>1, <3>1, StepType DEF Audit, StoresOK, RestOK
  <2>2. CASE caller' = [caller EXCEPT ![c].pc = "reuse"]
    <3>1. [me EXCEPT !.pc = "reuse"] \in Requests
      BY <1>1 DEF Requests, Caller, Held
    <3> QED BY <1>4, <2>2, <3>1, StepType DEF Audit, StoresOK, RestOK
  <2>3. CASE Ends(c, "error")
    BY <1>4, <2>3, EndsType DEF Audit, StoresOK, RestOK
  <2> QED BY <1>4, <2>1, <2>2, <2>3 DEF Audit
<1>5. ASSUME me.pc = "claim"
      PROVE  Target(c) \in {"executing", "executed", "failed"} /\ Expected(c) = VersionOf(Target(c)) - 1
  BY <1>1, <1>5 DEF Held, Target, Expected, ConfirmedVersion, VersionOf, Caller, Proposal, Statuses
<1>6. CASE Claim(c)
  <2> DEFINE res == Result(x, Target(c))
  <2>1. /\ res \in Proposal /\ res.status = Target(c) /\ Versioned(res)
        /\ proposal' \in Proposal /\ Versioned(proposal)'
        /\ receipts' \subseteq Entry /\ \A e \in receipts' : Versioned(e)
    BY <1>1, <1>5, <1>6, TransitionOnLine DEF Claim
  <2> HIDE DEF res
  <2>2. [me EXCEPT !.pc = "append", !.rec = res] \in Requests
    BY <1>1, <1>5, <1>6, <2>1 DEF Claim, Requests, Caller, Held
  <2>3. caller' = [caller EXCEPT ![c] = [me EXCEPT !.pc = "append", !.rec = res]]
    BY <1>6 DEF Claim, res
  <2> QED BY <1>6, <2>1, <2>2, <2>3, StepType DEF Claim, StoresOK, RestOK
<1>7. CASE ClaimRefused(c)
  BY <1>7, EndsType DEF ClaimRefused, StoresOK, RestOK
<1>8. CASE ClaimAppend(c)
  <2>1. log' \in Seq(Entry)
    BY <1>1, <1>8, AppendKeepsLog DEF ClaimAppend
  <2>2. caller' \in [Callers -> Requests]
    <3>1. me.rec.status = "executing" => [me EXCEPT !.pc = "admit"] \in Requests
      BY <1>1, <1>8 DEF ClaimAppend, Requests, Caller, Held, Versioned, VersionOf
    <3>2. [me EXCEPT !.pc = "reuse"] \in Requests
      BY <1>1 DEF Requests, Caller, Held
    <3> QED BY <1>8, <3>1, <3>2, StepType, EndsType DEF ClaimAppend
  <2> QED BY <1>8, <2>1, <2>2 DEF ClaimAppend, StoresOK, RestOK
<1>9. CASE Reuse(c)
  BY <1>2, <1>9, EndsType DEF Reuse, StoresOK, RestOK
<1>10. CASE Admit(c)
  <2>1. caller' \in [Callers -> Requests]
    <3>1. [me EXCEPT !.pc = "invoke"] \in Requests
      BY <1>1, <1>10 DEF Admit, Requests, Caller, Held
    <3> QED BY <1>2, <1>10, <3>1, StepType, EndsType DEF Admit
  <2> QED BY <1>10, <2>1 DEF Admit, StoresOK, RestOK
<1>11. CASE Invoke(c)
  <2>1. [me EXCEPT !.pc = "running"] \in Requests
    BY <1>1, <1>11 DEF Invoke, Requests, Caller, Held
  <2> QED BY <1>11, <2>1, StepType DEF Invoke, StoresOK, RestOK
<1>12. ASSUME NEW status \in {"executed", "failed"}, Returns(c, status)
       PROVE  VersionInv'
  <2>1. [me EXCEPT !.pc = "settle", !.rec = [me.rec EXCEPT !.status = status]] \in Requests
    BY <1>1, <1>12 DEF Returns, Requests, Caller, Held, Proposal, Statuses
  <2>2. caller' = [caller EXCEPT ![c] = [me EXCEPT !.pc = "settle",
                                                   !.rec = [me.rec EXCEPT !.status = status]]]
    BY <1>12 DEF Returns
  <2>3. caller' \in [Callers -> Requests]
    BY <2>1, <2>2, StepType
  <2> QED BY <1>12, <2>3 DEF Returns, StoresOK, RestOK
<1>13. CASE Settle(c)
  <2> DEFINE to == me.rec.status
             res == Result(x, to)
  <2>1. to \in {"executed", "failed"} /\ me.rec.version = VersionOf(to) - 1
    BY <1>1, <1>13 DEF Settle, Held, VersionOf
  <2>2. CASE Accepts(x, to, me.rec.version)
    <3>1. /\ res \in Proposal
          /\ proposal' \in Proposal /\ Versioned(proposal)'
          /\ receipts' \subseteq Entry /\ \A e \in receipts' : Versioned(e)
      BY <1>1, <1>13, <2>1, <2>2, TransitionOnLine DEF Settle
    <3> HIDE DEF res
    <3>2. [me EXCEPT !.pc = "settleAppend", !.rec = res] \in Requests
      BY <1>1, <3>1 DEF Requests, Caller, Held
    <3>3. caller' = [caller EXCEPT ![c] = [me EXCEPT !.pc = "settleAppend", !.rec = res]]
      BY <1>13, <2>2 DEF Settle, res
    <3> QED BY <1>13, <3>1, <3>2, <3>3, StepType DEF Settle, StoresOK, RestOK
  <2>3. CASE ~Accepts(x, to, me.rec.version)
    <3>1. [me EXCEPT !.pc = "record"] \in Requests
      BY <1>1 DEF Requests, Caller, Held
    <3> QED BY <1>13, <2>3, <3>1, StepType DEF Settle, StoresOK, RestOK
  <2> QED BY <2>2, <2>3
<1>14. CASE SettleAppend(c)
  <2>1. log' \in Seq(Entry)
    BY <1>1, <1>14, AppendKeepsLog DEF SettleAppend
  <2>2. PICK appended \in BOOLEAN :
          caller' = [caller EXCEPT ![c] = [me EXCEPT !.pc = "record", !.recorded = appended]]
    BY <1>14, FaultsAssumption DEF SettleAppend, Appended
  <2>3. [me EXCEPT !.pc = "record", !.recorded = appended] \in Requests
    BY <1>1 DEF Requests, Caller, Held
  <2> QED BY <1>14, <2>1, <2>2, <2>3, StepType DEF SettleAppend, StoresOK, RestOK
<1>15. CASE Record(c)
  BY <1>2, <1>15, EndsType DEF Record, StoresOK, RestOK
<1> QED BY <1>3, <1>4, <1>6, <1>7, <1>8, <1>9, <1>10, <1>11, <1>12, <1>13, <1>14, <1>15 DEF Executing

\* The failures of a request, and of the proposal store's memory.
LEMMA FailuresKeepVersions ==
  ASSUME VersionInv, Faults
  PROVE  VersionInv'
<1> USE DEF VersionInv
<1>1. CASE Evict
  BY <1>1, FaultsAssumption DEF Evict, Fails, StoresOK, RestOK
<1>2. CASE \E r \in Reviewers : DecideFails(r)
  BY <1>2, DecisionsKeepVersions
<1>3. ASSUME NEW c \in Callers,
             Crash(c) \/ NotInvoked(c) \/ ClaimFails(c) \/ SettleFails(c) \/ RecordFails(c)
      PROVE  VersionInv'
  <2> DEFINE x == ExecutionOf[c]
             me == caller[c]
  <2>1. /\ me \in Caller /\ Held(me) /\ me.rec \in Proposal
        /\ x \in Reviewers \cup Executions
    BY RequestsAssumption DEF Requests, Caller
  <2>2. RestOK'
    <3>1. Fails
      BY <1>3 DEF Crash, NotInvoked, ClaimFails, SettleFails, RecordFails
    <3>2. faults' \in 0..MaxFaults
      BY <3>1, FaultsAssumption DEF Fails, RestOK
    <3> QED BY <1>3, <3>2 DEF Crash, NotInvoked, ClaimFails, SettleFails, RecordFails, RestOK
  <2>3. [me EXCEPT !.pc = "record"] \in Requests
    BY <2>1 DEF Requests, Caller, Held
  <2>4. CASE Crash(c)
    BY <2>2, <2>4, EndsType DEF Crash, StoresOK
  <2>5. CASE NotInvoked(c)
    <3>1. [me EXCEPT !.pc = "settle", !.rec = [me.rec EXCEPT !.status = "failed"]] \in Requests
      BY <2>1, <2>5 DEF NotInvoked, Requests, Caller, Held, Proposal, Statuses
    <3>2. caller' = [caller EXCEPT ![c] = [me EXCEPT !.pc = "settle",
                                                     !.rec = [me.rec EXCEPT !.status = "failed"]]]
      BY <2>5 DEF NotInvoked
    <3>3. caller' \in [Callers -> Requests]
      BY <3>1, <3>2, StepType
    <3> QED BY <2>2, <2>5, <3>3 DEF NotInvoked, StoresOK
  <2>6. CASE ClaimFails(c)
    <3>1. caller' \in [Callers -> Requests]
      BY <2>6, EndsType DEF ClaimFails
    <3>2. StoresOK'
      <4>1. CASE /\ me.pc = "claim" /\ Accepts(x, Target(c), Expected(c)) /\ Transition(x, Target(c))
                 /\ UNCHANGED <<log, ledger>>
        <5>1. Target(c) \in {"executing", "executed", "failed"} /\ Expected(c) = VersionOf(Target(c)) - 1
          BY <2>1, <4>1 DEF Held, Target, Expected, ConfirmedVersion, VersionOf, Caller, Proposal, Statuses
        <5> QED BY <2>1, <4>1, <5>1, TransitionOnLine DEF StoresOK
      <4>2. CASE AppendEvent(x, me.rec) /\ UNCHANGED <<proposal, receipts, ledger>>
        <5>1. log' \in Seq(Entry)
          BY <2>1, <4>2, AppendKeepsLog
        <5> QED BY <4>2, <5>1 DEF StoresOK
      <4>3. CASE ledger' = "admitted" /\ UNCHANGED <<proposal, receipts, log>>
        BY <4>3 DEF StoresOK
      <4>4. CASE UNCHANGED <<proposal, receipts, log, ledger>>
        BY <4>4 DEF StoresOK
      <4> QED BY <2>6, <4>1, <4>2, <4>3, <4>4 DEF ClaimFails
    <3> QED BY <2>2, <3>1, <3>2
  <2>7. CASE SettleFails(c)
    <3>1. caller' \in [Callers -> Requests]
      BY <2>3, <2>7, StepType DEF SettleFails
    <3>2. StoresOK'
      <4>1. CASE UNCHANGED <<proposal, receipts, log>>
        BY <2>7, <4>1 DEF SettleFails, StoresOK
      <4>2. CASE /\ me.pc = "settle" /\ Accepts(x, me.rec.status, me.rec.version)
                 /\ Transition(x, me.rec.status) /\ UNCHANGED log
        <5>1. me.rec.status \in {"executed", "failed"} /\ me.rec.version = VersionOf(me.rec.status) - 1
          BY <2>1, <4>2 DEF Held, VersionOf
        <5> QED BY <2>1, <2>7, <4>2, <5>1, TransitionOnLine DEF SettleFails, StoresOK
      <4>3. CASE AppendEvent(x, me.rec) /\ UNCHANGED <<proposal, receipts>>
        <5>1. log' \in Seq(Entry)
          BY <2>1, <4>3, AppendKeepsLog
        <5> QED BY <2>7, <4>3, <5>1 DEF SettleFails, StoresOK
      <4> QED BY <2>7, <4>1, <4>2, <4>3 DEF SettleFails
    <3> QED BY <2>2, <3>1, <3>2
  <2>8. CASE RecordFails(c)
    <3>1. Kept(c) \in {"success", "error"}
      BY DEF Kept
    <3> QED BY <2>2, <2>8, <3>1, EndsType DEF RecordFails, StoresOK
  <2> QED BY <1>3, <2>4, <2>5, <2>6, <2>7, <2>8
<1> QED BY <1>1, <1>2, <1>3 DEF Faults

\* Every step keeps the line.
LEMMA StepKeepsVersions ==
  ASSUME VersionInv, [Next]_vars
  PROVE  VersionInv'
<1>1. CASE Next
  BY <1>1, DecisionsKeepVersions, ExecutingKeepsVersions, FailuresKeepVersions DEF Next
<1>2. CASE UNCHANGED vars
  BY <1>2 DEF vars, VersionInv, StoresOK, RestOK, Versioned
<1> QED BY <1>1, <1>2

LEMMA InitVersions ==
  ASSUME Init
  PROVE  VersionInv
<1>1. Idle("none") \in Requests
  BY DEF Idle, Requests, Caller, Held, Proposal, Statuses
<1>2. StoresOK
  BY DEF Init, StoresOK, Proposal, Statuses, Versioned, VersionOf
<1>3. RestOK
  BY FaultsAssumption DEF Init, RestOK
<1> QED BY <1>1, <1>2, <1>3 DEF Init, VersionInv

\* Every variable keeps its type: in particular no sequence of decisions, claims,
\* settlements and repairs takes a proposal past version 4, although the table of
\* legal transitions has a cycle through "failed" and "executing".
THEOREM TypeCorrect == Spec => []TypeOK
<1>1. Init => VersionInv
  BY InitVersions
<1>2. VersionInv /\ [Next]_vars => VersionInv'
  BY StepKeepsVersions
<1>3. VersionInv => TypeOK
  BY DEF VersionInv, StoresOK, RestOK, TypeOK, Requests
<1> QED BY <1>1, <1>2, <1>3, PTL DEF Spec

-----------------------------------------------------------------------------
(* The effect happens at most once *)

\* Between its admission and its answer.
Admitted(r) == r.pc \in {"invoke", "running", "settle", "settleAppend", "record"}

\* The ledger entry comes first and stays, one request at most got it, and that
\* request leaves "invoke" when it invokes.
OneAdmission ==
  /\ effects \in {0, 1}
  /\ ledger = "none" => effects = 0 /\ \A c \in Callers : ~Admitted(caller[c])
  /\ \A c, d \in Callers : Admitted(caller[c]) /\ Admitted(caller[d]) => c = d
  /\ effects = 1 => \A c \in Callers : caller[c].pc # "invoke"

\* A step that admits nobody and invokes nothing.
LEMMA NobodyAdmitted ==
  ASSUME OneAdmission, caller \in [Callers -> Requests], NEW c \in Callers, NEW r,
         caller' = [caller EXCEPT ![c] = r],
         Admitted(r) => Admitted(caller[c]) /\ r.pc # "invoke",
         ledger' = ledger \/ ledger' # "none", UNCHANGED effects
  PROVE  OneAdmission'
<1>1. \A d \in Callers : caller'[d] = IF d = c THEN r ELSE caller[d]
  OBVIOUS
<1>2. \A d \in Callers : Admitted(caller'[d]) => Admitted(caller[d])
  BY <1>1
<1>3. \A d \in Callers : caller'[d].pc = "invoke" => caller[d].pc = "invoke"
  BY <1>1 DEF Admitted
<1> QED BY <1>2, <1>3 DEF OneAdmission

\* The same for a request that ends.
LEMMA EndsUnadmitted ==
  ASSUME OneAdmission, caller \in [Callers -> Requests], NEW c \in Callers, NEW a, Ends(c, a),
         ledger' = ledger \/ ledger' # "none", UNCHANGED effects
  PROVE  OneAdmission'
<1>1. ~Admitted(Idle(a))
  BY DEF Admitted, Idle
<1> QED BY <1>1, NobodyAdmitted DEF Ends

\* Every step keeps the one admission.
LEMMA StepKeepsOneAdmission ==
  ASSUME VersionInv, OneAdmission, [Next]_vars
  PROVE  OneAdmission'
<1>1. caller \in [Callers -> Requests] /\ \A c \in Callers : caller[c] \in Caller
  BY DEF VersionInv, Requests
<1>2. CASE UNCHANGED <<caller, ledger, effects>>
  BY <1>2 DEF OneAdmission
<1>3. ASSUME NEW c \in Callers, Executing(c)
      PROVE  OneAdmission'
  <2> DEFINE me == caller[c]
  <2>1. me \in Caller
    BY <1>1
  <2>2. CASE Get(c)
    BY <1>1, <2>2, NobodyAdmitted DEF Get, Admitted
  <2>3. CASE Audit(c)
    <3>1. CASE caller' = [caller EXCEPT ![c].pc = "claim"] \/ caller' = [caller EXCEPT ![c].pc = "reuse"]
      <4>1. PICK p \in {"claim", "reuse"} : caller' = [caller EXCEPT ![c] = [me EXCEPT !.pc = p]]
        BY <3>1
      <4>2. ~Admitted([me EXCEPT !.pc = p])
        BY <2>1 DEF Admitted, Caller
      <4> QED BY <1>1, <2>3, <4>1, <4>2, NobodyAdmitted DEF Audit
    <3>2. CASE Ends(c, "error")
      BY <1>1, <2>3, <3>2, EndsUnadmitted DEF Audit
    <3> QED BY <2>3, <3>1, <3>2 DEF Audit
  <2>4. CASE Claim(c)
    <3>1. PICK v : caller' = [caller EXCEPT ![c] = [me EXCEPT !.pc = "append", !.rec = v]]
      BY <2>4 DEF Claim
    <3>2. ~Admitted([me EXCEPT !.pc = "append", !.rec = v])
      BY <2>1 DEF Admitted, Caller
    <3> QED BY <1>1, <2>4, <3>1, <3>2, NobodyAdmitted DEF Claim
  <2>5. CASE ClaimRefused(c)
    BY <1>1, <2>5, EndsUnadmitted DEF ClaimRefused
  <2>6. CASE ClaimAppend(c)
    <3>1. CASE Ends(c, "error")
      BY <1>1, <2>6, <3>1, EndsUnadmitted DEF ClaimAppend
    <3>2. CASE ~Ends(c, "error")
      <4>1. PICK p \in {"admit", "reuse"} : caller' = [caller EXCEPT ![c] = [me EXCEPT !.pc = p]]
        BY <2>6, <3>2 DEF ClaimAppend
      <4>2. ~Admitted([me EXCEPT !.pc = p])
        BY <2>1 DEF Admitted, Caller
      <4> QED BY <1>1, <2>6, <4>1, <4>2, NobodyAdmitted DEF ClaimAppend
    <3> QED BY <3>1, <3>2
  <2>7. CASE Reuse(c)
    BY <1>1, <2>7, EndsUnadmitted DEF Reuse
  <2>8. CASE Admit(c)
    <3>1. CASE ledger = "none"
      <4>1. \A d \in Callers : d # c => ~Admitted(caller'[d])
        BY <1>1, <2>8, <3>1 DEF Admit, OneAdmission
      <4> QED BY <2>8, <3>1, <4>1 DEF Admit, OneAdmission
    <3>2. CASE ledger # "none"
      BY <1>1, <2>8, <3>2, EndsUnadmitted DEF Admit
    <3> QED BY <3>1, <3>2
  <2>9. CASE Invoke(c)
    <3>1. me.pc = "invoke" /\ Admitted(me) /\ effects' = effects + 1
      BY <2>9 DEF Invoke, Admitted
    <3>2. effects' = 1 /\ ledger' # "none"
      BY <2>9, <3>1 DEF Invoke, OneAdmission
    <3>3. \A d \in Callers : d # c => caller'[d] = caller[d] /\ ~Admitted(caller[d])
      BY <1>1, <2>9, <3>1 DEF Invoke, OneAdmission
    <3>4. caller'[c].pc = "running"
      BY <1>1, <2>1, <2>9 DEF Invoke, Caller
    <3>5. \A d \in Callers : Admitted(caller'[d]) => d = c
      BY <3>3
    <3>6. \A d \in Callers : caller'[d].pc # "invoke"
      BY <3>3, <3>4 DEF Admitted
    <3> QED BY <3>2, <3>5, <3>6 DEF OneAdmission
  <2>10. ASSUME NEW status, Returns(c, status)
         PROVE  OneAdmission'
    <3>1. caller' = [caller EXCEPT ![c] = [me EXCEPT !.pc = "settle",
                                                     !.rec = [me.rec EXCEPT !.status = status]]]
      BY <2>10 DEF Returns
    <3>2. Admitted(me) /\ [me EXCEPT !.pc = "settle", !.rec = [me.rec EXCEPT !.status = status]].pc = "settle"
      BY <2>1, <2>10 DEF Returns, Admitted, Caller
    <3> QED BY <1>1, <2>10, <3>1, <3>2, NobodyAdmitted DEF Returns
  <2>11. CASE Settle(c)
    <3>1. PICK p \in {"settleAppend", "record"} : \E v :
            caller' = [caller EXCEPT ![c] = [me EXCEPT !.pc = p, !.rec = v]]
      <4>1. CASE caller' = [caller EXCEPT ![c].pc = "record"]
        <5>1. [me EXCEPT !.pc = "record"] = [me EXCEPT !.pc = "record", !.rec = me.rec]
          BY <2>1 DEF Caller
        <5> QED BY <4>1, <5>1
      <4>2. CASE caller' # [caller EXCEPT ![c].pc = "record"]
        BY <2>11, <4>2 DEF Settle
      <4> QED BY <4>1, <4>2
    <3>2. PICK v : caller' = [caller EXCEPT ![c] = [me EXCEPT !.pc = p, !.rec = v]]
      BY <3>1
    <3>3. Admitted(me) /\ [me EXCEPT !.pc = p, !.rec = v].pc = p
      BY <2>1, <2>11 DEF Settle, Admitted, Caller
    <3> QED BY <1>1, <2>11, <3>2, <3>3, NobodyAdmitted DEF Settle
  <2>12. CASE SettleAppend(c)
    <3>1. PICK b : caller' = [caller EXCEPT ![c] = [me EXCEPT !.pc = "record", !.recorded = b]]
      BY <2>12 DEF SettleAppend
    <3>2. Admitted(me) /\ [me EXCEPT !.pc = "record", !.recorded = b].pc = "record"
      BY <2>1, <2>12 DEF SettleAppend, Admitted, Caller
    <3> QED BY <1>1, <2>12, <3>1, <3>2, NobodyAdmitted DEF SettleAppend
  <2>13. CASE Record(c)
    BY <1>1, <2>13, EndsUnadmitted DEF Record, Kept
  <2> QED BY <1>3, <2>2, <2>3, <2>4, <2>5, <2>6, <2>7, <2>8, <2>9, <2>10, <2>11, <2>12, <2>13
          DEF Executing
<1>4. ASSUME NEW c \in Callers,
             Crash(c) \/ NotInvoked(c) \/ ClaimFails(c) \/ SettleFails(c) \/ RecordFails(c)
      PROVE  OneAdmission'
  <2> DEFINE me == caller[c]
  <2>1. me \in Caller
    BY <1>1
  <2>2. CASE Crash(c)
    BY <1>1, <2>2, EndsUnadmitted DEF Crash
  <2>3. CASE NotInvoked(c)
    <3>1. caller' = [caller EXCEPT ![c] = [me EXCEPT !.pc = "settle",
                                                     !.rec = [me.rec EXCEPT !.status = "failed"]]]
      BY <2>3 DEF NotInvoked
    <3>2. Admitted(me) /\ [me EXCEPT !.pc = "settle", !.rec = [me.rec EXCEPT !.status = "failed"]].pc = "settle"
      BY <2>1, <2>3 DEF NotInvoked, Admitted, Caller
    <3> QED BY <1>1, <2>3, <3>1, <3>2, NobodyAdmitted DEF NotInvoked
  <2>4. CASE ClaimFails(c)
    BY <1>1, <2>4, EndsUnadmitted DEF ClaimFails
  <2>5. CASE SettleFails(c)
    <3>1. Admitted(me) /\ [me EXCEPT !.pc = "record"].pc = "record"
      BY <2>1, <2>5 DEF SettleFails, Admitted, Caller
    <3> QED BY <1>1, <2>5, <3>1, NobodyAdmitted DEF SettleFails
  <2>6. CASE RecordFails(c)
    BY <1>1, <2>6, EndsUnadmitted DEF RecordFails, Kept
  <2> QED BY <1>4, <2>2, <2>3, <2>4, <2>5, <2>6
<1>5. ASSUME NEW r \in Reviewers, Deciding(r) \/ DecideFails(r)
      PROVE  UNCHANGED <<caller, ledger, effects>>
  BY <1>5 DEF Deciding, Decide, DecideRefused, DecideAppend, DecideFails
<1>6. ASSUME Evict
      PROVE  UNCHANGED <<caller, ledger, effects>>
  BY <1>6 DEF Evict
<1> QED BY <1>2, <1>3, <1>4, <1>5, <1>6 DEF Next, Faults, vars

\* The tool is invoked at most once, by however many requests in however many
\* processes, under however many execution identities and failures.
THEOREM AtMostOneEffect == Spec => []EffectAtMostOnce
<1>1. Init => VersionInv /\ OneAdmission
  <2>1. ~Admitted(Idle("none"))
    BY DEF Admitted, Idle
  <2> QED BY <2>1, InitVersions DEF Init, OneAdmission, Idle
<1>2. VersionInv /\ OneAdmission /\ [Next]_vars => (VersionInv /\ OneAdmission)'
  BY StepKeepsVersions, StepKeepsOneAdmission
<1>3. OneAdmission => EffectAtMostOnce
  BY DEF OneAdmission, EffectAtMostOnce
<1> QED BY <1>1, <1>2, <1>3, PTL DEF Spec

-----------------------------------------------------------------------------
(* The audit log *)

\* An execution request that made, or was told of, a transition, until it ends.
Holding == {"append", "admit", "invoke", "running", "settle", "settleAppend", "record"}

\* An identity whose transition was accepted, as far as anything still tells of it.
Acted(a) ==
  \/ \E e \in receipts : e.by = a
  \/ \E i \in DOMAIN log : log[i].by = a
  \/ a \in Reviewers /\ review[a] \in {"append", "accepted"}
  \/ \E c \in Callers : ExecutionOf[c] = a /\ caller[c].pc \in Holding

\* Only one reviewer and one execution ever do, and not before their turn.
ActedOnce ==
  /\ \A a \in Reviewers : Acted(a) => proposal.version >= 2
  /\ \A x \in Executions : Acted(x) => proposal.version >= 3
  /\ \A a, b \in Reviewers : Acted(a) /\ Acted(b) => a = b
  /\ \A x, y \in Executions : Acted(x) /\ Acted(y) => x = y

Confirmation(e) == e.by \in Confirmers /\ e.status = "confirmed"
Begun(x) == Logged(x, "executing")

\* An entry says what its identity may say.
Genuine(e) ==
  /\ Versioned(e)
  /\ e.by \in Reviewers => e.status = Decision(e.by)
  /\ e.by \in Executions => e.status \in {"executing", "executed", "failed"}

\* A state the proposal has had; the last one is the one it has.
Past(p) == p.version <= proposal.version /\ (p.version = 4 => p.status = proposal.status)

StoryOK ==
  /\ \A e \in receipts : Genuine(e) /\ Past(e) /\ (e.version = 4 => Begun(e.by))
  /\ \A i \in DOMAIN log :
       /\ Genuine(log[i]) /\ Past(log[i]) /\ (log[i].version = 4 => Begun(log[i].by))
       /\ log[i].by \in Executions => \E h \in DOMAIN log : h < i /\ Confirmation(log[h])
  /\ \A i, j \in DOMAIN log : i < j => log[i].version < log[j].version

\* What the record a request r of execution x holds entitles it to.
Entitled(r, x) ==
  /\ r.pc \in {"audit", "claim", "append", "settleAppend"} => Versioned(r.rec) /\ Past(r.rec)
  /\ r.pc \in {"claim", "append"} => \E i \in DOMAIN log : Confirmation(log[i])
  /\ r.pc = "append" /\ r.rec.version = 4 => Begun(x)
  /\ r.pc = "settleAppend" => r.rec.status \in {"executed", "failed"}
  /\ r.pc \in Holding \ {"append"} => Begun(x)

AuditInv ==
  /\ StoryOK /\ ActedOnce
  /\ \A c \in Callers : Entitled(caller[c], ExecutionOf[c])
  /\ effects > 0 => \E x \in Executions : Begun(x)

\* What a step does to the stores: it replaces no event and undoes no transition.
Grows ==
  /\ proposal.version <= proposal'.version
  /\ proposal.version = 4 => proposal' = proposal
  /\ \A i \in DOMAIN log : i \in DOMAIN log' /\ log'[i] = log[i]

\* The log after an append: what it was, and the new entry behind it, if there is one.
LEMMA AppendedEntry ==
  ASSUME log \in Seq(Entry), NEW a, NEW r, AppendEvent(a, r),
         [by |-> a, status |-> r.status, version |-> r.version] \in Entry
  PROVE  /\ \A i \in DOMAIN log : i \in DOMAIN log' /\ log'[i] = log[i]
         /\ \A i \in DOMAIN log' : i \in DOMAIN log \/
              /\ ~Logged(a, r.status) /\ \A h \in DOMAIN log : h < i
              /\ log'[i] = [by |-> a, status |-> r.status, version |-> r.version]
         /\ \A i, j \in DOMAIN log' : i \notin DOMAIN log /\ j \notin DOMAIN log => i = j
         /\ DOMAIN log \subseteq Nat /\ DOMAIN log' \subseteq Nat
         /\ Logged(a, r.status)'
<1> DEFINE e == [by |-> a, status |-> r.status, version |-> r.version]
<1>1. DOMAIN log = 1..Len(log) /\ Len(log) \in Nat
  OBVIOUS
<1>2. CASE Logged(a, r.status)
  <2>1. log' = log
    BY <1>2 DEF AppendEvent
  <2> QED BY <1>1, <1>2, <2>1 DEF Logged
<1>3. CASE ~Logged(a, r.status)
  <2>1. log' = Append(log, e)
    BY <1>3 DEF AppendEvent
  <2>2. /\ DOMAIN log' = 1..(Len(log) + 1) /\ log'[Len(log) + 1] = e
        /\ \A i \in 1..Len(log) : log'[i] = log[i]
    BY <2>1
  <2>3. Logged(a, r.status)'
    BY <1>1, <2>2 DEF Logged
  <2> HIDE DEF e
  <2>4. \A i \in DOMAIN log' : i \in DOMAIN log \/ i = Len(log) + 1
    BY <1>1, <2>2
  <2> QED BY <1>1, <1>3, <2>2, <2>3, <2>4 DEF e
<1> QED BY <1>2, <1>3

\* Growth keeps what a request was entitled to by the stores.
LEMMA GrowthKeeps ==
  ASSUME VersionInv, VersionInv', Grows
  PROVE  /\ \A p : p.version \in Nat /\ Past(p) =>
              p.version <= proposal'.version /\ (p.version = 4 => p.status = proposal'.status)
         /\ (\E i \in DOMAIN log : Confirmation(log[i])) =>
              \E i \in DOMAIN log' : Confirmation(log'[i])
         /\ \A x : Begun(x) => Begun(x)'
<1>1. proposal.version \in 1..4 /\ proposal'.version \in 1..4
  BY DEF VersionInv, StoresOK, Proposal
<1>2. ASSUME NEW p, p.version \in Nat, Past(p)
      PROVE  p.version <= proposal'.version /\ (p.version = 4 => p.status = proposal'.status)
  BY <1>1, <1>2 DEF Grows, Past
<1>3. ASSUME NEW x, Begun(x)
      PROVE  Begun(x)'
  BY <1>3 DEF Begun, Logged, Grows
<1>4. ASSUME NEW i \in DOMAIN log, Confirmation(log[i])
      PROVE  \E j \in DOMAIN log' : Confirmation(log'[j])
  BY <1>4 DEF Grows
<1> QED BY <1>2, <1>3, <1>4

\* An appended event of an identity that acted continues the story.
LEMMA StoryAppends ==
  ASSUME VersionInv, StoryOK, ActedOnce, NEW a \in Reviewers \cup Executions, NEW r \in Proposal,
         AppendEvent(a, r), UNCHANGED <<proposal, receipts>>, Acted(a),
         Genuine([by |-> a, status |-> r.status, version |-> r.version]), Past(r),
         r.version = 4 => Begun(a),
         a \in Executions => \E i \in DOMAIN log : Confirmation(log[i])
  PROVE  StoryOK' /\ Grows
<1> DEFINE e == [by |-> a, status |-> r.status, version |-> r.version]
<1>1. e \in Entry /\ log \in Seq(Entry) /\ r.version \in 1..4 /\ proposal.version \in 1..4
  BY DEF Entry, Proposal, VersionInv, StoresOK
<1>2. /\ \A i \in DOMAIN log : i \in DOMAIN log' /\ log'[i] = log[i]
      /\ \A i \in DOMAIN log' : i \in DOMAIN log \/
           /\ ~Logged(a, r.status) /\ \A h \in DOMAIN log : h < i
           /\ log'[i] = e
      /\ \A i, j \in DOMAIN log' : i \notin DOMAIN log /\ j \notin DOMAIN log => i = j
      /\ DOMAIN log \subseteq Nat /\ DOMAIN log' \subseteq Nat
      /\ Logged(a, r.status)'
  BY <1>1, AppendedEntry
<1> HIDE DEF e
<1>3. Grows
  BY <1>1, <1>2 DEF Grows
<1>4. \A x : Begun(x) => \E k \in DOMAIN log' : log'[k].by = x /\ log'[k].status = "executing"
  BY <1>2 DEF Begun, Logged
<1>5. \A i \in DOMAIN log : log[i] \in Entry
  BY <1>1
<1>6. Genuine(e) /\ Past(e) /\ (e.version = 4 => Begun(a)) /\ e.by = a /\ e.status = r.status
      /\ e.version = r.version
  BY DEF e, Past
<1>7. ASSUME ~Logged(a, r.status), NEW h \in DOMAIN log
      PROVE  log[h].version < e.version
  <2>1. /\ log[h].by \in Reviewers \cup Executions /\ Acted(log[h].by) /\ Genuine(log[h])
        /\ Past(log[h]) /\ log[h].version \in 1..4
    BY <1>5 DEF Acted, StoryOK, Entry
  <2>2. CASE a \in Reviewers
    <3>1. e.status = Decision(a)
      BY <1>6, <2>2 DEF Genuine
    <3>2. ASSUME NEW g \in DOMAIN log, log[g].by \in Reviewers
          PROVE  FALSE
      <4>1. log[g].by = a
        BY <2>2, <3>2 DEF ActedOnce, Acted
      <4>2. log[g].status = Decision(a)
        BY <3>2, <4>1 DEF StoryOK, Genuine
      <4> QED BY <1>6, <1>7, <3>1, <4>1, <4>2 DEF Logged
    <3>3. log[h].by \in Executions
      BY <2>1, <3>2
    <3>4. PICK g \in DOMAIN log : Confirmation(log[g])
      BY <3>3 DEF StoryOK
    <3> QED BY <3>2, <3>4 DEF Confirmation, Reviewers
  <2>3. CASE a \in Executions
    <3>1. e.version \in {3, 4} /\ e.version = VersionOf(e.status)
      BY <1>6, <2>3 DEF Genuine, Versioned, VersionOf
    <3>2. CASE log[h].by \in Reviewers
      <4>1. log[h].status \in {"confirmed", "rejected"}
        BY <2>1, <3>2 DEF Genuine, Decision
      <4>2. log[h].version = 2
        BY <2>1, <4>1 DEF Genuine, Versioned, VersionOf
      <4> QED BY <3>1, <4>2
    <3>3. CASE log[h].by \in Executions
      <4>1. log[h].by = a
        BY <2>1, <2>3, <3>3 DEF ActedOnce
      <4>2. log[h].status # e.status
        BY <1>6, <1>7, <4>1 DEF Logged
      <4>3. log[h].status \in {"executing", "executed", "failed"} /\ log[h].version = VersionOf(log[h].status)
        BY <2>1, <3>3 DEF Genuine, Versioned
      <4>4. CASE e.status = "executing"
        <5>1. log[h].version = 4
          BY <4>2, <4>3, <4>4 DEF VersionOf
        <5>2. Begun(a)
          BY <4>1, <5>1 DEF StoryOK
        <5> QED BY <1>6, <1>7, <4>4, <5>2 DEF Begun
      <4>5. CASE e.status # "executing"
        <5>1. e.version = 4 /\ e.status = proposal.status
          BY <1>6, <2>3, <4>5 DEF Genuine, Versioned, VersionOf, Past
        <5>2. log[h].version # 4
          BY <2>1, <4>2, <5>1 DEF Past
        <5> QED BY <2>1, <5>1, <5>2
      <4> QED BY <4>4, <4>5
    <3> QED BY <2>1, <3>2, <3>3
  <2> QED BY <2>2, <2>3
<1>8. ASSUME NEW i \in DOMAIN log'
      PROVE  /\ (Genuine(log[i]) /\ Past(log[i]) /\ (log[i].version = 4 => Begun(log[i].by)))'
             /\ (log[i].by \in Executions => \E h \in DOMAIN log : h < i /\ Confirmation(log[h]))'
  <2>1. CASE i \in DOMAIN log
    <3>1. log'[i] = log[i]
      BY <1>2, <2>1
    <3>2. (Genuine(log[i]) /\ Past(log[i]) /\ (log[i].version = 4 => Begun(log[i].by)))'
      BY <1>4, <2>1, <3>1 DEF StoryOK, Genuine, Versioned, Past, Begun, Logged
    <3>3. (log[i].by \in Executions => \E h \in DOMAIN log : h < i /\ Confirmation(log[h]))'
      BY <1>2, <2>1, <3>1 DEF StoryOK, Confirmation
    <3> QED BY <3>2, <3>3
  <2>2. CASE i \notin DOMAIN log
    <3>1. log'[i] = e /\ \A h \in DOMAIN log : h < i
      BY <1>2, <2>2
    <3>2. (Genuine(log[i]) /\ Past(log[i]) /\ (log[i].version = 4 => Begun(log[i].by)))'
      BY <1>4, <1>6, <3>1 DEF Genuine, Versioned, Past, Begun, Logged
    <3>3. (log[i].by \in Executions => \E h \in DOMAIN log : h < i /\ Confirmation(log[h]))'
      BY <1>2, <1>6, <3>1 DEF Confirmation
    <3> QED BY <3>2, <3>3
  <2> QED BY <2>1, <2>2
<1>9. ASSUME NEW i \in DOMAIN log', NEW j \in DOMAIN log', i < j
      PROVE  log'[i].version < log'[j].version
  <2>1. CASE i \in DOMAIN log /\ j \in DOMAIN log
    BY <1>2, <1>9, <2>1 DEF StoryOK
  <2>2. CASE i \in DOMAIN log /\ j \notin DOMAIN log
    BY <1>2, <1>7, <2>2
  <2>3. CASE i \notin DOMAIN log
    <3>1. j \notin DOMAIN log
      <4>1. j \in DOMAIN log => j < i
        BY <1>2, <2>3
      <4> QED BY <1>2, <1>9, <4>1
    <3> QED BY <1>2, <1>9, <2>3, <3>1
  <2> QED BY <2>1, <2>2, <2>3
<1>10. (\A f \in receipts : Genuine(f) /\ Past(f) /\ (f.version = 4 => Begun(f.by)))'
  BY <1>4 DEF StoryOK, Genuine, Versioned, Past, Begun, Logged
<1> QED BY <1>3, <1>8, <1>9, <1>10 DEF StoryOK

\* An accepted transition continues it too, if a new terminal state follows the start.
LEMMA StoryTransits ==
  ASSUME VersionInv, StoryOK, NEW a \in Reviewers \cup Executions, NEW to \in Statuses, NEW v,
         v = VersionOf(to) - 1, Accepts(a, to, v), Transition(a, to), UNCHANGED log,
         a \in Reviewers => to = Decision(a),
         a \in Executions => to \in {"executing", "executed", "failed"},
         to \in {"executed", "failed"} => Begun(a)
  PROVE  /\ StoryOK' /\ Grows
         /\ Versioned(Result(a, to)) /\ Result(a, to).status = to
         /\ Result(a, to).version <= proposal'.version
         /\ Result(a, to).version = 4 => to = proposal'.status
<1>1. proposal.version \in 1..4 /\ proposal.version = VersionOf(proposal.status)
  BY DEF VersionInv, StoresOK, Proposal, Versioned
<1>2. CASE Retained(a, to) # {}
  <2>1. PICK e \in Retained(a, to) : Result(a, to) = [status |-> to, version |-> e.version]
    BY <1>2 DEF Result
  <2>2. e \in receipts /\ e.status = to /\ Genuine(e) /\ Past(e)
    BY DEF Retained, StoryOK
  <2>3. UNCHANGED <<proposal, receipts>>
    BY <1>2 DEF Transition
  <2>4. Grows
    BY <1>1, <2>3 DEF Grows
  <2>5. StoryOK'
    BY <2>3 DEF StoryOK, Genuine, Versioned, Past, Begun, Logged, Confirmation
  <2> QED BY <2>1, <2>2, <2>3, <2>4, <2>5 DEF Genuine, Versioned, Past
<1>3. CASE Retained(a, to) = {}
  <2> DEFINE new == [by |-> a, status |-> to, version |-> proposal.version + 1]
  <2>1. proposal.version = v /\ v \in 1..3 /\ proposal.version + 1 = VersionOf(to)
    BY <1>1, <1>3 DEF Accepts, VersionOf
  <2>2. proposal' = [status |-> to, version |-> proposal.version + 1] /\ receipts' = receipts \cup {new}
    BY <1>3 DEF Transition
  <2>3. Result(a, to) = [status |-> to, version |-> proposal.version + 1]
    BY <1>3 DEF Result
  <2>4. Grows
    BY <2>1, <2>2 DEF Grows
  <2>5. ASSUME NEW p, p.version \in 1..4, Past(p)
        PROVE  p.version # 4 /\ p.version <= proposal'.version
    BY <2>1, <2>2, <2>5 DEF Past
  <2>6. (\A e \in receipts : Genuine(e) /\ Past(e) /\ (e.version = 4 => Begun(e.by)))'
    <3>1. ASSUME NEW e \in receipts
          PROVE  (Genuine(e) /\ e.version # 4 /\ e.version <= proposal'.version)
      BY <2>5 DEF StoryOK, VersionInv, StoresOK, Entry
    <3>2. Genuine(new) /\ new.version = proposal'.version /\ new.status = proposal'.status
      BY <2>1, <2>2 DEF Genuine, Versioned
    <3>3. new.version = 4 => Begun(new.by)
      BY <2>1 DEF VersionOf, Statuses
    <3>4. \A e \in receipts' : e \in receipts \/ e = new
      BY <2>2
    <3>5. new.version \in Nat
      BY <2>1
    <3> HIDE DEF new
    <3>6. new.version = 4 => \E i \in DOMAIN log' : log'[i].by = new.by /\ log'[i].status = "executing"
      BY <3>3 DEF Begun, Logged
    <3>7. ASSUME NEW e \in receipts'
          PROVE  /\ Genuine(e) /\ e.version <= proposal'.version
                 /\ e.version = 4 => /\ e.status = proposal'.status
                                    /\ \E i \in DOMAIN log' : log'[i].by = e.by /\ log'[i].status = "executing"
      BY <3>1, <3>2, <3>4, <3>5, <3>6
    <3> QED BY <3>7 DEF Genuine, Versioned, Past, Begun, Logged
  <2>7. (\A i \in DOMAIN log :
          /\ Genuine(log[i]) /\ Past(log[i]) /\ (log[i].version = 4 => Begun(log[i].by))
          /\ log[i].by \in Executions => \E h \in DOMAIN log : h < i /\ Confirmation(log[h]))'
    <3>1. ASSUME NEW i \in DOMAIN log
          PROVE  log[i].version # 4 /\ log[i].version <= proposal'.version
      <4>1. log[i] \in Entry
        BY DEF VersionInv, StoresOK
      <4> QED BY <2>5, <4>1 DEF StoryOK, Entry
    <3>2. ASSUME NEW i \in DOMAIN log
          PROVE  (Genuine(log[i]) /\ Past(log[i]) /\ (log[i].version = 4 => Begun(log[i].by)))'
      BY <3>1 DEF StoryOK, Genuine, Versioned, Past
    <3>3. (\A i \in DOMAIN log :
            log[i].by \in Executions => \E h \in DOMAIN log : h < i /\ Confirmation(log[h]))'
      BY DEF StoryOK, Confirmation
    <3> QED BY <3>2, <3>3
  <2> QED BY <2>1, <2>2, <2>3, <2>4, <2>6, <2>7 DEF StoryOK, Versioned
<1> QED BY <1>2, <1>3

\* Who has acted after a step: who had, and those (As) whose step it is.
LEMMA ActedGrows ==
  ASSUME NEW As, NEW b,
         \A e \in receipts' : e \in receipts \/ e.by \in As,
         \A i \in DOMAIN log' : (i \in DOMAIN log /\ log'[i] = log[i]) \/ log'[i].by \in As,
         \A r \in Reviewers : review'[r] = review[r] \/ review'[r] \in {"open", "refused"} \/ r \in As,
         \A c \in Callers :
           caller'[c].pc \in Holding => caller[c].pc \in Holding \/ ExecutionOf[c] \in As,
         Acted(b)'
  PROVE  Acted(b) \/ b \in As
BY DEF Acted

\* An identity that acts for the first time does so when it is its turn.
Fresh(a) ==
  \/ a \in Reviewers /\ proposal.version = 1 /\ proposal'.version = 2
  \/ a \in Executions /\ proposal.version = 2 /\ proposal'.version = 3

LEMMA ActedOnceKeeps ==
  ASSUME VersionInv, VersionInv', ActedOnce, Grows, NEW As,
         \A a \in As : Acted(a) \/ Fresh(a), \A a, b \in As : a = b,
         \A b : Acted(b)' => Acted(b) \/ b \in As
  PROVE  ActedOnce'
<1>1. proposal.version \in 1..4 /\ proposal'.version \in 1..4
  BY DEF VersionInv, StoresOK, Proposal
<1>2. Reviewers \cap Executions = {}
  BY RequestsAssumption
<1> QED BY <1>1, <1>2 DEF ActedOnce, Grows, Fresh

\* A step after which the story goes on, and every request is entitled to what it holds.
LEMMA AuditStep ==
  ASSUME VersionInv, VersionInv', AuditInv, Grows, StoryOK', NEW As,
         \A a \in As : Acted(a) \/ Fresh(a), \A a, b \in As : a = b,
         \A e \in receipts' : e \in receipts \/ e.by \in As,
         \A i \in DOMAIN log' : (i \in DOMAIN log /\ log'[i] = log[i]) \/ log'[i].by \in As,
         \A r \in Reviewers : review'[r] = review[r] \/ review'[r] \in {"open", "refused"} \/ r \in As,
         \A c \in Callers :
           caller'[c].pc \in Holding => caller[c].pc \in Holding \/ ExecutionOf[c] \in As,
         \A c \in Callers : caller'[c] = caller[c] \/ Entitled(caller[c], ExecutionOf[c])',
         effects' = effects \/ \E x \in Executions : Begun(x)
  PROVE  AuditInv'
<1>1. \A b : Acted(b)' => Acted(b) \/ b \in As
  BY ActedGrows
<1>2. ActedOnce'
  BY <1>1, ActedOnceKeeps DEF AuditInv
<1>3. ASSUME NEW c \in Callers
      PROVE  Entitled(caller[c], ExecutionOf[c])'
  <2>1. CASE caller'[c] = caller[c]
    <3>1. Entitled(caller[c], ExecutionOf[c])
      BY DEF AuditInv
    <3>2. caller[c].rec.version \in Nat
      BY DEF VersionInv, Requests, Caller, Proposal
    <3> QED BY <2>1, <3>1, <3>2, GrowthKeeps DEF Entitled, Versioned, Past, Begun, Logged
  <2> QED BY <1>3, <2>1
<1>4. (effects > 0 => \E x \in Executions : Begun(x))'
  <2>1. CASE effects' = effects
    BY <2>1, GrowthKeeps DEF AuditInv
  <2>2. CASE \E x \in Executions : Begun(x)
    BY <2>2, GrowthKeeps
  <2> QED BY <2>1, <2>2
<1> QED BY <1>2, <1>3, <1>4 DEF AuditInv

\* A request's step that leaves proposal and log alone.
LEMMA QuietKeepsAudit ==
  ASSUME VersionInv, VersionInv', AuditInv, NEW c \in Callers, NEW q,
         caller' = [caller EXCEPT ![c] = q], UNCHANGED <<proposal, receipts, log, review>>,
         q.pc \in Holding => caller[c].pc \in Holding,
         Entitled(q, ExecutionOf[c]),
         effects' = effects \/ Begun(ExecutionOf[c])
  PROVE  AuditInv' /\ Grows
<1>1. StoryOK'
  BY DEF AuditInv, StoryOK, Genuine, Versioned, Past, Begun, Logged, Confirmation
<1>2. Grows
  BY DEF Grows, VersionInv, StoresOK, Proposal
<1>3. caller'[c] = q /\ \A d \in Callers : d # c => caller'[d] = caller[d]
  BY DEF VersionInv
<1>4. Entitled(caller[c], ExecutionOf[c])'
  BY <1>3 DEF Entitled, Versioned, Past, Begun, Logged, Confirmation
<1>5. effects' = effects \/ \E x \in Executions : Begun(x)
  BY RequestsAssumption
<1>6. \A d \in Callers : caller'[d].pc \in Holding => caller[d].pc \in Holding
  BY <1>3
<1>7. \A d \in Callers : caller'[d] = caller[d] \/ Entitled(caller[d], ExecutionOf[d])'
  BY <1>3, <1>4
<1> DEFINE As == {}
<1>8. \A a \in As : FALSE
  OBVIOUS
<1> HIDE DEF As
<1> QED BY <1>1, <1>2, <1>5, <1>6, <1>7, <1>8, AuditStep

LEMMA EndsKeepsAudit ==
  ASSUME VersionInv, VersionInv', AuditInv, NEW c \in Callers, NEW a, Ends(c, a),
         UNCHANGED <<proposal, receipts, log, review, effects>>
  PROVE  AuditInv' /\ Grows
<1>1. Idle(a).pc = "get"
  BY DEF Idle
<1>2. Entitled(Idle(a), ExecutionOf[c]) /\ Idle(a).pc \notin Holding
  BY <1>1 DEF Entitled, Holding
<1> QED BY <1>2, QuietKeepsAudit DEF Ends

\* A claim that finds no retained transition is the first one.
LEMMA ClaimsAnew ==
  ASSUME VersionInv, AuditInv, NEW c \in Callers, caller[c].pc = "claim",
         Retained(ExecutionOf[c], Target(c)) = {},
         Accepts(ExecutionOf[c], Target(c), VersionOf(Target(c)) - 1)
  PROVE  proposal.version = 2 /\ Target(c) = "executing"
<1> DEFINE me == caller[c]
<1>1. /\ me \in Caller /\ Held(me) /\ Entitled(me, ExecutionOf[c])
      /\ proposal.version \in 1..4 /\ proposal.version = VersionOf(Target(c)) - 1
  BY DEF VersionInv, StoresOK, Requests, AuditInv, Proposal, Accepts
<1>2. /\ me.rec.version = VersionOf(me.rec.status) /\ me.rec.version <= proposal.version
      /\ me.rec.status \in Statuses /\ me.rec.status \notin {"pending", "rejected"}
  BY <1>1 DEF Entitled, Versioned, Past, Held, Caller, Proposal
<1>3. me.rec.status = "confirmed"
  BY <1>1, <1>2 DEF Target, VersionOf, Statuses
<1> QED BY <1>1, <1>3 DEF Target, VersionOf

\* The transition a request makes, whatever it is told of it.
LEMMA TransitKeepsAudit ==
  ASSUME VersionInv, VersionInv', AuditInv, NEW c \in Callers,
         NEW to \in {"executing", "executed", "failed"},
         Accepts(ExecutionOf[c], to, VersionOf(to) - 1), Transition(ExecutionOf[c], to),
         UNCHANGED <<log, review, effects>>,
         \/ caller[c].pc = "claim" /\ to = Target(c)
         \/ caller[c].pc = "settle",
         NEW q, caller' = [caller EXCEPT ![c] = q],
         \/ q.pc = "append" /\ caller[c].pc = "claim" /\ q.rec = Result(ExecutionOf[c], to)
         \/ /\ q.pc = "settleAppend" /\ caller[c].pc = "settle"
            /\ q.rec = Result(ExecutionOf[c], to) /\ to # "executing"
         \/ q.pc = "record" /\ caller[c].pc = "settle"
         \/ q.pc = "get"
  PROVE  AuditInv' /\ Grows
<1> DEFINE x == ExecutionOf[c]
           me == caller[c]
<1>1. /\ x \in Executions /\ x \notin Reviewers
      /\ me \in Caller /\ Held(me) /\ Entitled(me, x)
      /\ proposal.version \in 1..4 /\ proposal.version = VersionOf(proposal.status)
  BY RequestsAssumption DEF VersionInv, StoresOK, Requests, AuditInv, Proposal, Versioned
<1>2. caller'[c] = q /\ \A d \in Callers : d # c => caller'[d] = caller[d]
  BY DEF VersionInv
<1>3. Retained(x, to) # {} => Acted(x)
  BY DEF Retained, Acted
<1>4. me.pc = "claim" /\ Retained(x, to) = {} => proposal.version = 2 /\ to = "executing"
  BY ClaimsAnew
<1>5. to \in {"executed", "failed"} => Begun(x)
  <2>1. CASE me.pc = "settle"
    BY <1>1, <2>1 DEF Entitled, Holding
  <2>2. CASE me.pc = "claim" /\ to # "executing"
    <3>1. PICK e \in receipts : e.by = x /\ e.status = to
      BY <1>4, <2>2 DEF Retained
    <3>2. e.version = 4
      BY <2>2, <3>1 DEF AuditInv, StoryOK, Genuine, Versioned, VersionOf
    <3> QED BY <3>1, <3>2 DEF AuditInv, StoryOK
  <2> QED BY <2>1, <2>2
<1>6. /\ StoryOK' /\ Grows
      /\ Versioned(Result(x, to)) /\ Result(x, to).status = to
      /\ Result(x, to).version <= proposal'.version
      /\ Result(x, to).version = 4 => to = proposal'.status
  BY <1>1, <1>5, StoryTransits DEF AuditInv, Statuses
<1>7. Acted(x) \/ Fresh(x)
  <2>1. CASE me.pc = "settle"
    BY <2>1 DEF Acted, Holding
  <2>2. CASE me.pc = "claim" /\ Retained(x, to) = {}
    <3>1. proposal'.version = 3
      BY <1>4, <2>2 DEF Transition
    <3> QED BY <1>1, <1>4, <2>2, <3>1 DEF Fresh
  <2> QED BY <1>3, <2>1, <2>2
<1>8. Entitled(caller[c], x)'
  <2>1. Begun(x) => Begun(x)'
    BY <1>6, GrowthKeeps
  <2>2. CASE q.pc = "append"
    <3>1. (\E i \in DOMAIN log : Confirmation(log[i]))'
      BY <1>1, <1>2, <2>2 DEF Entitled, Confirmation
    <3>2. q.rec.version = 4 => Begun(x)'
      BY <1>5, <1>6, <2>1, <2>2 DEF Versioned, VersionOf
    <3>3. (Versioned(caller[c].rec) /\ Past(caller[c].rec))'
      BY <1>2, <1>6, <2>2 DEF Versioned, Past
    <3> QED BY <1>2, <2>2, <3>1, <3>2, <3>3 DEF Entitled
  <2>3. CASE q.pc = "settleAppend"
    <3>1. Begun(x)'
      BY <1>5, <2>1, <2>3
    <3>2. (Versioned(caller[c].rec) /\ Past(caller[c].rec))'
      BY <1>2, <1>6, <2>3 DEF Versioned, Past
    <3> QED BY <1>2, <1>6, <2>3, <3>1, <3>2 DEF Entitled
  <2>4. CASE q.pc = "record"
    <3>1. Begun(x)'
      BY <1>1, <2>1, <2>4 DEF Entitled, Holding
    <3> QED BY <1>2, <2>4, <3>1 DEF Entitled
  <2>5. CASE q.pc = "get"
    BY <1>2, <2>5 DEF Entitled, Holding
  <2> QED BY <2>2, <2>3, <2>4, <2>5
<1>9. \A e \in receipts' : e \in receipts \/ e.by = x
  BY DEF Transition
<1>10. AuditInv'
  <2> DEFINE As == {x}
  <2>1. /\ \A a \in As : Acted(a) \/ Fresh(a)
        /\ \A a, b \in As : a = b
        /\ \A e \in receipts' : e \in receipts \/ e.by \in As
        /\ \A i \in DOMAIN log' : i \in DOMAIN log /\ log'[i] = log[i]
        /\ \A d \in Callers : caller'[d].pc \in Holding => caller[d].pc \in Holding \/ ExecutionOf[d] \in As
        /\ \A d \in Callers : caller'[d] = caller[d] \/ Entitled(caller[d], ExecutionOf[d])'
    BY <1>2, <1>7, <1>8, <1>9
  <2> HIDE DEF As
  <2> QED BY <1>6, <2>1, AuditStep
<1> QED BY <1>6, <1>10

\* The event a request appends, whatever it is told of it.
LEMMA AppendKeepsAudit ==
  ASSUME VersionInv, VersionInv', AuditInv, NEW c \in Callers,
         caller[c].pc \in {"append", "settleAppend"},
         AppendEvent(ExecutionOf[c], caller[c].rec),
         UNCHANGED <<proposal, receipts, review, effects>>,
         NEW q, caller' = [caller EXCEPT ![c] = q],
         \/ q.pc \in {"get", "reuse"}
         \/ q.pc = "admit" /\ caller[c].rec.status = "executing"
         \/ q.pc = "record" /\ caller[c].pc = "settleAppend"
  PROVE  AuditInv' /\ Grows
<1> DEFINE x == ExecutionOf[c]
           me == caller[c]
           e == [by |-> x, status |-> me.rec.status, version |-> me.rec.version]
<1>1. /\ x \in Executions /\ x \notin Reviewers
      /\ me \in Caller /\ Held(me) /\ Entitled(me, x) /\ me.rec \in Proposal
  BY RequestsAssumption DEF VersionInv, Requests, AuditInv, Caller
<1>2. caller'[c] = q /\ \A d \in Callers : d # c => caller'[d] = caller[d]
  BY DEF VersionInv
<1>3. Acted(x)
  BY DEF Acted, Holding
<1>4. Genuine(e) /\ Past(me.rec)
  BY <1>1 DEF Genuine, Entitled, Versioned, Held
<1>5. me.rec.version = 4 => Begun(x)
  BY <1>1 DEF Entitled, Holding
<1>6. \E i \in DOMAIN log : Confirmation(log[i])
  <2>1. CASE me.pc = "append"
    BY <1>1, <2>1 DEF Entitled
  <2>2. CASE me.pc = "settleAppend"
    <3>1. PICK j \in DOMAIN log : log[j].by = x
      BY <1>1, <2>2 DEF Entitled, Holding, Begun, Logged
    <3> QED BY <1>1, <3>1 DEF AuditInv, StoryOK
  <2> QED BY <2>1, <2>2
<1>7. StoryOK' /\ Grows
  <2> HIDE DEF me
  <2> QED BY <1>1, <1>3, <1>4, <1>5, <1>6, StoryAppends DEF AuditInv, me
<1>8. e \in Entry /\ log \in Seq(Entry)
  BY <1>1 DEF Entry, Proposal, VersionInv, StoresOK
<1>9. /\ \A i \in DOMAIN log' : (i \in DOMAIN log /\ log'[i] = log[i]) \/ log'[i] = e
      /\ \E i \in DOMAIN log' : log'[i].by = x /\ log'[i].status = me.rec.status
  BY <1>8, AppendedEntry DEF Logged
<1>10. Entitled(caller[c], x)'
  <2>1. Begun(x) => Begun(x)'
    BY <1>7, GrowthKeeps
  <2>2. CASE q.pc \in {"get", "reuse"}
    BY <1>2, <2>2 DEF Entitled, Holding
  <2>3. CASE q.pc = "admit" /\ me.rec.status = "executing"
    <3>1. Begun(x)'
      BY <1>9, <2>3 DEF Begun, Logged
    <3> QED BY <1>2, <2>3, <3>1 DEF Entitled
  <2>4. CASE q.pc = "record" /\ me.pc = "settleAppend"
    <3>1. Begun(x)'
      BY <1>1, <2>1, <2>4 DEF Entitled, Holding
    <3> QED BY <1>2, <2>4, <3>1 DEF Entitled
  <2> QED BY <2>2, <2>3, <2>4
<1>11. AuditInv'
  <2> DEFINE As == {x}
  <2>1. /\ \A a \in As : Acted(a) \/ Fresh(a)
        /\ \A a, b \in As : a = b
        /\ \A i \in DOMAIN log' : (i \in DOMAIN log /\ log'[i] = log[i]) \/ log'[i].by \in As
        /\ \A d \in Callers : caller'[d].pc \in Holding => caller[d].pc \in Holding \/ ExecutionOf[d] \in As
        /\ \A d \in Callers : caller'[d] = caller[d] \/ Entitled(caller[d], ExecutionOf[d])'
    BY <1>2, <1>3, <1>9, <1>10
  <2> HIDE DEF As
  <2> QED BY <1>7, <2>1, AuditStep
<1> QED BY <1>7, <1>11

\* The steps of the decision coordinator.
LEMMA DecisionsKeepAudit ==
  ASSUME VersionInv, VersionInv', AuditInv, NEW r \in Reviewers, Deciding(r) \/ DecideFails(r)
  PROVE  AuditInv' /\ Grows
<1> DEFINE As == {r}
<1>1. /\ r \notin Executions /\ proposal.version \in 1..4
      /\ Decision(r) \in {"confirmed", "rejected"} /\ VersionOf(Decision(r)) = 2
      /\ review' \in [Reviewers -> {"open", "append", "accepted", "refused"}]
      /\ review \in [Reviewers -> {"open", "append", "accepted", "refused"}]
  BY RequestsAssumption DEF VersionInv, StoresOK, RestOK, Proposal, Decision, VersionOf
<1>2. \A s \in Reviewers : review'[s] = review[s] \/ s \in As
  BY <1>1 DEF Deciding, Decide, DecideRefused, DecideAppend, DecideFails
<1>3. UNCHANGED <<caller, effects>> /\ \A a, b \in As : a = b
  BY DEF Deciding, Decide, DecideRefused, DecideAppend, DecideFails
<1>4. CASE Decide(r)
  <2>1. StoryOK' /\ Grows
    BY <1>1, <1>4, StoryTransits DEF Decide, AuditInv, Statuses
  <2>2. \A a \in As : Acted(a) \/ Fresh(a)
    <3>1. CASE Retained(r, Decision(r)) # {}
      BY <3>1 DEF Retained, Acted
    <3>2. CASE Retained(r, Decision(r)) = {}
      BY <1>4, <3>2 DEF Decide, Accepts, Transition, Fresh
    <3> QED BY <3>1, <3>2
  <2>3. \A e \in receipts' : e \in receipts \/ e.by \in As
    BY <1>4 DEF Decide, Transition
  <2> HIDE DEF As
  <2> QED BY <1>2, <1>3, <1>4, <2>1, <2>2, <2>3, AuditStep DEF Decide
<1>5. CASE UNCHANGED <<proposal, receipts, log>> /\ review'[r] \in {"open", "refused"}
  <2>1. StoryOK' /\ Grows
    BY <1>1, <1>5 DEF AuditInv, StoryOK, Genuine, Versioned, Past, Begun, Logged, Confirmation, Grows
  <2>2. \A s \in Reviewers : review'[s] = review[s] \/ review'[s] \in {"open", "refused"}
    BY <1>2, <1>5
  <2> DEFINE Nobody == {}
  <2>3. \A a \in Nobody : FALSE
    OBVIOUS
  <2> HIDE DEF Nobody
  <2> QED BY <1>3, <1>5, <2>1, <2>2, <2>3, AuditStep
<1>6. CASE /\ review[r] = "append" /\ AppendEvent(r, Decided(r))
           /\ UNCHANGED <<proposal, receipts>>
  <2> DEFINE e == [by |-> r, status |-> Decided(r).status, version |-> Decided(r).version]
  <2>1. Decided(r) \in Proposal /\ Decided(r).version = 2 /\ Decided(r).status = Decision(r)
    BY <1>1 DEF Decided, ConfirmedVersion, Proposal, Statuses
  <2>2. Acted(r)
    BY <1>6 DEF Acted
  <2>3. Genuine(e) /\ Past(Decided(r))
    BY <1>1, <2>1, <2>2 DEF Genuine, Versioned, Past, AuditInv, ActedOnce
  <2>4. StoryOK' /\ Grows
    BY <1>1, <1>6, <2>1, <2>2, <2>3, StoryAppends DEF AuditInv
  <2>5. \A i \in DOMAIN log' : (i \in DOMAIN log /\ log'[i] = log[i]) \/ log'[i].by \in As
    <3>1. e \in Entry /\ log \in Seq(Entry)
      BY <2>1 DEF Entry, Proposal, VersionInv, StoresOK
    <3> QED BY <1>6, <3>1, AppendedEntry
  <2>6. \A a \in As : Acted(a)
    BY <2>2
  <2> HIDE DEF As
  <2> QED BY <1>2, <1>3, <1>6, <2>4, <2>5, <2>6, AuditStep
<1> QED BY <1>1, <1>4, <1>5, <1>6 DEF Deciding, DecideRefused, DecideAppend, DecideFails

\* The steps of a request.
LEMMA ExecutingKeepsAudit ==
  ASSUME VersionInv, VersionInv', AuditInv, NEW c \in Callers, Executing(c)
  PROVE  AuditInv' /\ Grows
<1> DEFINE x == ExecutionOf[c]
           me == caller[c]
<1>1. me \in Caller /\ Held(me) /\ Entitled(me, x) /\ x \in Executions
  BY RequestsAssumption DEF VersionInv, Requests, AuditInv
<1>2. CASE Get(c)
  <2> DEFINE q == [pc |-> "audit", rec |-> proposal, recorded |-> FALSE, answer |-> "none"]
  <2>1. Entitled(q, x) /\ q.pc \notin Holding
    BY DEF Entitled, Holding, Past, VersionInv, StoresOK, Proposal
  <2> QED BY <1>2, <2>1, QuietKeepsAudit DEF Get
<1>3. CASE Audit(c)
  <2>1. CASE Confirmed(c) /\ caller' = [caller EXCEPT ![c].pc = "claim"]
    <3>1. PICK i \in DOMAIN log : log[i].status = "confirmed"
      BY <2>1 DEF Confirmed
    <3>2. log[i] \in Entry /\ Genuine(log[i])
      BY DEF VersionInv, StoresOK, AuditInv, StoryOK
    <3>3. Confirmation(log[i])
      BY <3>1, <3>2 DEF Entry, Genuine, Decision, Confirmation
    <3>4. [me EXCEPT !.pc = "claim"].pc \notin Holding /\ Entitled([me EXCEPT !.pc = "claim"], x)
      BY <1>1, <1>3, <3>3 DEF Entitled, Holding, Caller, Audit
    <3> QED BY <1>3, <2>1, <3>4, QuietKeepsAudit DEF Audit
  <2>2. CASE caller' = [caller EXCEPT ![c].pc = "reuse"]
    <3>1. [me EXCEPT !.pc = "reuse"].pc \notin Holding /\ Entitled([me EXCEPT !.pc = "reuse"], x)
      BY <1>1 DEF Entitled, Holding, Caller
    <3> QED BY <1>3, <2>2, <3>1, QuietKeepsAudit DEF Audit
  <2>3. CASE Ends(c, "error")
    BY <1>3, <2>3, EndsKeepsAudit DEF Audit
  <2> QED BY <1>3, <2>1, <2>2, <2>3 DEF Audit
<1>4. CASE Claim(c)
  <2> DEFINE q == [me EXCEPT !.pc = "append", !.rec = Result(x, Target(c))]
  <2>1. Target(c) \in {"executing", "executed", "failed"} /\ Expected(c) = VersionOf(Target(c)) - 1
    BY <1>1, <1>4 DEF Claim, Held, Target, Expected, ConfirmedVersion, VersionOf, Caller, Proposal, Statuses
  <2>2. q.pc = "append" /\ q.rec = Result(x, Target(c)) /\ caller' = [caller EXCEPT ![c] = q]
    BY <1>1, <1>4 DEF Claim, Caller
  <2>3. /\ me.pc = "claim" /\ Accepts(x, Target(c), VersionOf(Target(c)) - 1)
        /\ Transition(x, Target(c)) /\ UNCHANGED <<log, review, effects>>
    BY <1>4, <2>1 DEF Claim
  <2> HIDE DEF q
  <2> QED BY <2>1, <2>2, <2>3, TransitKeepsAudit
<1>5. CASE ClaimRefused(c)
  BY <1>5, EndsKeepsAudit DEF ClaimRefused
<1>6. CASE ClaimAppend(c)
  <2>1. CASE Ends(c, "error")
    <3>1. Idle("error").pc = "get"
      BY DEF Idle
    <3> QED BY <1>6, <2>1, <3>1, AppendKeepsAudit DEF ClaimAppend, Ends
  <2>2. CASE ~Ends(c, "error")
    <3> DEFINE q == [me EXCEPT !.pc = IF me.rec.status = "executing" THEN "admit" ELSE "reuse"]
    <3>1. q.pc = "reuse" \/ (q.pc = "admit" /\ me.rec.status = "executing")
      BY <1>1 DEF Caller
    <3>2. caller' = [caller EXCEPT ![c] = q]
      BY <1>6, <2>2 DEF ClaimAppend
    <3> HIDE DEF q
    <3> QED BY <1>6, <3>1, <3>2, AppendKeepsAudit DEF ClaimAppend
  <2> QED BY <2>1, <2>2
<1>7. CASE Reuse(c)
  BY <1>7, EndsKeepsAudit DEF Reuse
<1>8. CASE Admit(c)
  <2>1. CASE caller' = [caller EXCEPT ![c].pc = "invoke"]
    <3>1. Entitled([me EXCEPT !.pc = "invoke"], x) /\ me.pc \in Holding
      BY <1>1, <1>8 DEF Entitled, Holding, Caller, Admit
    <3> QED BY <1>8, <2>1, <3>1, QuietKeepsAudit DEF Admit
  <2>2. CASE Ends(c, Answer)
    BY <1>8, <2>2, EndsKeepsAudit DEF Admit
  <2> QED BY <1>8, <2>1, <2>2 DEF Admit
<1>9. CASE Invoke(c)
  <2>1. Entitled([me EXCEPT !.pc = "running"], x) /\ me.pc \in Holding /\ Begun(x)
    BY <1>1, <1>9 DEF Entitled, Holding, Caller, Invoke
  <2> QED BY <1>9, <2>1, QuietKeepsAudit DEF Invoke
<1>10. ASSUME NEW status, Returns(c, status)
       PROVE  AuditInv' /\ Grows
  <2> DEFINE q == [me EXCEPT !.pc = "settle", !.rec = [me.rec EXCEPT !.status = status]]
  <2>1. Entitled(q, x) /\ me.pc \in Holding
    BY <1>1, <1>10 DEF Entitled, Holding, Caller, Returns
  <2>2. caller' = [caller EXCEPT ![c] = q]
    BY <1>10 DEF Returns
  <2> HIDE DEF q
  <2> QED BY <1>10, <2>1, <2>2, QuietKeepsAudit DEF Returns
<1>11. CASE Settle(c)
  <2> DEFINE to == me.rec.status
             q == [me EXCEPT !.pc = "settleAppend", !.rec = Result(x, to)]
  <2>1. to \in {"executed", "failed"} /\ me.rec.version = VersionOf(to) - 1
    BY <1>1, <1>11 DEF Settle, Held, VersionOf
  <2>2. CASE Accepts(x, to, me.rec.version)
    <3>1. q.pc = "settleAppend" /\ q.rec = Result(x, to) /\ caller' = [caller EXCEPT ![c] = q]
      BY <1>1, <1>11, <2>2 DEF Settle, Caller
    <3>2. /\ me.pc = "settle" /\ Accepts(x, to, VersionOf(to) - 1)
          /\ Transition(x, to) /\ UNCHANGED <<log, review, effects>>
      BY <1>11, <2>1, <2>2 DEF Settle
    <3> HIDE DEF q, to
    <3>3. to \in {"executing", "executed", "failed"} /\ to # "executing"
      BY <2>1
    <3> QED BY <3>1, <3>2, <3>3, TransitKeepsAudit
  <2>3. CASE ~Accepts(x, to, me.rec.version)
    <3>1. Entitled([me EXCEPT !.pc = "record"], x) /\ me.pc \in Holding
      BY <1>1, <1>11 DEF Entitled, Holding, Caller, Settle
    <3> QED BY <1>11, <2>3, <3>1, QuietKeepsAudit DEF Settle
  <2> QED BY <2>2, <2>3
<1>12. CASE SettleAppend(c)
  <2>1. PICK appended :
          caller' = [caller EXCEPT ![c] = [me EXCEPT !.pc = "record", !.recorded = appended]]
    BY <1>12 DEF SettleAppend
  <2>2. [me EXCEPT !.pc = "record", !.recorded = appended].pc = "record"
    BY <1>1 DEF Caller
  <2> QED BY <1>12, <2>1, <2>2, AppendKeepsAudit DEF SettleAppend
<1>13. CASE Record(c)
  BY <1>13, EndsKeepsAudit DEF Record
<1> QED BY <1>2, <1>3, <1>4, <1>5, <1>6, <1>7, <1>8, <1>9, <1>10, <1>11, <1>12, <1>13 DEF Executing

\* The failures of a request, and of the proposal store's memory.
LEMMA FailuresKeepAudit ==
  ASSUME VersionInv, VersionInv', AuditInv, Faults
  PROVE  AuditInv' /\ Grows
<1>1. CASE Evict
  <2>1. receipts' \subseteq receipts /\ UNCHANGED <<proposal, log, review, caller, effects>>
    BY <1>1 DEF Evict
  <2>2. StoryOK' /\ Grows
    BY <2>1 DEF AuditInv, StoryOK, Genuine, Versioned, Past, Begun, Logged, Confirmation, Grows,
                VersionInv, StoresOK, Proposal
  <2> DEFINE As == {}
  <2>3. \A a \in As : FALSE
    OBVIOUS
  <2> HIDE DEF As
  <2> QED BY <2>1, <2>2, <2>3, AuditStep
<1>2. CASE \E r \in Reviewers : DecideFails(r)
  BY <1>2, DecisionsKeepAudit
<1>3. ASSUME NEW c \in Callers,
             Crash(c) \/ NotInvoked(c) \/ ClaimFails(c) \/ SettleFails(c) \/ RecordFails(c)
      PROVE  AuditInv' /\ Grows
  <2> DEFINE x == ExecutionOf[c]
             me == caller[c]
  <2>1. me \in Caller /\ Held(me) /\ Entitled(me, x) /\ x \in Executions /\ Idle("error").pc = "get"
    BY RequestsAssumption DEF VersionInv, Requests, AuditInv, Idle
  <2>2. CASE Crash(c)
    BY <2>2, EndsKeepsAudit DEF Crash
  <2>3. CASE NotInvoked(c)
    <3> DEFINE q == [me EXCEPT !.pc = "settle", !.rec = [me.rec EXCEPT !.status = "failed"]]
    <3>1. Entitled(q, x) /\ me.pc \in Holding
      BY <2>1, <2>3 DEF Entitled, Holding, Caller, NotInvoked
    <3>2. caller' = [caller EXCEPT ![c] = q]
      BY <2>3 DEF NotInvoked
    <3> HIDE DEF q
    <3> QED BY <2>3, <3>1, <3>2, QuietKeepsAudit DEF NotInvoked
  <2>4. CASE ClaimFails(c)
    <3>1. CASE UNCHANGED <<proposal, receipts, log>>
      BY <2>4, <3>1, EndsKeepsAudit DEF ClaimFails
    <3>2. CASE /\ me.pc = "claim" /\ Accepts(x, Target(c), Expected(c)) /\ Transition(x, Target(c))
               /\ UNCHANGED <<log, ledger>>
      <4>1. Target(c) \in {"executing", "executed", "failed"} /\ Expected(c) = VersionOf(Target(c)) - 1
        BY <2>1, <3>2 DEF Held, Target, Expected, ConfirmedVersion, VersionOf, Caller, Proposal, Statuses
      <4>2. caller' = [caller EXCEPT ![c] = Idle("error")]
        BY <2>4 DEF ClaimFails, Ends
      <4>3. Accepts(x, Target(c), VersionOf(Target(c)) - 1) /\ UNCHANGED <<review, effects>>
        BY <2>4, <3>2, <4>1 DEF ClaimFails
      <4> QED BY <2>1, <3>2, <4>1, <4>2, <4>3, TransitKeepsAudit
    <3>3. CASE me.pc = "append" /\ AppendEvent(x, me.rec) /\ UNCHANGED <<proposal, receipts, ledger>>
      BY <2>1, <2>4, <3>3, AppendKeepsAudit DEF ClaimFails, Ends
    <3> QED BY <2>4, <3>1, <3>2, <3>3 DEF ClaimFails
  <2>5. CASE SettleFails(c)
    <3> DEFINE q == [me EXCEPT !.pc = "record"]
    <3>1. Entitled(q, x) /\ me.pc \in Holding /\ q.pc = "record"
      BY <2>1, <2>5 DEF Entitled, Holding, Caller, SettleFails
    <3>2. caller' = [caller EXCEPT ![c] = q] /\ UNCHANGED <<review, effects>>
      BY <2>5 DEF SettleFails
    <3> HIDE DEF q
    <3>3. CASE UNCHANGED <<proposal, receipts, log>>
      BY <3>1, <3>2, <3>3, QuietKeepsAudit
    <3>4. CASE /\ me.pc = "settle" /\ Accepts(x, me.rec.status, me.rec.version)
               /\ Transition(x, me.rec.status) /\ UNCHANGED log
      <4>1. me.rec.status \in {"executed", "failed"} /\ me.rec.version = VersionOf(me.rec.status) - 1
        BY <2>1, <3>4 DEF Held, VersionOf
      <4>2. Accepts(x, me.rec.status, VersionOf(me.rec.status) - 1)
        BY <3>4, <4>1
      <4> QED BY <3>1, <3>2, <3>4, <4>1, <4>2, TransitKeepsAudit
    <3>5. CASE me.pc = "settleAppend" /\ AppendEvent(x, me.rec) /\ UNCHANGED <<proposal, receipts>>
      BY <3>1, <3>2, <3>5, AppendKeepsAudit
    <3> QED BY <2>5, <3>3, <3>4, <3>5 DEF SettleFails
  <2>6. CASE RecordFails(c)
    BY <2>6, EndsKeepsAudit DEF RecordFails
  <2> QED BY <1>3, <2>2, <2>3, <2>4, <2>5, <2>6
<1> QED BY <1>1, <1>2, <1>3 DEF Faults

LEMMA StepKeepsAudit ==
  ASSUME VersionInv, AuditInv, [Next]_vars
  PROVE  AuditInv' /\ Grows
<1>1. VersionInv'
  BY StepKeepsVersions
<1>2. CASE Next
  BY <1>1, <1>2, DecisionsKeepAudit, ExecutingKeepsAudit, FailuresKeepAudit DEF Next
<1>3. CASE UNCHANGED vars
  <2>1. Grows
    BY <1>3 DEF vars, Grows, VersionInv, StoresOK, Proposal
  <2> QED BY <1>3, <2>1 DEF vars, AuditInv, StoryOK, ActedOnce, Acted, Entitled, Genuine, Versioned,
                            Past, Begun, Logged, Confirmation
<1> QED BY <1>2, <1>3

LEMMA InitAudit ==
  ASSUME Init
  PROVE  AuditInv
<1>1. /\ receipts = {} /\ DOMAIN log = {} /\ proposal.version = 1 /\ effects = 0
      /\ \A r \in Reviewers : review[r] = "open"
      /\ \A c \in Callers : caller[c].pc = "get"
  BY DEF Init, Idle
<1>2. \A a : ~Acted(a)
  BY <1>1 DEF Acted, Holding
<1> QED BY <1>1, <1>2 DEF AuditInv, StoryOK, ActedOnce, Entitled, Holding

\* The tool is invoked only after the confirmation and the start of the execution are in
\* the audit log, in this order, whichever request appended them or repaired the log.
THEOREM AuditPrecedesEffect == Spec => []EffectIsAudited
<1>1. Init => VersionInv /\ AuditInv
  BY InitVersions, InitAudit
<1>2. VersionInv /\ AuditInv /\ [Next]_vars => (VersionInv /\ AuditInv)'
  BY StepKeepsVersions, StepKeepsAudit
<1>3. AuditInv => EffectIsAudited
  <2> SUFFICES ASSUME AuditInv, effects > 0 PROVE EffectIsAudited
    BY DEF EffectIsAudited
  <2>1. PICK x \in Executions : Begun(x)
    BY DEF AuditInv
  <2>2. PICK j \in DOMAIN log : log[j].by = x /\ log[j].status = "executing"
    BY <2>1 DEF Begun, Logged
  <2>3. PICK i \in DOMAIN log : i < j /\ Confirmation(log[i])
    BY <2>2 DEF AuditInv, StoryOK
  <2> QED BY <2>2, <2>3 DEF EffectIsAudited, Confirmation
<1> QED BY <1>1, <1>2, <1>3, PTL DEF Spec

\* The audit log tells one story, in the order of the versions and of one execution,
\* although each event is appended apart from its transition, by any of several requests.
THEOREM OneStory == Spec => []AuditIsLinear
<1>1. Init => VersionInv /\ AuditInv
  BY InitVersions, InitAudit
<1>2. VersionInv /\ AuditInv /\ [Next]_vars => (VersionInv /\ AuditInv)'
  BY StepKeepsVersions, StepKeepsAudit
<1>3. AuditInv => AuditIsLinear
  BY DEF AuditInv, StoryOK, ActedOnce, Acted, AuditIsLinear
<1> QED BY <1>1, <1>2, <1>3, PTL DEF Spec

-----------------------------------------------------------------------------
(* The recorded result *)

\* What the stores know of a success: once true, it stays.
Succeeded == proposal.status = "executed" /\ \E x \in Executions : Logged(x, "executed")

\* What a request r of execution x knows of the tool's result.
Truthful(r, x) ==
  /\ r.pc = "settle" /\ r.rec.status = "executed" => truth = "executed"
  /\ r.recorded =>
       /\ r.pc = "record"
       /\ r.rec.status = "executed" => proposal.status = "executed" /\ Logged(x, "executed")
  /\ r.answer = "success" => Succeeded

\* Nothing is told before the tool returned, and then only what it returned.
TruthInv ==
  /\ ledger = "none" \/ (\E c \in Callers : caller[c].pc \in {"invoke", "running"}) => truth = "none"
  /\ ExecutedIsTrue
  /\ ledger = "success" => Succeeded
  /\ \A c \in Callers : Truthful(caller[c], ExecutionOf[c])

LEMMA SuccessStays ==
  ASSUME VersionInv, VersionInv', Grows
  PROVE  /\ proposal.status = "executed" => proposal'.status = "executed"
         /\ \A x : Logged(x, "executed") => Logged(x, "executed")'
         /\ Succeeded => Succeeded'
<1>1. ASSUME NEW x, Logged(x, "executed")
      PROVE  Logged(x, "executed")'
  BY <1>1 DEF Grows, Logged
<1>2. proposal.status = "executed" => proposal'.status = "executed"
  BY DEF VersionInv, StoresOK, Versioned, VersionOf, Grows
<1> QED BY <1>1, <1>2 DEF Succeeded

\* What is left to show of a request's step: its own record q, and that what it writes is
\* true.
LEMMA TruthStep ==
  ASSUME VersionInv, VersionInv', Grows, OneAdmission, TruthInv,
         NEW c \in Callers, NEW q, caller' = [caller EXCEPT ![c] = q],
         truth' = truth \/ (caller[c].pc = "running" /\ UNCHANGED <<proposal, ledger>>),
         ledger' = "none" => ledger = "none",
         q.pc \in {"invoke", "running"} =>
           truth' = truth /\ (ledger = "none" \/ caller[c].pc \in {"invoke", "running"}),
         proposal'.status = "executed" => proposal.status = "executed" \/ truth' = "executed",
         ledger' = "success" => ledger = "success" \/ Succeeded,
         q.pc = "settle" /\ q.rec.status = "executed" => truth' = "executed",
         q.recorded =>
           /\ q.pc = "record"
           /\ q.rec.status = "executed" =>
                proposal.status = "executed" /\ Logged(ExecutionOf[c], "executed")',
         q.answer = "success" => Succeeded
  PROVE  TruthInv'
<1>1. caller'[c] = q /\ \A d \in Callers : d # c => caller'[d] = caller[d]
  BY DEF VersionInv
<1>2. truth' # truth => Admitted(caller[c]) /\ truth = "none" /\ ledger # "none" /\ UNCHANGED proposal
  <2>1. truth' # truth => Admitted(caller[c]) /\ truth = "none" /\ UNCHANGED proposal
    BY DEF TruthInv, Admitted
  <2> QED BY <2>1 DEF OneAdmission
<1>3. ASSUME NEW d \in Callers, d # c
      PROVE  Truthful(caller[d], ExecutionOf[d])'
  <2>1. Truthful(caller[d], ExecutionOf[d]) /\ caller'[d] = caller[d]
    BY <1>1, <1>3 DEF TruthInv
  <2>2. caller[d].pc = "settle" => truth' = truth
    BY <1>2, <1>3 DEF OneAdmission, Admitted
  <2> QED BY <2>1, <2>2, SuccessStays DEF Truthful
<1>4. Truthful(caller[c], ExecutionOf[c])'
  BY <1>1, SuccessStays DEF Truthful
<1>5. (ledger = "none" \/ (\E d \in Callers : caller[d].pc \in {"invoke", "running"}) => truth = "none")'
  <2>1. CASE truth' = truth
    <3>1. ledger' = "none" => truth' = "none"
      BY <2>1 DEF TruthInv
    <3>2. ASSUME NEW d \in Callers, caller'[d].pc \in {"invoke", "running"}
          PROVE  truth' = "none"
      BY <1>1, <2>1, <3>2 DEF TruthInv
    <3> QED BY <3>1, <3>2
  <2>2. CASE truth' # truth
    <3>1. \A d \in Callers : d # c => caller'[d].pc \notin {"invoke", "running"}
      BY <1>1, <1>2, <2>2 DEF OneAdmission, Admitted
    <3> QED BY <1>1, <1>2, <2>2, <3>1
  <2> QED BY <2>1, <2>2
<1>6. ExecutedIsTrue' /\ (ledger = "success" => Succeeded)'
  <2>1. proposal'.status = "executed" => truth' = "executed"
    BY <1>2 DEF TruthInv, ExecutedIsTrue
  <2>2. ledger' = "success" => Succeeded'
    BY SuccessStays DEF TruthInv
  <2> QED BY <2>1, <2>2 DEF ExecutedIsTrue
<1> QED BY <1>3, <1>4, <1>5, <1>6 DEF TruthInv

\* A step that only moves a request, and not to its end.
LEMMA MoveKeepsTruth ==
  ASSUME VersionInv, VersionInv', Grows, OneAdmission, TruthInv,
         NEW c \in Callers, NEW p, p \notin {"settle", "record"},
         caller' = [caller EXCEPT ![c].pc = p], caller[c].pc # "record",
         UNCHANGED <<truth, proposal>>, ledger' \in {ledger, "admitted"},
         p \in {"invoke", "running"} => ledger = "none" \/ caller[c].pc \in {"invoke", "running"}
  PROVE  TruthInv'
<1> DEFINE q == [caller[c] EXCEPT !.pc = p]
<1>1. /\ caller[c] \in Caller /\ Truthful(caller[c], ExecutionOf[c])
      /\ q.pc = p /\ q.answer = caller[c].answer /\ q.recorded = caller[c].recorded
  BY DEF VersionInv, Requests, Caller, TruthInv
<1>2. ~q.recorded /\ (q.answer = "success" => Succeeded)
  BY <1>1 DEF Truthful
<1>3. caller' = [caller EXCEPT ![c] = q]
  OBVIOUS
<1> HIDE DEF q
<1> QED BY <1>1, <1>2, <1>3, TruthStep

\* A step that ends a request with an answer that is true.
LEMMA EndsKeepsTruth ==
  ASSUME VersionInv, VersionInv', Grows, OneAdmission, TruthInv,
         NEW c \in Callers, NEW a, Ends(c, a), a = "success" => Succeeded,
         UNCHANGED truth, ledger' = "none" => ledger = "none",
         proposal'.status = "executed" => proposal.status = "executed",
         ledger' = "success" => ledger = "success" \/ Succeeded
  PROVE  TruthInv'
<1>1. Idle(a).pc = "get" /\ ~Idle(a).recorded /\ Idle(a).answer = a
  BY DEF Idle
<1> QED BY <1>1, TruthStep DEF Ends

\* A claim makes no proposal executed.
LEMMA ClaimExecutesNothing ==
  ASSUME VersionInv, AuditInv, NEW c \in Callers, caller[c].pc = "claim",
         Accepts(ExecutionOf[c], Target(c), Expected(c)), Transition(ExecutionOf[c], Target(c)),
         proposal'.status = "executed"
  PROVE  proposal.status = "executed"
<1>1. Expected(c) = VersionOf(Target(c)) - 1
  BY DEF VersionInv, Requests, Held, Target, Expected, ConfirmedVersion, VersionOf, Caller, Proposal,
         Statuses
<1>2. CASE Retained(ExecutionOf[c], Target(c)) = {}
  BY <1>1, <1>2, ClaimsAnew DEF Transition
<1>3. CASE Retained(ExecutionOf[c], Target(c)) # {}
  BY <1>3 DEF Transition
<1> QED BY <1>2, <1>3

\* Every step keeps the truth.
LEMMA StepKeepsTruth ==
  ASSUME VersionInv, AuditInv, OneAdmission, TruthInv, [Next]_vars
  PROVE  TruthInv'
<1>1. VersionInv' /\ Grows
  BY StepKeepsVersions, StepKeepsAudit
<1>2. CASE UNCHANGED <<caller, ledger, truth>> /\ (proposal'.status = "executed" => proposal.status = "executed")
  BY <1>1, <1>2, SuccessStays DEF TruthInv, ExecutedIsTrue, Truthful
<1>3. ASSUME NEW c \in Callers,
             Executing(c) \/ Crash(c) \/ NotInvoked(c) \/ ClaimFails(c) \/ SettleFails(c) \/ RecordFails(c)
      PROVE  TruthInv'
  <2> DEFINE x == ExecutionOf[c]
             me == caller[c]
  <2>1. /\ me \in Caller /\ Held(me) /\ Entitled(me, x) /\ Truthful(me, x) /\ x \in Executions
        /\ me.recorded \in BOOLEAN
    BY RequestsAssumption DEF VersionInv, Requests, AuditInv, TruthInv, Caller
  <2>2. (Answer = "success" => Succeeded) /\ Kept(c) \in {"success", "error"}
    BY DEF Answer, Kept, TruthInv
  <2>3. Kept(c) = "success" => Succeeded
    BY <2>1 DEF Kept, Truthful, Succeeded
  <2>4. CASE Get(c)
    <3> DEFINE q == [pc |-> "audit", rec |-> proposal, recorded |-> FALSE, answer |-> "none"]
    <3>1. q.pc = "audit" /\ ~q.recorded /\ q.answer = "none" /\ caller' = [caller EXCEPT ![c] = q]
      BY <2>4 DEF Get
    <3> HIDE DEF q
    <3> QED BY <1>1, <2>4, <3>1, TruthStep DEF Get
  <2>5. CASE Audit(c)
    <3>1. \/ \E p \in {"claim", "reuse"} : caller' = [caller EXCEPT ![c].pc = p]
          \/ Ends(c, "error")
      BY <2>5 DEF Audit
    <3>2. me.pc # "record" /\ UNCHANGED <<proposal, ledger, truth>>
      BY <2>5 DEF Audit
    <3> QED BY <1>1, <3>1, <3>2, MoveKeepsTruth, EndsKeepsTruth
  <2>6. CASE Claim(c)
    <3> DEFINE q == [me EXCEPT !.pc = "append", !.rec = Result(x, Target(c))]
    <3>1. q.pc = "append" /\ q.answer = me.answer /\ q.recorded = me.recorded
      BY <2>1 DEF Caller
    <3>2. caller' = [caller EXCEPT ![c] = q] /\ me.pc = "claim" /\ UNCHANGED <<ledger, truth>>
      BY <2>6 DEF Claim
    <3>3. ~q.recorded /\ (q.answer = "success" => Succeeded)
      BY <2>1, <3>1, <3>2 DEF Truthful
    <3>4. proposal'.status = "executed" => proposal.status = "executed"
      BY <2>6, ClaimExecutesNothing DEF Claim
    <3> HIDE DEF q
    <3> QED BY <1>1, <3>1, <3>2, <3>3, <3>4, TruthStep
  <2>7. CASE ClaimRefused(c)
    BY <1>1, <2>7, EndsKeepsTruth DEF ClaimRefused
  <2>8. CASE ClaimAppend(c)
    <3>1. \/ \E p \in {"admit", "reuse"} : caller' = [caller EXCEPT ![c].pc = p]
          \/ Ends(c, "error")
      BY <2>8 DEF ClaimAppend
    <3>2. me.pc # "record" /\ UNCHANGED <<proposal, ledger, truth>>
      BY <2>8 DEF ClaimAppend
    <3> QED BY <1>1, <3>1, <3>2, MoveKeepsTruth, EndsKeepsTruth
  <2>9. CASE Reuse(c)
    BY <1>1, <2>2, <2>9, EndsKeepsTruth DEF Reuse
  <2>10. CASE Admit(c)
    <3>1. CASE ledger = "none"
      BY <1>1, <2>10, <3>1, MoveKeepsTruth DEF Admit
    <3>2. CASE ledger # "none"
      <4>1. Ends(c, Answer) /\ UNCHANGED <<proposal, ledger, truth>>
        BY <2>10, <3>2 DEF Admit
      <4> QED BY <1>1, <2>2, <4>1, EndsKeepsTruth
    <3> QED BY <3>1, <3>2
  <2>11. CASE Invoke(c)
    <3>1. /\ me.pc = "invoke" /\ caller' = [caller EXCEPT ![c].pc = "running"]
          /\ UNCHANGED <<proposal, ledger, truth>>
      BY <2>11 DEF Invoke
    <3>2. "running" \notin {"settle", "record"} /\ ledger' \in {ledger, "admitted"} /\ me.pc # "record"
      BY <3>1
    <3> QED BY <1>1, <3>1, <3>2, MoveKeepsTruth
  <2>12. ASSUME NEW status \in {"executed", "failed"}, Returns(c, status)
         PROVE  TruthInv'
    <3> DEFINE q == [me EXCEPT !.pc = "settle", !.rec = [me.rec EXCEPT !.status = status]]
    <3>1. q.pc = "settle" /\ q.answer = me.answer /\ q.recorded = me.recorded /\ q.rec.status = status
      BY <2>1 DEF Caller, Proposal
    <3>2. /\ caller' = [caller EXCEPT ![c] = q] /\ me.pc = "running" /\ truth' = status
          /\ UNCHANGED <<proposal, ledger>>
      BY <2>12 DEF Returns
    <3>3. ~q.recorded /\ (q.answer = "success" => Succeeded)
      BY <2>1, <3>1, <3>2 DEF Truthful
    <3> HIDE DEF q
    <3> QED BY <1>1, <3>1, <3>2, <3>3, TruthStep
  <2>13. CASE Settle(c) \/ SettleFails(c)
    <3>1. PICK q : /\ caller' = [caller EXCEPT ![c] = q] /\ q.pc \in {"settleAppend", "record"}
                   /\ q.answer = me.answer /\ q.recorded = me.recorded
      <4>1. CASE caller' = [caller EXCEPT ![c].pc = "record"]
        <5>1. [me EXCEPT !.pc = "record"].pc = "record"
              /\ [me EXCEPT !.pc = "record"].answer = me.answer
              /\ [me EXCEPT !.pc = "record"].recorded = me.recorded
          BY <2>1 DEF Caller
        <5> QED BY <4>1, <5>1
      <4>2. CASE caller' = [caller EXCEPT ![c].pc = "settleAppend", ![c].rec = Result(x, me.rec.status)]
        <5> DEFINE q == [me EXCEPT !.pc = "settleAppend", !.rec = Result(x, me.rec.status)]
        <5>1. q.pc = "settleAppend" /\ q.answer = me.answer /\ q.recorded = me.recorded
          BY <2>1 DEF Caller
        <5>2. caller' = [caller EXCEPT ![c] = q]
          BY <4>2
        <5> HIDE DEF q
        <5> QED BY <5>1, <5>2
      <4> QED BY <2>13, <4>1, <4>2 DEF Settle, SettleFails
    <3>2. me.pc \in {"settle", "settleAppend"} /\ UNCHANGED <<ledger, truth>>
      BY <2>13 DEF Settle, SettleFails
    <3>3. ~q.recorded /\ (q.answer = "success" => Succeeded)
      BY <2>1, <3>1, <3>2 DEF Truthful
    <3>4. proposal'.status = "executed" => proposal.status = "executed" \/ truth' = "executed"
      <4>1. \/ UNCHANGED proposal
            \/ me.pc = "settle" /\ Transition(x, me.rec.status) /\ UNCHANGED truth
        BY <2>13 DEF Settle, SettleFails
      <4> QED BY <2>1, <4>1 DEF Transition, Truthful
    <3> QED BY <1>1, <3>1, <3>2, <3>3, <3>4, TruthStep
  <2>14. CASE SettleAppend(c)
    <3>1. PICK b : caller' = [caller EXCEPT ![c] = [me EXCEPT !.pc = "record", !.recorded = b]]
      BY <2>14 DEF SettleAppend
    <3> DEFINE q == [me EXCEPT !.pc = "record", !.recorded = b]
    <3>2. q.pc = "record" /\ q.answer = me.answer /\ q.rec = me.rec
      BY <2>1 DEF Caller
    <3>3. q.answer = "success" => Succeeded
      BY <2>1, <3>2 DEF Truthful
    <3>4. me.pc = "settleAppend" /\ UNCHANGED <<proposal, ledger, truth>> /\ caller' = [caller EXCEPT ![c] = q]
      BY <2>14, <3>1 DEF SettleAppend
    <3>5. ASSUME me.rec.status = "executed"
          PROVE  proposal.status = "executed" /\ Logged(x, "executed")'
      <4>1. [by |-> x, status |-> me.rec.status, version |-> me.rec.version] \in Entry /\ log \in Seq(Entry)
        BY <2>1 DEF Caller, Proposal, Entry, VersionInv, StoresOK
      <4>2. Logged(x, "executed")'
        BY <2>14, <3>5, <4>1, AppendedEntry DEF SettleAppend
      <4> QED BY <2>1, <3>4, <3>5, <4>2 DEF Entitled, Versioned, VersionOf, Past
    <3> HIDE DEF q
    <3> QED BY <1>1, <3>2, <3>3, <3>4, <3>5, TruthStep
  <2>15. CASE Record(c)
    BY <1>1, <2>2, <2>3, <2>15, EndsKeepsTruth DEF Record
  <2>16. CASE Crash(c)
    BY <1>1, <2>16, EndsKeepsTruth DEF Crash
  <2>17. CASE NotInvoked(c)
    <3> DEFINE q == [me EXCEPT !.pc = "settle", !.rec = [me.rec EXCEPT !.status = "failed"]]
    <3>1. q.pc = "settle" /\ q.answer = me.answer /\ q.recorded = me.recorded /\ q.rec.status = "failed"
      BY <2>1 DEF Caller, Proposal
    <3>2. /\ caller' = [caller EXCEPT ![c] = q] /\ me.pc = "invoke"
          /\ UNCHANGED <<proposal, ledger, truth>>
      BY <2>17 DEF NotInvoked
    <3>3. ~q.recorded /\ (q.answer = "success" => Succeeded)
      BY <2>1, <3>1, <3>2 DEF Truthful
    <3> HIDE DEF q
    <3> QED BY <1>1, <3>1, <3>2, <3>3, TruthStep
  <2>18. CASE ClaimFails(c)
    <3>1. proposal'.status = "executed" => proposal.status = "executed"
      BY <2>18, ClaimExecutesNothing DEF ClaimFails
    <3>2. Ends(c, "error") /\ UNCHANGED truth /\ ledger' \in {ledger, "admitted"}
      BY <2>18 DEF ClaimFails
    <3> QED BY <1>1, <3>1, <3>2, EndsKeepsTruth
  <2>19. CASE RecordFails(c)
    BY <1>1, <2>2, <2>3, <2>19, EndsKeepsTruth DEF RecordFails
  <2> QED BY <1>3, <2>4, <2>5, <2>6, <2>7, <2>8, <2>9, <2>10, <2>11, <2>12, <2>13, <2>14, <2>15,
             <2>16, <2>17, <2>18, <2>19 DEF Executing
<1>4. ASSUME NEW r \in Reviewers, Deciding(r) \/ DecideFails(r)
      PROVE  TruthInv'
  <2>1. proposal'.status \in {proposal.status, "confirmed", "rejected"}
    BY <1>4 DEF Deciding, Decide, DecideRefused, DecideAppend, DecideFails, Transition, Decision
  <2> QED BY <1>2, <1>4, <2>1 DEF Deciding, Decide, DecideRefused, DecideAppend, DecideFails
<1>5. CASE Evict \/ UNCHANGED vars
  BY <1>2, <1>5 DEF Evict, vars
<1> QED BY <1>3, <1>4, <1>5 DEF Next, Faults

LEMMA InitTruth ==
  ASSUME Init
  PROVE  OneAdmission /\ TruthInv
<1>1. ~Admitted(Idle("none"))
  BY DEF Admitted, Idle
<1> QED BY <1>1 DEF Init, OneAdmission, Idle, TruthInv, Truthful, ExecutedIsTrue

LEMMA TruthHolds == Spec => [](VersionInv /\ AuditInv /\ OneAdmission /\ TruthInv)
<1> DEFINE Inv == VersionInv /\ AuditInv /\ OneAdmission /\ TruthInv
<1>1. Init => Inv
  BY InitVersions, InitAudit, InitTruth
<1>2. Inv /\ [Next]_vars => Inv'
  BY StepKeepsVersions, StepKeepsAudit, StepKeepsOneAdmission, StepKeepsTruth
<1> QED BY <1>1, <1>2, PTL DEF Spec

\* What the ledger replays or a request is told as a success was executed, is so in the
\* proposal, and is so in the log: no failure of settle(), of its event or of the ledger's
\* own write, and no repair by another request, makes a result better than it was.
THEOREM SuccessesAreTrue == Spec => []SuccessIsTrue
<1>1. TruthInv => SuccessIsTrue
  BY DEF TruthInv, Truthful, Succeeded, ExecutedIsTrue, SuccessIsTrue
<1> QED BY <1>1, TruthHolds, PTL

\* A proposal is recorded as executed only if the execution that invoked the tool saw it
\* return, whichever of the racing or recovering requests settles it.
THEOREM ExecutionsAreTrue == Spec => []ExecutedIsTrue
<1>1. TruthInv => ExecutedIsTrue
  BY DEF TruthInv
<1> QED BY <1>1, TruthHolds, PTL

=============================================================================
