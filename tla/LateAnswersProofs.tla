------------------------- MODULE LateAnswersProofs ---------------------------
(* Theorems about ProviderOperation, UsageOutbox and PresenceController, which *)
(* take answers that may come late or not at all: for any number of runs,      *)
(* processes, receipts, conversations, faults and retries.  They share no      *)
(* state.                                                                      *)
EXTENDS ProviderOperation, UsageOutbox, PresenceController, SequenceTheorems, TLAPS

-----------------------------------------------------------------------------
(* Provider operations: the inductive invariant *)

\* Runs that may still call the provider, or have called it.
Granted(r) ==
  r \in dispatched \/ operationRun[r].pc \in {"execute", "complete", "repair"}

\* The claim is what makes the dispatch unique: whoever is past it is alone, and the
\* record that it wrote is there for good.
ClaimIsExclusive ==
  /\ \A r, q \in OperationRuns : Granted(r) /\ Granted(q) => r = q
  /\ \A r \in OperationRuns : Granted(r) => operation # NoOperation

\* A result, wherever it is, is that of a run that called the provider.
ResultIsDispatched ==
  /\ \A r \in OperationRuns :
       operationRun[r].pc \in {"complete", "repair"} => r \in dispatched
  /\ \A w \in lateWrites : w.status = "completed" => w.run \in dispatched
  /\ operation # NoOperation /\ operation.status = "completed" =>
       operation.result \in dispatched

\* The inductive invariant behind DispatchedOnce.
OperationInv ==
  OperationTypeOK /\ ClaimIsExclusive /\ ResultIsDispatched /\ DispatchedOnce

-----------------------------------------------------------------------------

\* What a run reads of a record is an error, or the result of the one dispatch.
LEMMA CompletedAnswers ==
  ASSUME OperationInv, operation # NoOperation, NEW r \in OperationRuns
  PROVE  /\ Completed(r) \in OperationRuns \cup Errors
         /\ Completed(r) \in OperationRuns =>
              Completed(r) \in dispatched /\ operation.status = "completed"
  <1>1. /\ operation \in Operation
        /\ operation.status \in {"started", "completed", "purged"}
        /\ dispatched \subseteq OperationRuns
    BY DEF OperationInv, OperationTypeOK, Operation
  <1>2. OperationRuns \cap Errors = {}
    BY RunsAssumption
  <1>3. CASE operation.fingerprint # Fingerprint[r]
    BY <1>2, <1>3 DEF Completed, Errors
  <1>4. CASE operation.fingerprint = Fingerprint[r]
    BY <1>1, <1>2, <1>4 DEF Completed, Errors, OperationInv, ResultIsDispatched
  <1> QED BY <1>3, <1>4

\* What compareAndSetDocument() writes is a record.
LEMMA WriteIsRecord ==
  ASSUME NEW r \in OperationRuns, NEW status \in {"started", "completed"}, Write(r, status)
  PROVE  /\ operation' \in Operation /\ operation' # NoOperation
         /\ operation'.status = status
         /\ status = "completed" => operation'.result = r
  BY RecordAssumption DEF Write, Operation

\* The invariant is inductive.
LEMMA OperationStep ==
  ASSUME OperationInv, [OperationNext]_operationVars
  PROVE  OperationInv'
  <1> USE OperationAssumption, RunsAssumption
  <1>0. /\ OperationTypeOK /\ ClaimIsExclusive /\ ResultIsDispatched /\ DispatchedOnce
        /\ OperationRuns \cap Errors = {} /\ "nothing" \notin OperationRuns
    BY DEF OperationInv
  <1>1. ASSUME NEW r \in OperationRuns, ReadOperation(r) PROVE OperationInv'
    <2>1. operation # NoOperation => /\ Completed(r) \in OperationRuns \cup Errors
                                     /\ Completed(r) \in OperationRuns =>
                                          Completed(r) \in dispatched
                                          /\ operation.status = "completed"
      BY CompletedAnswers
    <2>2. OperationTypeOK'
      BY <1>0, <1>1, <2>1
      DEF ReadOperation, At, Tell, GoTo, OperationTypeOK, Errors
    <2>3. ClaimIsExclusive' /\ ResultIsDispatched'
      BY <1>0, <1>1
      DEF ReadOperation, At, Tell, GoTo, OperationTypeOK, ClaimIsExclusive, Granted,
          ResultIsDispatched
    <2>4. DispatchedOnce'
      BY <1>0, <1>1, <2>1
      DEF ReadOperation, At, Tell, GoTo, OperationTypeOK, DispatchedOnce, Errors
    <2> QED BY <2>2, <2>3, <2>4 DEF OperationInv
  <1>2. ASSUME NEW r \in OperationRuns, Claim(r) PROVE OperationInv'
    <2>1. CASE Accepts("started") /\ Write(r, "started") /\ GoTo(r, "execute")
               /\ UNCHANGED <<lateWrites, operationFaults, conversationDeleted, dispatched>>
      <3>1. /\ operation = NoOperation /\ operation' \in Operation
            /\ operation' # NoOperation /\ operation'.status = "started"
        BY <2>1, WriteIsRecord DEF Accepts
      <3>2. OperationTypeOK'
        BY <1>0, <2>1, <3>1 DEF GoTo, OperationTypeOK
      <3>3. \A q \in OperationRuns : ~Granted(q)
        BY <1>0, <3>1 DEF ClaimIsExclusive
      <3>4. ClaimIsExclusive' /\ ResultIsDispatched'
        BY <1>0, <2>1, <3>1, <3>3
        DEF GoTo, OperationTypeOK, ClaimIsExclusive, Granted, ResultIsDispatched
      <3>5. DispatchedOnce'
        BY <1>0, <2>1, <3>1, <3>3 DEF GoTo, OperationTypeOK, DispatchedOnce
      <3> QED BY <3>2, <3>4, <3>5 DEF OperationInv
    <2>2. CASE operation # NoOperation /\ GoTo(r, "reread")
               /\ UNCHANGED <<operation, lateWrites, operationFaults, conversationDeleted, dispatched>>
      BY <1>0, <1>2, <2>2
      DEF Claim, At, GoTo, OperationInv, OperationTypeOK, ClaimIsExclusive, Granted,
          ResultIsDispatched, DispatchedOnce
    <2>3. CASE conversationDeleted /\ Tell(r, "error")
               /\ UNCHANGED <<operation, lateWrites, operationFaults, conversationDeleted, dispatched>>
      BY <1>0, <1>2, <2>3
      DEF Tell, OperationInv, OperationTypeOK, ClaimIsExclusive, Granted,
          ResultIsDispatched, DispatchedOnce, Errors
    <2>4. CASE LoseAnswer(r, "started") /\ Tell(r, "error")
               /\ UNCHANGED <<conversationDeleted, dispatched>>
      <3>1. \/ /\ operation = NoOperation /\ operation' \in Operation
               /\ operation' # NoOperation /\ operation'.status = "started"
               /\ UNCHANGED lateWrites
            \/ /\ lateWrites' = lateWrites \cup {[run |-> r, status |-> "started"]}
               /\ UNCHANGED operation
        BY <2>4, WriteIsRecord DEF LoseAnswer, Accepts
      <3>2. OperationTypeOK'
        BY <1>0, <2>4, <3>1 DEF LoseAnswer, Tell, OperationTypeOK, Errors
      <3>3. ClaimIsExclusive' /\ ResultIsDispatched'
        BY <1>0, <2>4, <3>1
        DEF Tell, OperationTypeOK, ClaimIsExclusive, Granted, ResultIsDispatched
      <3>4. DispatchedOnce'
        BY <1>0, <2>4, <3>1 DEF Tell, OperationTypeOK, DispatchedOnce, Errors
      <3> QED BY <3>2, <3>3, <3>4 DEF OperationInv
    <2> QED BY <1>2, <2>1, <2>2, <2>3, <2>4 DEF Claim
  <1>3. ASSUME NEW r \in OperationRuns, ReadWinner(r) PROVE OperationInv'
    <2>1. operation # NoOperation => /\ Completed(r) \in OperationRuns \cup Errors
                                     /\ Completed(r) \in OperationRuns =>
                                          Completed(r) \in dispatched
                                          /\ operation.status = "completed"
      BY CompletedAnswers
    <2>2. PICK what \in OperationRuns \cup Errors :
            /\ Tell(r, what)
            /\ what \in OperationRuns =>
                 operation # NoOperation /\ what \in dispatched /\ operation.status = "completed"
      BY <1>0, <1>3, <2>1 DEF ReadWinner, Errors
    <2> QED
      BY <1>0, <1>3, <2>2
      DEF ReadWinner, At, Tell, OperationInv, OperationTypeOK, ClaimIsExclusive, Granted,
          ResultIsDispatched, DispatchedOnce
  <1>4. ASSUME NEW r \in OperationRuns, Execute(r) PROVE OperationInv'
    BY <1>0, <1>4
    DEF Execute, At, Tell, GoTo, OperationInv, OperationTypeOK, ClaimIsExclusive, Granted,
        ResultIsDispatched, DispatchedOnce, Errors
  <1>5. ASSUME NEW r \in OperationRuns, Complete(r) PROVE OperationInv'
    <2>0. r \in dispatched /\ operation # NoOperation
      BY <1>0, <1>5 DEF Complete, At, ResultIsDispatched, ClaimIsExclusive, Granted
    <2>1. CASE Write(r, "completed") /\ Tell(r, r)
               /\ UNCHANGED <<lateWrites, operationFaults, conversationDeleted, dispatched>>
      <3>1. /\ operation' \in Operation /\ operation' # NoOperation
            /\ operation'.status = "completed" /\ operation'.result = r
        BY <2>1, WriteIsRecord
      <3> QED
        BY <1>0, <2>0, <2>1, <3>1
        DEF Tell, OperationInv, OperationTypeOK, ClaimIsExclusive, Granted,
            ResultIsDispatched, DispatchedOnce
    <2>2. CASE GoTo(r, "repair")
               /\ UNCHANGED <<operation, lateWrites, operationFaults, conversationDeleted, dispatched>>
      BY <1>0, <1>5, <2>0, <2>2
      DEF GoTo, OperationInv, OperationTypeOK, ClaimIsExclusive, Granted,
          ResultIsDispatched, DispatchedOnce
    <2>3. CASE LoseAnswer(r, "completed") /\ GoTo(r, "repair")
               /\ UNCHANGED <<conversationDeleted, dispatched>>
      <3>1. \/ /\ operation' \in Operation /\ operation' # NoOperation
               /\ operation'.status = "completed" /\ operation'.result = r
               /\ UNCHANGED lateWrites
            \/ /\ lateWrites' = lateWrites \cup {[run |-> r, status |-> "completed"]}
               /\ UNCHANGED operation
        BY <2>3, WriteIsRecord DEF LoseAnswer
      <3>2. OperationTypeOK'
        BY <1>0, <2>3, <3>1 DEF LoseAnswer, GoTo, OperationTypeOK
      <3>3. ClaimIsExclusive' /\ ResultIsDispatched'
        BY <1>0, <2>0, <2>3, <3>1
        DEF GoTo, OperationTypeOK, ClaimIsExclusive, Granted, ResultIsDispatched
      <3>4. DispatchedOnce'
        BY <1>0, <2>0, <2>3, <3>1 DEF GoTo, OperationTypeOK, DispatchedOnce
      <3> QED BY <3>2, <3>3, <3>4 DEF OperationInv
    <2> QED BY <1>5, <2>1, <2>2, <2>3 DEF Complete
  <1>6. ASSUME NEW r \in OperationRuns, Repair(r) PROVE OperationInv'
    <2>1. operation # NoOperation => /\ Completed(r) \in OperationRuns \cup Errors
                                     /\ Completed(r) \in OperationRuns =>
                                          Completed(r) \in dispatched
                                          /\ operation.status = "completed"
      BY CompletedAnswers
    <2>2. PICK what \in OperationRuns \cup Errors :
            /\ Tell(r, what)
            /\ what \in OperationRuns =>
                 operation # NoOperation /\ what \in dispatched /\ operation.status = "completed"
      BY <1>0, <1>6, <2>1 DEF Repair, Errors
    <2> QED
      BY <1>0, <1>6, <2>2
      DEF Repair, At, Tell, OperationInv, OperationTypeOK, ClaimIsExclusive, Granted,
          ResultIsDispatched, DispatchedOnce
  <1>7. ASSUME NEW r \in OperationRuns, Abandon(r) PROVE OperationInv'
    BY <1>0, <1>7
    DEF Abandon, At, Tell, OperationInv, OperationTypeOK, ClaimIsExclusive, Granted,
        ResultIsDispatched, DispatchedOnce, Errors
  <1>8. ASSUME NEW w \in lateWrites, LateWrite(w) PROVE OperationInv'
    <2>0. w.run \in OperationRuns /\ w.status \in {"started", "completed"}
      BY <1>0 DEF OperationTypeOK
    <2>1. CASE UNCHANGED operation
      BY <1>0, <1>8, <2>1
      DEF LateWrite, OperationInv, OperationTypeOK, ClaimIsExclusive, Granted,
          ResultIsDispatched, DispatchedOnce
    <2>2. CASE Accepts(w.status) /\ Write(w.run, w.status)
      <3>1. /\ operation' \in Operation /\ operation' # NoOperation
            /\ operation'.status = w.status
            /\ w.status = "completed" => operation'.result = w.run /\ w.run \in dispatched
            /\ w.status = "started" => operation = NoOperation
        BY <1>0, <2>0, <2>2, WriteIsRecord DEF Accepts, ResultIsDispatched
      <3>2. OperationTypeOK'
        BY <1>0, <1>8, <3>1 DEF LateWrite, OperationTypeOK
      <3>3. ClaimIsExclusive' /\ ResultIsDispatched'
        BY <1>0, <1>8, <2>0, <3>1
        DEF LateWrite, OperationTypeOK, ClaimIsExclusive, Granted, ResultIsDispatched
      <3>4. DispatchedOnce'
        BY <1>0, <1>8, <2>0, <3>1 DEF LateWrite, OperationTypeOK, DispatchedOnce
      <3> QED BY <3>2, <3>3, <3>4 DEF OperationInv
    <2> QED BY <1>8, <2>1, <2>2 DEF LateWrite
  <1>9. CASE DeleteConversation
    <2>1. \/ UNCHANGED operation
          \/ /\ operation' \in Operation /\ operation' # NoOperation
             /\ operation'.status = "purged" /\ operation # NoOperation
      BY <1>0, <1>9, RecordAssumption DEF DeleteConversation, OperationTypeOK, Operation
    <2>2. OperationTypeOK'
      BY <1>0, <1>9, <2>1 DEF DeleteConversation, OperationTypeOK
    <2>3. ClaimIsExclusive' /\ ResultIsDispatched' /\ DispatchedOnce'
      BY <1>0, <1>9, <2>1
      DEF DeleteConversation, ClaimIsExclusive, Granted, ResultIsDispatched, DispatchedOnce
    <2> QED BY <2>2, <2>3 DEF OperationInv
  <1>10. CASE UNCHANGED operationVars
    BY <1>10
    DEF operationVars, OperationInv, OperationTypeOK, ClaimIsExclusive, Granted,
        ResultIsDispatched, DispatchedOnce
  <1> QED
    BY <1>1, <1>2, <1>3, <1>4, <1>5, <1>6, <1>7, <1>8, <1>9, <1>10 DEF OperationNext

\* run() of the provider operation store calls the provider at most once, and a result
\* that it returns is the saved one of that call, for any runs, lost answers, late
\* commits and deletions.
THEOREM DispatchIsUnique == OperationSpec => []DispatchedOnce
  <1>1. ASSUME OperationInit PROVE OperationInv
    <2>1. /\ operation = NoOperation /\ lateWrites = {} /\ dispatched = {}
          /\ conversationDeleted = FALSE /\ operationFaults = 0
          /\ operationRun = [r \in OperationRuns |-> [pc |-> "read", told |-> "nothing"]]
      BY <1>1 DEF OperationInit
    <2>2. 0 \in 0..MaxOperationFaults
      BY OperationAssumption
    <2>3. OperationTypeOK
      BY <2>1, <2>2 DEF OperationTypeOK
    <2>4. \A r \in OperationRuns :
            operationRun[r].pc = "read" /\ operationRun[r].told = "nothing"
      BY <2>1
    <2>5. ClaimIsExclusive /\ ResultIsDispatched
      BY <2>1, <2>4 DEF ClaimIsExclusive, Granted, ResultIsDispatched
    <2>6. DispatchedOnce
      BY <2>1, <2>4, RunsAssumption DEF DispatchedOnce
    <2> QED BY <2>3, <2>5, <2>6 DEF OperationInv
  <1>2. OperationInv /\ [OperationNext]_operationVars => OperationInv'
    BY OperationStep
  <1>3. OperationInv => DispatchedOnce
    BY DEF OperationInv
  <1> QED BY <1>1, <1>2, <1>3, PTL DEF OperationSpec

-----------------------------------------------------------------------------
(* Usage receipts: the inductive invariant *)

\* What the record of a receipt says has happened.
RecordIsTrue(record, answers) ==
  record # NoReceipt =>
    /\ record.status = "delivered" => "accepted" \in answers
    /\ record.status = "failed" => "refused" \in answers

\* What acknowledge() or failed() is about to write is true, and a version that is still
\* the one it read is not that of a delivered receipt.
FlushInv(k) ==
  /\ k \in Sink /\ k.writes < MaximumWrites
  /\ \A x \in k.entries : outbox[x] # NoReceipt
  /\ k.pc = "settle" => k.seen = 0
  /\ k.pc \in {"acknowledge", "failed"} => k.receipt \in Receipts /\ outbox[k.receipt] # NoReceipt
  /\ k.pc = "acknowledge" => "accepted" \in telemetry[k.receipt]
  /\ k.pc = "failed" /\ ~k.retryable => "refused" \in telemetry[k.receipt]
  /\ k.pc \in {"acknowledge", "failed"} /\ k.seen # 0 =>
       /\ k.seen <= outbox[k.receipt].version
       /\ k.seen = outbox[k.receipt].version => outbox[k.receipt].status # "delivered"

\* The tables of the outbox, and what telemetry knows.
ReceiptsInv ==
  /\ outbox \in [Receipts -> OutboxRecord \cup {NoReceipt}]
  /\ telemetry \in [Receipts -> SUBSET {"accepted", "refused"}]
  /\ captured \subseteq Receipts
  /\ \A x \in Receipts :
       /\ x \in captured => outbox[x] # NoReceipt
       /\ RecordIsTrue(outbox[x], telemetry[x])

OutboxInv ==
  /\ ReceiptsInv
  /\ sink = [s \in Sinks |-> sink[s]] /\ \A s \in Sinks : FlushInv(sink[s])

\* Records are written by the rules: none is lost, a delivered one stays as it is, and one
\* that changes gets a new version; telemetry forgets nothing.
OutboxGrows ==
  /\ \A x \in Receipts :
       /\ outbox[x] # NoReceipt =>
            /\ outbox'[x] # NoReceipt
            /\ outbox'[x] = outbox[x] \/ outbox'[x].version > outbox[x].version
            /\ outbox[x].status = "delivered" => outbox'[x] = outbox[x]
       /\ telemetry[x] \subseteq telemetry'[x]

\* A flush that does nothing is not disturbed.
LEMMA FlushWaits ==
  ASSUME ReceiptsInv, ReceiptsInv', OutboxGrows, NEW k, FlushInv(k)
  PROVE  FlushInv(k)'
<1>1. /\ k \in Sink /\ k.entries \subseteq Receipts /\ k.seen \in Nat
  BY DEF FlushInv, Sink
<1>2. \A x \in k.entries : outbox'[x] # NoReceipt
  BY <1>1 DEF FlushInv, OutboxGrows
<1>3. ASSUME k.pc \in {"acknowledge", "failed"}
      PROVE  /\ k.receipt \in Receipts /\ outbox'[k.receipt] # NoReceipt
             /\ telemetry[k.receipt] \subseteq telemetry'[k.receipt]
             /\ k.seen # 0 =>
                  /\ k.seen <= outbox'[k.receipt].version
                  /\ k.seen = outbox'[k.receipt].version => outbox'[k.receipt].status # "delivered"
  <2>1. k.receipt \in Receipts /\ outbox[k.receipt] # NoReceipt
    BY <1>3 DEF FlushInv
  <2>2. outbox[k.receipt].version \in Nat /\ outbox'[k.receipt].version \in Nat
        /\ outbox'[k.receipt] # NoReceipt /\ telemetry[k.receipt] \subseteq telemetry'[k.receipt]
    BY <2>1 DEF ReceiptsInv, OutboxRecord, OutboxGrows
  <2>3. CASE outbox'[k.receipt] = outbox[k.receipt]
    BY <1>3, <2>1, <2>2, <2>3 DEF FlushInv
  <2>4. CASE outbox'[k.receipt].version > outbox[k.receipt].version
    <3>1. k.seen # 0 => k.seen <= outbox[k.receipt].version
      BY <1>3 DEF FlushInv
    <3> QED BY <1>1, <2>1, <2>2, <2>4, <3>1
  <2> QED BY <2>1, <2>3, <2>4 DEF OutboxGrows
<1> QED BY <1>1, <1>2, <1>3 DEF FlushInv

\* One flush goes on, and the others wait.
LEMMA FlushGoesOn ==
  ASSUME OutboxInv, ReceiptsInv', OutboxGrows, NEW s \in Sinks, NEW k, FlushInv(k)',
         sink' = [sink EXCEPT ![s] = k]
  PROVE  OutboxInv'
<1>1. \A r \in Sinks : sink'[r] = IF r = s THEN k ELSE sink[r]
  BY DEF OutboxInv
<1>2. sink' = [r \in Sinks |-> sink'[r]]
  BY DEF OutboxInv
<1>3. ASSUME NEW r \in Sinks, NEW x, x = sink'[r]
      PROVE  FlushInv(x)'
  <2>1. r # s => FlushInv(x)
    BY <1>1, <1>3 DEF OutboxInv
  <2> QED BY <1>1, <1>3, <2>1, FlushWaits DEF OutboxInv
<1> QED BY <1>2, <1>3 DEF OutboxInv

\* Nothing happens to the tables.
LEMMA TablesStay ==
  ASSUME ReceiptsInv, UNCHANGED <<outbox, captured, telemetry>>
  PROVE  ReceiptsInv' /\ OutboxGrows
BY DEF ReceiptsInv, OutboxGrows

LEMMA RestingIs ==
  ASSUME NEW n \in 0..MaxFlushes
  PROVE  /\ FlushInv(Resting(n)) /\ Resting(n).pc = "idle"
         /\ FlushInv(Resting(n))'
  BY OutboxAssumption DEF FlushInv, Resting, Sink

\* The flush turns to its next entry, or ends.
LEMMA NextEntryIs ==
  ASSUME NEW k \in Sink, \A x \in k.entries : outbox[x] # NoReceipt
  PROVE  FlushInv(NextEntry(k)) /\ FlushInv(AfterFailed(k)) /\ FlushInv(Done(k))
<1>1. k.flushes \in 0..MaxFlushes /\ 0 \in 0..MaximumWrites
  BY OutboxAssumption DEF Sink
<1>2. FlushInv(Resting(k.flushes))
  BY <1>1, RestingIs
<1> DEFINE n == [k EXCEPT !.pc = "settle", !.receipt = NoReceipt, !.seen = 0, !.writes = 0]
<1>3. n \in Sink /\ n.pc = "settle" /\ n.entries = k.entries /\ n.seen = 0 /\ n.writes = 0
  BY <1>1 DEF Sink
<1> HIDE DEF n
<1>4. FlushInv(n)
  BY <1>3, OutboxAssumption DEF FlushInv
<1>5. FlushInv(NextEntry(k))
  BY <1>2, <1>4 DEF NextEntry, n
<1> QED BY <1>2, <1>5 DEF AfterFailed, Done

LEMMA BrokenIs ==
  ASSUME NEW k, FlushInv(k)
  PROVE  FlushInv(Broken(k))
<1>1. k \in Sink /\ k.flushes \in 0..MaxFlushes /\ 0 \in 0..MaximumWrites
  BY OutboxAssumption DEF Sink, FlushInv
<1>2. CASE k.pc = "acknowledge"
  <2> DEFINE n == [k EXCEPT !.pc = "failed", !.seen = 0, !.writes = 0, !.retryable = TRUE]
  <2>1. /\ n \in Sink /\ n.pc = "failed" /\ n.entries = k.entries /\ n.receipt = k.receipt
        /\ n.seen = 0 /\ n.retryable /\ n.writes = 0
    BY <1>1 DEF Sink
  <2>2. Broken(k) = n
    BY <1>2 DEF Broken
  <2> HIDE DEF n
  <2> QED BY <1>2, <2>1, <2>2, OutboxAssumption DEF FlushInv
<1>3. CASE k.pc # "acknowledge"
  BY <1>1, <1>3, RestingIs DEF Broken
<1> QED BY <1>2, <1>3

-----------------------------------------------------------------------------
(* The steps of the outbox *)

LEMMA CaptureKeeps ==
  ASSUME OutboxInv, NEW x \in Receipts, Capture(x)
  PROVE  OutboxInv' /\ OutboxGrows
<1> DEFINE record == [status |-> "pending", version |-> 1, attempts |-> 0]
           stored == IF outbox[x] # NoReceipt THEN outbox ELSE [outbox EXCEPT ![x] = record]
<1>1. /\ \/ outbox' = stored /\ captured' = captured \cup {x}
         \/ outbox' \in {outbox, stored} /\ UNCHANGED captured
      /\ UNCHANGED <<telemetry, sink>>
  BY DEF Capture
<1>2. record \in OutboxRecord /\ record # NoReceipt /\ record.status = "pending"
  BY OutboxRecordAssumption DEF OutboxRecord
<1> HIDE DEF record
<1>3. ReceiptsInv
  BY DEF OutboxInv
<1>4. /\ stored \in [Receipts -> OutboxRecord \cup {NoReceipt}]
      /\ stored[x] # NoReceipt
      /\ \A y \in Receipts : stored[y] = outbox[y] \/ (outbox[y] = NoReceipt /\ stored[y] = record)
  BY <1>2, <1>3 DEF ReceiptsInv
<1> HIDE DEF stored
<1>5. ReceiptsInv'
  BY <1>1, <1>2, <1>3, <1>4 DEF ReceiptsInv, RecordIsTrue
<1>6. OutboxGrows
  BY <1>1, <1>3, <1>4 DEF OutboxGrows, ReceiptsInv
<1>7. ASSUME NEW s \in Sinks, NEW k, k = sink'[s]
      PROVE  FlushInv(k)'
  BY <1>1, <1>3, <1>5, <1>6, <1>7, FlushWaits DEF OutboxInv
<1> QED BY <1>1, <1>5, <1>6, <1>7 DEF OutboxInv

LEMMA FlushKeeps ==
  ASSUME OutboxInv, NEW s \in Sinks, Flush(s)
  PROVE  OutboxInv' /\ OutboxGrows
<1> DEFINE entries == {x \in Receipts : outbox[x] # NoReceipt /\ outbox[x].status = "pending"}
           n == sink[s].flushes + 1
           k == [Resting(n) EXCEPT !.pc = "settle", !.entries = entries]
<1>1. /\ sink' = [sink EXCEPT ![s] = k] /\ sink[s].flushes < MaxFlushes
      /\ UNCHANGED <<outbox, captured, telemetry>>
  BY DEF Flush
<1>2. entries \subseteq Receipts /\ \A x \in entries : outbox[x] # NoReceipt
  OBVIOUS
<1>3. n \in 0..MaxFlushes
  BY <1>1, OutboxAssumption DEF OutboxInv, FlushInv, Sink
<1> HIDE DEF entries, n
<1>4. k \in Sink /\ k.pc = "settle" /\ k.entries = entries /\ k.seen = 0 /\ k.writes = 0
  <2> DEFINE r == Resting(n)
  <2>1. r \in Sink /\ r.seen = 0 /\ r.writes = 0
    BY <1>3, RestingIs DEF FlushInv, Resting
  <2> HIDE DEF r
  <2>2. k = [r EXCEPT !.pc = "settle", !.entries = entries]
    BY DEF r
  <2> QED BY <1>2, <2>1, <2>2 DEF Sink
<1> HIDE DEF k
<1>5. ReceiptsInv' /\ OutboxGrows
  BY <1>1, TablesStay DEF OutboxInv
<1>6. ASSUME NEW j, j = k
      PROVE  FlushInv(j)'
  BY <1>1, <1>2, <1>4, <1>6, OutboxAssumption DEF FlushInv
<1> QED BY <1>1, <1>5, <1>6, FlushGoesOn

\* Telemetry answers, or not, and the flush goes on with what it was told.
LEMMA SettleKeepsOutbox ==
  ASSUME OutboxInv, NEW s \in Sinks, NEW x, SettleReceipt(s, x)
  PROVE  OutboxInv' /\ OutboxGrows
<1> DEFINE k == [sink[s] EXCEPT !.receipt = x, !.entries = sink[s].entries \ {x}]
           yes == [k EXCEPT !.pc = "acknowledge"]
           no == [k EXCEPT !.pc = "failed", !.retryable = FALSE]
           later == [k EXCEPT !.pc = "failed", !.retryable = TRUE]
<1>1. /\ sink[s].pc = "settle" /\ x \in sink[s].entries /\ UNCHANGED <<outbox, captured>>
      /\ \/ /\ telemetry' = [telemetry EXCEPT ![x] = @ \cup {"accepted"}]
            /\ sink' = [sink EXCEPT ![s] = yes]
         \/ /\ telemetry' = [telemetry EXCEPT ![x] = @ \cup {"refused"}]
            /\ sink' = [sink EXCEPT ![s] = no]
         \/ /\ telemetry' \in {telemetry, [telemetry EXCEPT ![x] = @ \cup {"accepted"}]}
            /\ sink' = [sink EXCEPT ![s] = later]
  BY DEF SettleReceipt
<1>2. FlushInv(sink[s]) /\ sink[s] \in Sink /\ x \in Receipts /\ outbox[x] # NoReceipt
  BY <1>1 DEF OutboxInv, FlushInv, Sink
<1>3. /\ k \in Sink /\ k.receipt = x /\ k.entries = sink[s].entries \ {x}
      /\ k.seen = sink[s].seen /\ k.writes = sink[s].writes
  BY <1>2 DEF Sink
<1> HIDE DEF k
<1>4. /\ yes \in Sink /\ yes.pc = "acknowledge" /\ yes.receipt = x
      /\ yes.entries = k.entries /\ yes.seen = k.seen /\ yes.writes = k.writes
  BY <1>3 DEF Sink
<1>5. /\ no \in Sink /\ no.pc = "failed" /\ no.receipt = x /\ no.retryable = FALSE
      /\ no.entries = k.entries /\ no.seen = k.seen /\ no.writes = k.writes
  BY <1>3 DEF Sink
<1>6. /\ later \in Sink /\ later.pc = "failed" /\ later.receipt = x /\ later.retryable = TRUE
      /\ later.entries = k.entries /\ later.seen = k.seen /\ later.writes = k.writes
  BY <1>3 DEF Sink
<1> HIDE DEF yes, no, later
<1>7. ReceiptsInv' /\ OutboxGrows
  BY <1>1, <1>2 DEF OutboxInv, ReceiptsInv, RecordIsTrue, OutboxGrows
<1>8. \A y \in k.entries : outbox'[y] # NoReceipt
  BY <1>1, <1>2, <1>3 DEF FlushInv
<1>9. k.seen = 0 /\ k.writes < MaximumWrites
  BY <1>1, <1>2, <1>3 DEF FlushInv
<1>10. CASE telemetry' = [telemetry EXCEPT ![x] = @ \cup {"accepted"}]
            /\ sink' = [sink EXCEPT ![s] = yes]
  <2>1. "accepted" \in telemetry'[x]
    BY <1>2, <1>10 DEF OutboxInv, ReceiptsInv
  <2>2. ASSUME NEW j, j = yes
        PROVE  FlushInv(j)'
    BY <1>1, <1>2, <1>4, <1>8, <1>9, <2>1, <2>2 DEF FlushInv
  <2> QED BY <1>7, <1>10, <2>2, FlushGoesOn
<1>11. CASE telemetry' = [telemetry EXCEPT ![x] = @ \cup {"refused"}]
            /\ sink' = [sink EXCEPT ![s] = no]
  <2>1. "refused" \in telemetry'[x]
    BY <1>2, <1>11 DEF OutboxInv, ReceiptsInv
  <2>2. ASSUME NEW j, j = no
        PROVE  FlushInv(j)'
    BY <1>1, <1>2, <1>5, <1>8, <1>9, <2>1, <2>2 DEF FlushInv
  <2> QED BY <1>7, <1>11, <2>2, FlushGoesOn
<1>12. CASE sink' = [sink EXCEPT ![s] = later]
  <2>1. ASSUME NEW j, j = later
        PROVE  FlushInv(j)'
    BY <1>1, <1>2, <1>6, <1>8, <1>9, <2>1 DEF FlushInv
  <2> QED BY <1>7, <1>12, <2>1, FlushGoesOn
<1> QED BY <1>1, <1>10, <1>11, <1>12

\* acknowledge() or failed() has read the record, or a flush has ended: the tables stay.
LEMMA ReadKeepsOutbox ==
  ASSUME OutboxInv, NEW s \in Sinks, ReadRecord(s)
  PROVE  OutboxInv' /\ OutboxGrows
<1> DEFINE k == sink[s]
           v == outbox[k.receipt].version
           read == [k EXCEPT !.seen = v]
<1>1. /\ k.pc \in {"acknowledge", "failed"} /\ UNCHANGED <<outbox, captured, telemetry>>
      /\ \/ sink' = [sink EXCEPT ![s] = Done(k)]
         \/ outbox[k.receipt].status # "delivered" /\ sink' = [sink EXCEPT ![s] = read]
  BY DEF ReadRecord
<1>2. FlushInv(k) /\ k \in Sink /\ k.receipt \in Receipts /\ outbox[k.receipt] # NoReceipt
      /\ \A x \in k.entries : outbox[x] # NoReceipt
  BY <1>1 DEF OutboxInv, FlushInv
<1>3. v \in Nat
  BY <1>2 DEF OutboxInv, ReceiptsInv, OutboxRecord
<1>4. ReceiptsInv' /\ OutboxGrows
  BY <1>1, TablesStay DEF OutboxInv
<1>5. CASE sink' = [sink EXCEPT ![s] = Done(k)]
  <2>1. FlushInv(Done(k))
    BY <1>2, NextEntryIs
  <2>2. ASSUME NEW j, j = Done(k)
        PROVE  FlushInv(j)'
    BY <1>4, <2>1, <2>2, FlushWaits DEF OutboxInv
  <2> QED BY <1>4, <1>5, <2>2, FlushGoesOn
<1>6. CASE outbox[k.receipt].status # "delivered" /\ sink' = [sink EXCEPT ![s] = read]
  <2>1. v = outbox[k.receipt].version
    OBVIOUS
  <2> HIDE DEF v
  <2>2. /\ read \in Sink /\ read.seen = v /\ read.pc = k.pc /\ read.receipt = k.receipt
        /\ read.entries = k.entries /\ read.retryable = k.retryable /\ read.writes = k.writes
    BY <1>2, <1>3 DEF Sink
  <2> HIDE DEF read
  <2>3. v <= v
    BY <1>3
  <2>4. FlushInv(read)
    BY <1>1, <1>2, <1>6, <2>1, <2>2, <2>3 DEF FlushInv
  <2>5. ASSUME NEW j, j = read
        PROVE  FlushInv(j)'
    BY <1>4, <2>4, <2>5, FlushWaits DEF OutboxInv
  <2> QED BY <1>4, <1>6, <2>5, FlushGoesOn
<1> QED BY <1>1, <1>5, <1>6

\* acknowledge() or failed() writes the record, or has to read it again, or breaks off.
LEMMA WriteKeepsOutbox ==
  ASSUME OutboxInv, NEW s \in Sinks, WriteRecord(s)
  PROVE  OutboxInv' /\ OutboxGrows
<1> DEFINE k == sink[s]
           current == outbox[k.receipt]
           v == current.version + 1
           n == current.attempts + 1
           w == k.writes + 1
           after == IF k.retryable THEN "pending" ELSE "failed"
           record == IF k.pc = "acknowledge"
                     THEN [current EXCEPT !.status = "delivered", !.version = v]
                     ELSE [status |-> after, version |-> v, attempts |-> n]
           written == [outbox EXCEPT ![k.receipt] = record]
           again == [k EXCEPT !.seen = 0, !.writes = w]
<1>1. /\ k.pc \in {"acknowledge", "failed"} /\ k.seen # 0 /\ UNCHANGED <<captured, telemetry>>
      /\ \/ current.version = k.seen /\ outbox' = written
         \/ outbox' = outbox
      /\ \/ outbox' = written /\ current.version = k.seen /\ sink' = [sink EXCEPT ![s] = Done(k)]
         \/ outbox' = outbox /\ w # MaximumWrites /\ sink' = [sink EXCEPT ![s] = again]
         \/ sink' = [sink EXCEPT ![s] = Broken(k)]
  BY DEF WriteRecord, OutboxFault
<1>2. FlushInv(k) /\ k \in Sink /\ k.receipt \in Receipts /\ current # NoReceipt
      /\ \A x \in k.entries : outbox[x] # NoReceipt
  BY <1>1 DEF OutboxInv, FlushInv
<1>3. current \in OutboxRecord /\ v \in Nat \ {0} /\ n \in Nat /\ v > current.version
  BY <1>2 DEF OutboxInv, ReceiptsInv, OutboxRecord
<1>4. w # MaximumWrites => w \in 0..MaximumWrites /\ w < MaximumWrites
  BY <1>2, OutboxAssumption DEF Sink, FlushInv
<1> HIDE DEF v, n, w
<1>5. after \in {"pending", "failed"} /\ (after = "failed" => ~k.retryable)
  OBVIOUS
<1> HIDE DEF after
<1>6. /\ record \in OutboxRecord /\ record.version = v
      /\ k.pc = "acknowledge" => record.status = "delivered"
      /\ k.pc = "failed" => record.status = after
  BY <1>1, <1>3, <1>5 DEF OutboxRecord
<1> HIDE DEF record, current
<1>7. record # NoReceipt /\ RecordIsTrue(record, telemetry[k.receipt])
  BY <1>1, <1>2, <1>5, <1>6, OutboxRecordAssumption DEF FlushInv, RecordIsTrue
<1>8. ReceiptsInv' /\ OutboxGrows
  <2>1. CASE outbox' = outbox
    BY <1>1, <2>1, TablesStay DEF OutboxInv
  <2>2. CASE current.version = k.seen /\ outbox' = written
    <3>1. current.status # "delivered"
      BY <1>1, <1>2, <2>2 DEF FlushInv, current
    <3>2. ReceiptsInv'
      BY <1>1, <1>2, <1>6, <1>7, <2>2 DEF OutboxInv, ReceiptsInv
    <3>3. OutboxGrows
      <4>1. \A x \in Receipts : outbox'[x] = IF x = k.receipt THEN record ELSE outbox[x]
        BY <1>1, <1>2, <2>2 DEF OutboxInv, ReceiptsInv
      <4>2. /\ outbox[k.receipt] = current /\ record.version > current.version
            /\ telemetry' = telemetry
        BY <1>1, <1>3, <1>6 DEF current
      <4> QED BY <1>7, <3>1, <4>1, <4>2 DEF OutboxGrows
    <3> QED BY <3>2, <3>3
  <2> QED BY <1>1, <2>1, <2>2
<1>9. FlushInv(Done(k)) /\ FlushInv(Broken(k))
  BY <1>2, NextEntryIs, BrokenIs
<1>10. CASE sink' = [sink EXCEPT ![s] = Done(k)]
  <2>1. ASSUME NEW j, j = Done(k)
        PROVE  FlushInv(j)'
    BY <1>8, <1>9, <2>1, FlushWaits DEF OutboxInv
  <2> QED BY <1>8, <1>10, <2>1, FlushGoesOn
<1>11. CASE sink' = [sink EXCEPT ![s] = Broken(k)]
  <2>1. ASSUME NEW j, j = Broken(k)
        PROVE  FlushInv(j)'
    BY <1>8, <1>9, <2>1, FlushWaits DEF OutboxInv
  <2> QED BY <1>8, <1>11, <2>1, FlushGoesOn
<1>12. CASE w # MaximumWrites /\ sink' = [sink EXCEPT ![s] = again]
  <2>1. /\ again \in Sink /\ again.seen = 0 /\ again.pc = k.pc /\ again.receipt = k.receipt
        /\ again.entries = k.entries /\ again.retryable = k.retryable /\ again.writes = w
    BY <1>2, <1>4, <1>12 DEF Sink
  <2> HIDE DEF again
  <2>2. FlushInv(again)
    BY <1>1, <1>2, <1>4, <1>12, <2>1 DEF FlushInv
  <2>3. ASSUME NEW j, j = again
        PROVE  FlushInv(j)'
    BY <1>8, <2>2, <2>3, FlushWaits DEF OutboxInv
  <2> QED BY <1>8, <1>12, <2>3, FlushGoesOn
<1> QED BY <1>1, <1>10, <1>11, <1>12

LEMMA RestartKeepsOutbox ==
  ASSUME OutboxInv, NEW s \in Sinks, RestartSink(s)
  PROVE  OutboxInv' /\ OutboxGrows
<1> DEFINE n == sink[s].flushes
<1>1. n \in 0..MaxFlushes
  BY DEF OutboxInv, FlushInv, Sink
<1>2. sink' = [sink EXCEPT ![s] = Resting(n)] /\ UNCHANGED <<outbox, captured, telemetry>>
  BY DEF RestartSink
<1> HIDE DEF n
<1>3. ReceiptsInv' /\ OutboxGrows
  BY <1>2, TablesStay DEF OutboxInv
<1>4. FlushInv(Resting(n))
  BY <1>1, RestingIs
<1>5. ASSUME NEW j, j = Resting(n)
      PROVE  FlushInv(j)'
  BY <1>3, <1>4, <1>5, FlushWaits DEF OutboxInv
<1> QED BY <1>2, <1>3, <1>5, FlushGoesOn

LEMMA InitOutbox ==
  OutboxInit => OutboxInv
<1> SUFFICES ASSUME OutboxInit PROVE OutboxInv
  OBVIOUS
<1>1. ReceiptsInv
  BY DEF OutboxInit, ReceiptsInv, RecordIsTrue
<1>2. 0 \in 0..MaxFlushes
  BY OutboxAssumption
<1>3. FlushInv(Resting(0))
  BY <1>2, RestingIs
<1>4. sink = [s \in Sinks |-> Resting(0)]
  BY DEF OutboxInit
<1> HIDE DEF Resting
<1> QED BY <1>1, <1>3, <1>4 DEF OutboxInv

LEMMA StepKeepsOutbox ==
  ASSUME OutboxInv, [OutboxNext]_outboxVars
  PROVE  OutboxInv' /\ OutboxGrows
<1>1. CASE UNCHANGED outboxVars
  <2>1. ReceiptsInv' /\ OutboxGrows
    BY <1>1, TablesStay DEF OutboxInv, outboxVars
  <2>2. ASSUME NEW s \in Sinks, NEW k, k = sink'[s]
        PROVE  FlushInv(k)'
    BY <1>1, <2>1, <2>2, FlushWaits DEF OutboxInv, outboxVars
  <2> QED BY <1>1, <2>1, <2>2 DEF OutboxInv, outboxVars
<1>2. CASE OutboxNext
  BY <1>2, CaptureKeeps, FlushKeeps, SettleKeepsOutbox, ReadKeepsOutbox, WriteKeepsOutbox,
     RestartKeepsOutbox DEF OutboxNext
<1> QED BY <1>1, <1>2

\* A captured receipt is kept until telemetry has it or has refused it, and no process
\* overwrites what another has learnt: acknowledge() and failed() of
\* src/src/postgres/index.ts, with any number of processes that flush the outbox.
THEOREM ReceiptsAreKept ==
  OutboxSpec => ReceiptIsKept
<1>1. OutboxInv /\ [OutboxNext]_outboxVars => OutboxInv'
  BY StepKeepsOutbox
<1>2. OutboxInv /\ OutboxInv' /\ [OutboxNext]_outboxVars =>
        [\A x \in Receipts :
          /\ x \in captured' => outbox'[x] # NoReceipt
          /\ outbox'[x] # NoReceipt =>
               /\ outbox'[x].status = "delivered" => "accepted" \in telemetry'[x]
               /\ outbox'[x].status = "failed" => "refused" \in telemetry'[x]
          /\ outbox[x] # NoReceipt /\ outbox[x].status = "delivered" =>
               outbox'[x] = outbox[x]]_outboxVars
  BY StepKeepsOutbox DEF OutboxGrows, OutboxInv, ReceiptsInv, RecordIsTrue
<1> QED BY <1>1, <1>2, InitOutbox, PTL DEF OutboxSpec, ReceiptIsKept

-----------------------------------------------------------------------------
(* Presence: the inductive invariant *)

\* The others have been told that the participant types.
Tells(p) == p.published # NoPresence /\ p.published.typing

TypingInv(p) ==
  /\ p.typingActive => p.typingRequested
  /\ p.typingRequested => p.connected

TidyTyping(p) ==
  TypingInv(p) /\ (Tells(p) => p.connected /\ p.typingRequested)

\* The subscriptions have generations of their own, and one that is still read without
\* having been closed is the one installed, of the generation of the controller.
FeedsInv(p, feeds) ==
  /\ feeds \in Seq(Feed) /\ Len(feeds) <= MaxSubscriptions
  /\ p.remote \subseteq {p.conversation}
  /\ \A i \in DOMAIN feeds :
       /\ feeds[i].generation <= p.generation
       /\ feeds[i].generation = p.generation => feeds[i].conversation = p.conversation
       /\ feeds[i].phase = "reading" /\ ~feeds[i].closed =>
            /\ i = p.installed /\ p.connected /\ ~p.destroyed
            /\ feeds[i].generation = p.generation
  /\ \A i, j \in DOMAIN feeds : feeds[i].generation = feeds[j].generation => i = j

PresenceInv ==
  presence \in Presence /\ TidyTyping(presence) /\ FeedsInv(presence, presenceFeeds)

-----------------------------------------------------------------------------
(* What the private methods of the controller do to it *)

\* `q` is `p` in all that the subscriptions depend on.
SameFeed(p, q) ==
  /\ q \in Presence
  /\ q.conversation = p.conversation /\ q.connected = p.connected /\ q.destroyed = p.destroyed
  /\ q.generation = p.generation /\ q.installed = p.installed /\ q.remote = p.remote

SameTyping(p, q) ==
  q.typingRequested = p.typingRequested /\ q.typingActive = p.typingActive

\* A record that publishLocal() gives says what the controller holds; without one the last
\* one stands.
LEMMA PublishLocalIs ==
  ASSUME NEW p \in Presence, NEW force, NEW allowed
  PROVE  /\ SameFeed(p, PublishLocal(p, force, allowed))
         /\ SameTyping(p, PublishLocal(p, force, allowed))
         /\ PublishLocal(p, force, allowed).state = p.state
         /\ Tells(PublishLocal(p, force, allowed)) => Tells(p) \/ p.typingActive
         /\ ~p.destroyed /\ (p.connected \/ allowed) /\ Tells(PublishLocal(p, force, allowed)) =>
              p.typingActive
<1> DEFINE typing == p.state # "offline" /\ p.typingActive
           record == [conversation |-> p.conversation, state |-> p.state, typing |-> typing]
           same == p.published # NoPresence /\ p.published.state = p.state
                   /\ p.published.typing = typing
           q == [p EXCEPT !.published = record]
<1>1. /\ typing \in BOOLEAN /\ (typing => p.typingActive)
      /\ p.conversation \in Conversations /\ p.state \in {"offline", "active", "idle"}
  BY DEF Presence
<1>2. same => p.published.typing = typing
  OBVIOUS
<1>3. PublishLocal(p, force, allowed) =
        IF p.destroyed \/ ~(p.connected \/ allowed) \/ (~force /\ same) THEN p ELSE q
  BY DEF PublishLocal
<1> HIDE DEF same, typing
<1>4. /\ record \in [conversation : Conversations, state : {"offline", "active", "idle"},
                     typing : BOOLEAN]
      /\ record.typing = typing
  BY <1>1
<1> HIDE DEF record
<1>5. /\ SameFeed(p, q) /\ SameTyping(p, q) /\ q.state = p.state /\ q.published = record
  BY <1>4 DEF Presence, SameFeed, SameTyping
<1> HIDE DEF q
<1>6. SameFeed(p, p) /\ SameTyping(p, p)
  BY DEF SameFeed, SameTyping
<1>7. CASE PublishLocal(p, force, allowed) = q
  BY <1>1, <1>4, <1>5, <1>7 DEF Tells
<1>8. CASE PublishLocal(p, force, allowed) = p
           /\ (p.destroyed \/ ~(p.connected \/ allowed) \/ (~force /\ same))
  BY <1>1, <1>2, <1>6, <1>8 DEF Tells
<1> QED BY <1>3, <1>7, <1>8

LEMMA ScheduleIs ==
  ASSUME NEW p \in Presence, NEW timer \in {"heartbeat", "idle", "debounce", "refresh"}
  PROVE  /\ SameFeed(p, Schedule(p, timer)) /\ SameTyping(p, Schedule(p, timer))
         /\ Schedule(p, timer).published = p.published
         /\ TidyTyping(p) => TidyTyping(Schedule(p, timer))
<1>1. PICK timers \in SUBSET {"heartbeat", "idle", "debounce", "refresh"} :
        Schedule(p, timer) = [p EXCEPT !.timers = timers]
  <2>1. p.timers \cup {timer} \in SUBSET {"heartbeat", "idle", "debounce", "refresh"}
        /\ p.timers \ {timer} \in SUBSET {"heartbeat", "idle", "debounce", "refresh"}
    BY DEF Presence
  <2> DEFINE due == CASE timer = "debounce" -> p.typingRequested
                      [] timer = "refresh" -> p.typingRequested /\ p.typingActive
                      [] OTHER -> TRUE
             on == p.connected /\ ~p.destroyed /\ due
  <2>2. Schedule(p, timer) =
          [p EXCEPT !.timers = IF on THEN p.timers \cup {timer} ELSE p.timers \ {timer}]
    BY DEF Schedule
  <2> HIDE DEF on
  <2> QED BY <2>1, <2>2
<1> DEFINE q == [p EXCEPT !.timers = timers]
<1>2. SameFeed(p, q) /\ SameTyping(p, q) /\ q.published = p.published
  BY DEF Presence, SameFeed, SameTyping
<1> HIDE DEF q
<1>3. TidyTyping(p) => TidyTyping(q)
  BY <1>2 DEF SameFeed, SameTyping, TidyTyping, TypingInv, Tells
<1> QED BY <1>1, <1>2, <1>3 DEF q

\* What is published of a controller that is tidy leaves it tidy.
LEMMA PublishTidy ==
  ASSUME NEW p \in Presence, TidyTyping(p), NEW force, NEW allowed
  PROVE  /\ SameFeed(p, PublishLocal(p, force, allowed))
         /\ TidyTyping(PublishLocal(p, force, allowed))
<1> DEFINE q == PublishLocal(p, force, allowed)
<1>1. SameFeed(p, q) /\ SameTyping(p, q) /\ (Tells(q) => Tells(p) \/ p.typingActive)
  BY PublishLocalIs
<1> HIDE DEF q
<1>2. TidyTyping(q)
  BY <1>1 DEF SameFeed, SameTyping, TidyTyping, TypingInv
<1> QED BY <1>1, <1>2 DEF q

\* What is published once typing has stopped is tidy, whatever was published before.
LEMMA PublishTidies ==
  ASSUME NEW p \in Presence, ~p.destroyed, ~p.typingRequested, ~p.typingActive,
         NEW force, NEW allowed, p.connected \/ allowed \/ ~Tells(p)
  PROVE  /\ SameFeed(p, PublishLocal(p, force, allowed))
         /\ TidyTyping(PublishLocal(p, force, allowed))
         /\ ~PublishLocal(p, force, allowed).typingRequested
         /\ ~PublishLocal(p, force, allowed).typingActive
         /\ ~Tells(PublishLocal(p, force, allowed))
<1> DEFINE q == PublishLocal(p, force, allowed)
<1>1. /\ SameFeed(p, q) /\ SameTyping(p, q) /\ (Tells(q) => Tells(p) \/ p.typingActive)
      /\ (~p.destroyed /\ (p.connected \/ allowed) /\ Tells(q) => p.typingActive)
  BY PublishLocalIs
<1> HIDE DEF q
<1>2. ~Tells(q) /\ ~q.typingRequested /\ ~q.typingActive
  BY <1>1 DEF SameTyping
<1>3. TidyTyping(q)
  BY <1>2 DEF TidyTyping, TypingInv
<1> QED BY <1>1, <1>2, <1>3 DEF q

LEMMA NotTypingIs ==
  ASSUME NEW p \in Presence
  PROVE  /\ SameFeed(p, NotTyping(p)) /\ NotTyping(p).published = p.published
         /\ ~NotTyping(p).typingRequested /\ ~NotTyping(p).typingActive
         /\ NotTyping(p).state = p.state
BY DEF NotTyping, Presence, SameFeed

\* closeTransportSubscription() takes a new generation and leaves the rest.
LEMMA CloseFeedIs ==
  ASSUME NEW p \in Presence
  PROVE  /\ CloseFeed(p) \in Presence
         /\ CloseFeed(p).generation = p.generation + 1 /\ CloseFeed(p).installed = 0
         /\ CloseFeed(p).conversation = p.conversation /\ CloseFeed(p).remote = p.remote
         /\ CloseFeed(p).connected = p.connected /\ CloseFeed(p).destroyed = p.destroyed
         /\ CloseFeed(p).published = p.published
         /\ SameTyping(p, CloseFeed(p))
         /\ TidyTyping(p) => TidyTyping(CloseFeed(p))
<1> DEFINE g == p.generation + 1
           q == [p EXCEPT !.generation = g, !.installed = 0]
<1>1. CloseFeed(p) = q
  BY DEF CloseFeed
<1>2. g \in Nat /\ 0 \in 0..MaxSubscriptions
  BY PresenceAssumption DEF Presence
<1> HIDE DEF g
<1>3. /\ q \in Presence /\ q.generation = g /\ q.installed = 0
      /\ q.conversation = p.conversation /\ q.remote = p.remote
      /\ q.connected = p.connected /\ q.destroyed = p.destroyed
      /\ q.published = p.published /\ SameTyping(p, q)
  BY <1>2 DEF Presence, SameTyping
<1> HIDE DEF q
<1>4. TidyTyping(p) => TidyTyping(q)
  BY <1>3 DEF SameTyping, TidyTyping, TypingInv, Tells
<1> QED BY <1>1, <1>3, <1>4 DEF g

-----------------------------------------------------------------------------
(* The subscriptions while the controller changes *)

\* A change that the subscriptions do not depend on.
LEMMA FeedsStay ==
  ASSUME NEW p, NEW q, NEW feeds, SameFeed(p, q), FeedsInv(p, feeds)
  PROVE  FeedsInv(q, feeds)
BY DEF SameFeed, FeedsInv

\* The controller moves on to a later generation: no subscription is read any more.
LEMMA FeedsMoveOn ==
  ASSUME PresenceInv, NEW q \in Presence, q.generation > presence.generation,
         q.remote \subseteq {q.conversation}
  PROVE  FeedsInv(q, FeedsClosed) /\ Len(FeedsClosed) = Len(presenceFeeds)
         /\ \A i \in DOMAIN FeedsClosed : FeedsClosed[i].generation < q.generation
<1>1. /\ presenceFeeds \in Seq(Feed) /\ DOMAIN presenceFeeds = 1..Len(presenceFeeds)
      /\ \A i \in DOMAIN presenceFeeds : presenceFeeds[i] \in Feed
      /\ Len(presenceFeeds) \in Nat
  BY DEF PresenceInv, FeedsInv
<1>2. \A i \in DOMAIN presenceFeeds :
        LET feed == IF i = presence.installed THEN [presenceFeeds[i] EXCEPT !.closed = TRUE]
                    ELSE presenceFeeds[i] IN
        /\ feed \in Feed /\ feed.generation = presenceFeeds[i].generation
        /\ feed.phase = presenceFeeds[i].phase
        /\ ~feed.closed => i # presence.installed /\ ~presenceFeeds[i].closed
  BY <1>1 DEF Feed
<1>3. /\ FeedsClosed \in Seq(Feed) /\ DOMAIN FeedsClosed = DOMAIN presenceFeeds
      /\ Len(FeedsClosed) = Len(presenceFeeds)
      /\ \A i \in DOMAIN presenceFeeds :
           /\ FeedsClosed[i].generation = presenceFeeds[i].generation
           /\ FeedsClosed[i].phase = presenceFeeds[i].phase
           /\ ~FeedsClosed[i].closed => i # presence.installed /\ ~presenceFeeds[i].closed
  BY <1>1, <1>2 DEF FeedsClosed
<1>4. \A i \in DOMAIN presenceFeeds :
        /\ presenceFeeds[i].generation \in Nat
        /\ presenceFeeds[i].generation <= presence.generation
        /\ presenceFeeds[i].generation < q.generation
        /\ presenceFeeds[i].phase = "reading" /\ ~presenceFeeds[i].closed => i = presence.installed
  <2>1. presence.generation \in Nat /\ q.generation \in Nat
    BY DEF PresenceInv, Presence
  <2>2. \A i \in DOMAIN presenceFeeds : presenceFeeds[i].generation \in Nat
    BY <1>1 DEF Feed
  <2> QED BY <2>1, <2>2 DEF PresenceInv, FeedsInv
<1>5. q.generation \in Nat
  BY DEF Presence
<1> HIDE DEF FeedsClosed
<1> QED BY <1>1, <1>3, <1>4, <1>5 DEF PresenceInv, FeedsInv

\* It moves on and opens a subscription of that generation.
LEMMA FeedsOpened ==
  ASSUME PresenceInv, NEW q \in Presence, q.generation > presence.generation,
         q.remote \subseteq {q.conversation}, Len(presenceFeeds) < MaxSubscriptions,
         NEW feed \in Feed, feed.conversation = q.conversation,
         feed.generation = q.generation, feed.phase = "opening"
  PROVE  FeedsInv(q, Append(FeedsClosed, feed))
<1>1. /\ FeedsInv(q, FeedsClosed) /\ Len(FeedsClosed) < MaxSubscriptions
      /\ \A i \in DOMAIN FeedsClosed : FeedsClosed[i].generation < q.generation
  BY FeedsMoveOn
<1> DEFINE closed == FeedsClosed
           feeds == Append(closed, feed)
<1> HIDE DEF closed
<1>2. closed \in Seq(Feed) /\ Len(closed) \in Nat /\ DOMAIN closed = 1..Len(closed)
  BY <1>1 DEF FeedsInv, closed
<1>3. /\ feeds \in Seq(Feed) /\ Len(feeds) = Len(closed) + 1
      /\ DOMAIN feeds = 1..(Len(closed) + 1)
      /\ feeds[Len(closed) + 1] = feed /\ \A i \in DOMAIN closed : feeds[i] = closed[i]
  BY <1>2
<1> HIDE DEF feeds
<1>4. Len(feeds) <= MaxSubscriptions
  BY <1>1, <1>2, <1>3, PresenceAssumption DEF closed
<1>5. ASSUME NEW i \in DOMAIN feeds
      PROVE  /\ feeds[i].generation <= q.generation
             /\ feeds[i].generation = q.generation => feeds[i].conversation = q.conversation
             /\ feeds[i].phase = "reading" /\ ~feeds[i].closed =>
                  /\ i = q.installed /\ q.connected /\ ~q.destroyed
                  /\ feeds[i].generation = q.generation
  <2>1. CASE i \in DOMAIN closed
    BY <1>1, <1>3, <2>1 DEF FeedsInv, closed
  <2>2. CASE i = Len(closed) + 1
    <3>1. q.generation <= q.generation
      BY DEF Presence
    <3> QED BY <1>3, <2>2, <3>1
  <2> QED BY <1>2, <1>3, <1>5, <2>1, <2>2
<1>6. ASSUME NEW i \in DOMAIN feeds, NEW j \in DOMAIN feeds,
             feeds[i].generation = feeds[j].generation
      PROVE  i = j
  <2>1. q.generation \in Nat /\ \A k \in DOMAIN closed : closed[k].generation # q.generation
    <3>1. \A k \in DOMAIN closed : closed[k] \in Feed
      BY <1>2
    <3>2. \A k \in DOMAIN closed : closed[k].generation \in Nat
      BY <3>1 DEF Feed
    <3>3. \A k \in DOMAIN closed : closed[k].generation < q.generation
      BY <1>1 DEF closed
    <3>4. q.generation \in Nat
      BY DEF Presence
    <3> QED BY <3>2, <3>3, <3>4
  <2>2. CASE i \in DOMAIN closed /\ j \in DOMAIN closed
    BY <1>1, <1>3, <1>6, <2>2 DEF FeedsInv, closed
  <2>3. CASE i = Len(closed) + 1 \/ j = Len(closed) + 1
    BY <1>2, <1>3, <1>6, <2>1, <2>3
  <2> QED BY <1>2, <1>3, <2>2, <2>3
<1>7. FeedsInv(q, feeds)
  BY <1>1, <1>3, <1>4, <1>5, <1>6 DEF FeedsInv
<1> QED BY <1>7 DEF feeds, closed

\* A step of the controller that leaves its subscriptions alone.
LEMMA QuietStep ==
  ASSUME PresenceInv, NEW q, SameFeed(presence, q), TidyTyping(q),
         presence' = q, UNCHANGED presenceFeeds
  PROVE  PresenceInv'
<1>1. q \in Presence /\ FeedsInv(q, presenceFeeds)
  BY FeedsStay DEF PresenceInv, SameFeed
<1> QED BY <1>1 DEF PresenceInv

-----------------------------------------------------------------------------
(* The steps of the controller *)

LEMMA ConnectIsCurrent ==
  ASSUME PresenceInv, Connect
  PROVE  PresenceInv'
<1> DEFINE q == CloseFeed(presence)
           state == IF presence.connected THEN q.state
                    ELSE IF presence.recent THEN "active" ELSE "idle"
           p == [q EXCEPT !.connected = TRUE, !.timers = q.timers \ {"heartbeat", "idle"},
                          !.state = state]
           told == PublishLocal(p, TRUE, FALSE)
           beating == Schedule(told, "heartbeat")
           timed == Schedule(beating, "idle")
<1>1. /\ ~presence.destroyed /\ Len(presenceFeeds) < MaxSubscriptions
      /\ presence' \in {timed, Schedule(timed, "debounce"), Schedule(timed, "refresh")}
      /\ presenceFeeds' = Append(FeedsClosed, Opening(p))
  BY DEF Connect, Usable
<1>2. /\ q \in Presence /\ TidyTyping(q) /\ q.generation = presence.generation + 1
      /\ q.conversation = presence.conversation /\ q.remote = presence.remote
  BY CloseFeedIs DEF PresenceInv
<1> HIDE DEF q
<1>3. state \in {"offline", "active", "idle"}
  BY <1>2 DEF Presence
<1> HIDE DEF state
<1>4. /\ p \in Presence /\ p.generation = q.generation /\ p.conversation = q.conversation
      /\ p.remote = q.remote /\ p.connected /\ SameTyping(q, p) /\ p.published = q.published
  BY <1>2, <1>3 DEF Presence, SameTyping
<1> HIDE DEF p
<1>5. TidyTyping(p)
  BY <1>2, <1>4 DEF TidyTyping, TypingInv, SameTyping, Tells
<1>6. SameFeed(p, told) /\ TidyTyping(told) /\ told \in Presence
  <2>1. SameFeed(p, told) /\ TidyTyping(told)
    BY <1>4, <1>5, PublishTidy
  <2> QED BY <2>1 DEF SameFeed
<1> HIDE DEF told
<1>7. SameFeed(told, beating) /\ TidyTyping(beating) /\ beating \in Presence
  BY <1>6, ScheduleIs DEF SameFeed
<1> HIDE DEF beating
<1>8. SameFeed(beating, timed) /\ TidyTyping(timed) /\ timed \in Presence
  BY <1>7, ScheduleIs DEF SameFeed
<1> HIDE DEF timed
<1>9. ASSUME NEW timer \in {"debounce", "refresh"}
      PROVE  SameFeed(timed, Schedule(timed, timer)) /\ TidyTyping(Schedule(timed, timer))
  BY <1>8, ScheduleIs
<1>10. SameFeed(p, presence') /\ TidyTyping(presence') /\ presence' \in Presence
  BY <1>1, <1>6, <1>7, <1>8, <1>9 DEF SameFeed
<1>11. /\ Opening(p) \in Feed /\ Opening(p).conversation = p.conversation
       /\ Opening(p).generation = p.generation /\ Opening(p).phase = "opening"
  BY <1>4 DEF Opening, Feed, Presence
<1>12. p.generation > presence.generation /\ p.remote \subseteq {p.conversation}
  BY <1>2, <1>4 DEF PresenceInv, Presence, FeedsInv
<1>13. FeedsInv(p, Append(FeedsClosed, Opening(p)))
  BY <1>1, <1>4, <1>11, <1>12, FeedsOpened
<1>14. FeedsInv(presence', presenceFeeds')
  BY <1>1, <1>10, <1>13, FeedsStay
<1> QED BY <1>10, <1>14 DEF PresenceInv

LEMMA NotedIs ==
  ASSUME NEW p \in Presence, TidyTyping(p)
  PROVE  SameFeed(p, Noted(p)) /\ TidyTyping(Noted(p)) /\ SameTyping(p, Noted(p))
<1> DEFINE state == IF p.connected THEN "active" ELSE p.state
           active == [p EXCEPT !.recent = TRUE, !.state = state]
           told == IF active.state # p.state THEN PublishLocal(active, FALSE, FALSE) ELSE active
<1>1. Noted(p) = Schedule(told, "idle")
  BY DEF Noted
<1>2. state \in {"offline", "active", "idle"}
  BY DEF Presence
<1> HIDE DEF state
<1>3. SameFeed(p, active) /\ SameTyping(p, active) /\ active.published = p.published
  BY <1>2 DEF Presence, SameFeed, SameTyping
<1> HIDE DEF active
<1>4. active \in Presence /\ TidyTyping(active)
  BY <1>3 DEF SameFeed, SameTyping, TidyTyping, TypingInv, Tells
<1>5. SameFeed(active, told) /\ SameTyping(active, told) /\ TidyTyping(told) /\ told \in Presence
  <2>1. CASE told = active
    BY <1>4, <2>1 DEF SameFeed, SameTyping
  <2>2. CASE told = PublishLocal(active, FALSE, FALSE)
    <3> DEFINE q == PublishLocal(active, FALSE, FALSE)
    <3>1. SameFeed(active, q) /\ TidyTyping(q)
      BY <1>4, PublishTidy
    <3>2. SameTyping(active, q)
      BY <1>4, PublishLocalIs
    <3> HIDE DEF q
    <3> QED BY <2>2, <3>1, <3>2 DEF SameFeed, q
  <2> QED BY <2>1, <2>2
<1> HIDE DEF told
<1>6. SameFeed(told, Noted(p)) /\ SameTyping(told, Noted(p)) /\ TidyTyping(Noted(p))
  BY <1>1, <1>5, ScheduleIs
<1> QED BY <1>3, <1>5, <1>6 DEF SameFeed, SameTyping

LEMMA NoteActivityIsCurrent ==
  ASSUME PresenceInv, NoteActivity
  PROVE  PresenceInv'
<1> DEFINE recent == [presence EXCEPT !.recent = TRUE]
<1>1. /\ presence' = Noted(presence) \/ presence' = recent
      /\ UNCHANGED presenceFeeds
  BY DEF NoteActivity
<1>2. SameFeed(presence, recent) /\ TidyTyping(recent)
  BY DEF PresenceInv, Presence, SameFeed, TidyTyping, TypingInv, Tells
<1> HIDE DEF recent
<1>3. SameFeed(presence, Noted(presence)) /\ TidyTyping(Noted(presence))
  BY NotedIs DEF PresenceInv
<1> QED BY <1>1, <1>2, <1>3, QuietStep

LEMMA SetTypingIsCurrent ==
  ASSUME PresenceInv, SetTyping
  PROVE  PresenceInv'
<1> DEFINE recent == [presence EXCEPT !.recent = TRUE]
           noted == Noted(presence)
           typing == [noted EXCEPT !.typingRequested = TRUE]
<1>1. /\ \/ presence' = recent
         \/ presence' = noted
         \/ presence.connected /\ presence' = Schedule(typing, "debounce")
      /\ UNCHANGED presenceFeeds
  BY DEF SetTyping
<1>2. SameFeed(presence, recent) /\ TidyTyping(recent)
  BY DEF PresenceInv, Presence, SameFeed, TidyTyping, TypingInv, Tells
<1> HIDE DEF recent
<1>3. SameFeed(presence, noted) /\ TidyTyping(noted) /\ noted \in Presence
  BY NotedIs DEF PresenceInv, SameFeed
<1> HIDE DEF noted
<1>4. /\ SameFeed(noted, typing) /\ typing \in Presence /\ typing.typingRequested
      /\ typing.typingActive = noted.typingActive /\ typing.published = noted.published
  BY <1>3 DEF Presence, SameFeed
<1> HIDE DEF typing
<1>5. CASE presence.connected /\ presence' = Schedule(typing, "debounce")
  <2>1. TidyTyping(typing)
    BY <1>3, <1>4, <1>5 DEF SameFeed, TidyTyping, TypingInv, Tells
  <2>2. SameFeed(typing, presence') /\ TidyTyping(presence')
    BY <1>4, <1>5, <2>1, ScheduleIs
  <2>3. SameFeed(presence, presence')
    BY <1>3, <1>4, <2>2 DEF SameFeed
  <2> QED BY <1>1, <2>2, <2>3, QuietStep
<1> QED BY <1>1, <1>2, <1>3, <1>5, QuietStep

LEMMA StopTypingIsCurrent ==
  ASSUME PresenceInv, StopTyping
  PROVE  PresenceInv'
<1> DEFINE p == NotTyping(presence)
<1>1. /\ ~presence.destroyed /\ presence' = PublishLocal(p, TRUE, FALSE)
      /\ UNCHANGED presenceFeeds
  BY DEF StopTyping, Usable
<1>2. /\ SameFeed(presence, p) /\ p.published = presence.published
      /\ ~p.typingRequested /\ ~p.typingActive
  BY NotTypingIs DEF PresenceInv
<1> HIDE DEF p
<1>3. p \in Presence /\ ~p.destroyed /\ (p.connected \/ ~Tells(p))
  BY <1>1, <1>2 DEF PresenceInv, SameFeed, TidyTyping, Tells
<1>4. SameFeed(p, presence') /\ TidyTyping(presence')
  BY <1>1, <1>2, <1>3, PublishTidies
<1> QED BY <1>1, <1>2, <1>4, QuietStep DEF SameFeed

\* disconnect() of a connected controller.
LEMMA DisconnectedIs ==
  ASSUME NEW p \in Presence, ~p.destroyed, p.connected
  PROVE  /\ Disconnected(p) \in Presence /\ TidyTyping(Disconnected(p))
         /\ Disconnected(p).generation = p.generation + 1
         /\ Disconnected(p).conversation = p.conversation /\ Disconnected(p).remote = p.remote
<1> DEFINE still == NotTyping(p)
           bare == [still EXCEPT !.timers = {}]
           quiet == PublishLocal(bare, TRUE, FALSE)
           off == [quiet EXCEPT !.connected = FALSE, !.state = "offline"]
           told == PublishLocal(off, TRUE, TRUE)
<1>1. Disconnected(p) = CloseFeed(told)
  BY DEF Disconnected
<1>2. /\ SameFeed(p, still) /\ still \in Presence
      /\ ~still.typingRequested /\ ~still.typingActive
  BY NotTypingIs DEF SameFeed
<1> HIDE DEF still
<1>3. /\ SameFeed(still, bare) /\ bare \in Presence
      /\ ~bare.typingRequested /\ ~bare.typingActive
  BY <1>2 DEF SameFeed, Presence
<1> HIDE DEF bare
<1>4. ~bare.destroyed /\ bare.connected
  BY <1>2, <1>3 DEF SameFeed
<1>5. /\ SameFeed(bare, quiet) /\ quiet \in Presence
      /\ ~quiet.typingRequested /\ ~quiet.typingActive
  <2>1. SameFeed(bare, quiet) /\ ~quiet.typingRequested /\ ~quiet.typingActive
    BY <1>3, <1>4, PublishTidies
  <2> QED BY <2>1 DEF SameFeed
<1> HIDE DEF quiet
<1>6. /\ off \in Presence /\ ~off.typingRequested /\ ~off.typingActive
      /\ off.destroyed = quiet.destroyed /\ off.generation = quiet.generation
      /\ off.conversation = quiet.conversation /\ off.remote = quiet.remote
  BY <1>5 DEF Presence
<1> HIDE DEF off
<1>7. ~off.destroyed
  BY <1>4, <1>5, <1>6 DEF SameFeed
<1>8. SameFeed(off, told) /\ TidyTyping(told) /\ told \in Presence
  <2>1. SameFeed(off, told) /\ TidyTyping(told)
    BY <1>6, <1>7, PublishTidies
  <2> QED BY <2>1 DEF SameFeed
<1> HIDE DEF told
<1>9. /\ told.generation = p.generation /\ told.conversation = p.conversation
      /\ told.remote = p.remote
  BY <1>2, <1>3, <1>5, <1>6, <1>8 DEF SameFeed
<1> QED BY <1>1, <1>8, <1>9, CloseFeedIs

LEMMA DisconnectIsCurrent ==
  ASSUME PresenceInv, Disconnect
  PROVE  PresenceInv'
<1> DEFINE q == Disconnected(presence)
<1>1. /\ ~presence.destroyed /\ presence.connected /\ presence' = q
      /\ presenceFeeds' = FeedsClosed
  BY DEF Disconnect, Usable
<1>2. /\ q \in Presence /\ TidyTyping(q) /\ q.generation = presence.generation + 1
      /\ q.conversation = presence.conversation /\ q.remote = presence.remote
  BY <1>1, DisconnectedIs DEF PresenceInv
<1> HIDE DEF q
<1>3. q.generation > presence.generation /\ q.remote \subseteq {q.conversation}
  BY <1>2 DEF PresenceInv, Presence, FeedsInv
<1>4. FeedsInv(q, FeedsClosed)
  BY <1>2, <1>3, FeedsMoveOn
<1> QED BY <1>1, <1>2, <1>4 DEF PresenceInv

LEMMA SwitchIsCurrent ==
  ASSUME PresenceInv, NEW c \in Conversations, SwitchConversation(c)
  PROVE  PresenceInv'
<1> DEFINE still == NotTyping(presence)
           bare == [still EXCEPT !.timers = {}]
           told == PublishLocal(bare, TRUE, TRUE)
           left == CloseFeed(told)
           state == IF left.connected THEN "active" ELSE "offline"
           there == [left EXCEPT !.conversation = c, !.remote = {}, !.published = NoPresence,
                                 !.state = state, !.recent = TRUE]
           here == PublishLocal(there, TRUE, FALSE)
           beating == Schedule(here, "heartbeat")
           timed == Schedule(beating, "idle")
<1>1. /\ ~presence.destroyed
      /\ \/ /\ Len(presenceFeeds) < MaxSubscriptions
            /\ presence' = timed /\ presenceFeeds' = Append(FeedsClosed, Opening(there))
         \/ presence' = there /\ presenceFeeds' = FeedsClosed
  BY DEF SwitchConversation, Usable
<1>2. /\ SameFeed(presence, still) /\ still \in Presence
      /\ ~still.typingRequested /\ ~still.typingActive
  BY NotTypingIs DEF PresenceInv, SameFeed
<1> HIDE DEF still
<1>3. /\ SameFeed(still, bare) /\ bare \in Presence
      /\ ~bare.typingRequested /\ ~bare.typingActive
  BY <1>2 DEF SameFeed, Presence
<1> HIDE DEF bare
<1>4. SameFeed(bare, told) /\ ~told.typingRequested /\ ~told.typingActive
  <2>1. ~bare.destroyed
    BY <1>1, <1>2, <1>3 DEF SameFeed
  <2> QED BY <1>3, <2>1, PublishTidies
<1> HIDE DEF told
<1>5. told \in Presence /\ told.generation = presence.generation
  BY <1>2, <1>3, <1>4 DEF SameFeed
<1>6. /\ left \in Presence /\ left.generation = presence.generation + 1
      /\ ~left.typingRequested /\ ~left.typingActive
  BY <1>4, <1>5, CloseFeedIs DEF SameTyping
<1> HIDE DEF left
<1>7. state \in {"offline", "active", "idle"}
  OBVIOUS
<1> HIDE DEF state
<1>8. /\ there \in Presence /\ there.generation = left.generation /\ there.conversation = c
      /\ there.remote = {} /\ there.published = NoPresence
      /\ ~there.typingRequested /\ ~there.typingActive
  BY <1>6, <1>7 DEF Presence
<1> HIDE DEF there
<1>9. TidyTyping(there)
  BY <1>8 DEF TidyTyping, TypingInv, Tells
<1>10. there.generation > presence.generation /\ there.remote \subseteq {there.conversation}
  BY <1>6, <1>8 DEF PresenceInv, Presence
<1>11. CASE presence' = there /\ presenceFeeds' = FeedsClosed
  <2>1. FeedsInv(there, FeedsClosed)
    BY <1>8, <1>10, FeedsMoveOn
  <2> QED BY <1>8, <1>9, <1>11, <2>1 DEF PresenceInv
<1>12. CASE /\ Len(presenceFeeds) < MaxSubscriptions
            /\ presence' = timed /\ presenceFeeds' = Append(FeedsClosed, Opening(there))
  <2>1. SameFeed(there, here) /\ TidyTyping(here)
    BY <1>8, <1>9, PublishTidy
  <2> HIDE DEF here
  <2>2. here \in Presence
    BY <2>1 DEF SameFeed
  <2>3. SameFeed(here, beating) /\ TidyTyping(beating)
    BY <2>1, <2>2, ScheduleIs
  <2> HIDE DEF beating
  <2>4. beating \in Presence
    BY <2>3 DEF SameFeed
  <2>5. SameFeed(beating, timed) /\ TidyTyping(timed)
    BY <2>3, <2>4, ScheduleIs
  <2> HIDE DEF timed
  <2>6. SameFeed(there, timed)
    BY <2>1, <2>3, <2>5 DEF SameFeed
  <2>7. /\ Opening(there) \in Feed /\ Opening(there).conversation = there.conversation
        /\ Opening(there).generation = there.generation /\ Opening(there).phase = "opening"
    BY <1>8 DEF Opening, Feed, Presence
  <2>8. FeedsInv(there, Append(FeedsClosed, Opening(there)))
    BY <1>8, <1>10, <1>12, <2>7, FeedsOpened
  <2>9. FeedsInv(timed, Append(FeedsClosed, Opening(there)))
    BY <2>6, <2>8, FeedsStay
  <2> QED BY <1>12, <2>5, <2>9 DEF PresenceInv, SameFeed
<1> QED BY <1>1, <1>11, <1>12

LEMMA DestroyIsCurrent ==
  ASSUME PresenceInv, Destroy
  PROVE  PresenceInv'
<1> DEFINE still == NotTyping(presence)
           off == [still EXCEPT !.state = "offline"]
           told == PublishLocal(off, TRUE, TRUE)
           last == IF presence.connected THEN Disconnected(presence) ELSE told
           left == CloseFeed(last)
           gone == [left EXCEPT !.destroyed = TRUE, !.timers = {}]
<1>1. ~presence.destroyed /\ presence' = gone /\ presenceFeeds' = FeedsClosed
  BY DEF Destroy, Usable
<1>2. /\ last \in Presence /\ TidyTyping(last) /\ last.generation >= presence.generation
      /\ last.conversation = presence.conversation /\ last.remote = presence.remote
  <2>0. presence \in Presence /\ presence.generation \in Nat
    BY DEF PresenceInv, Presence
  <2>1. CASE presence.connected
    BY <1>1, <2>0, <2>1, DisconnectedIs
  <2>2. CASE ~presence.connected
    <3>1. /\ SameFeed(presence, still) /\ still \in Presence
          /\ ~still.typingRequested /\ ~still.typingActive
      BY NotTypingIs DEF PresenceInv, SameFeed
    <3> HIDE DEF still
    <3>2. /\ SameFeed(still, off) /\ off \in Presence
          /\ ~off.typingRequested /\ ~off.typingActive
      BY <3>1 DEF SameFeed, Presence
    <3> HIDE DEF off
    <3>3. ~off.destroyed
      BY <1>1, <3>1, <3>2 DEF SameFeed
    <3>4. SameFeed(off, told) /\ TidyTyping(told)
      BY <3>2, <3>3, PublishTidies
    <3> HIDE DEF told
    <3> QED BY <2>0, <2>2, <3>1, <3>2, <3>4 DEF SameFeed
  <2> QED BY <2>1, <2>2
<1> HIDE DEF last
<1>3. /\ left \in Presence /\ TidyTyping(left) /\ left.generation = last.generation + 1
      /\ left.conversation = last.conversation /\ left.remote = last.remote
  BY <1>2, CloseFeedIs
<1> HIDE DEF left
<1>4. /\ gone \in Presence /\ gone.generation = left.generation
      /\ gone.conversation = left.conversation /\ gone.remote = left.remote
      /\ gone.connected = left.connected /\ gone.published = left.published
      /\ SameTyping(left, gone)
  BY <1>3 DEF Presence, SameTyping
<1> HIDE DEF gone
<1>5. TidyTyping(gone)
  BY <1>3, <1>4 DEF SameTyping, TidyTyping, TypingInv, Tells
<1>6. gone.generation > presence.generation /\ gone.remote \subseteq {gone.conversation}
  BY <1>2, <1>3, <1>4 DEF PresenceInv, Presence, FeedsInv
<1>7. FeedsInv(gone, FeedsClosed)
  BY <1>4, <1>6, FeedsMoveOn
<1> QED BY <1>1, <1>4, <1>5, <1>7 DEF PresenceInv

\* The callbacks of the timers, on a controller that is connected and not destroyed.
LEMMA FiredIs ==
  ASSUME NEW p \in Presence, TidyTyping(p), p.connected, ~p.destroyed,
         NEW timer \in {"heartbeat", "idle", "debounce", "refresh"}
  PROVE  SameFeed(p, Fired(p, timer)) /\ TidyTyping(Fired(p, timer))
<1>1. ASSUME NEW q, SameFeed(p, q), TidyTyping(q)
      PROVE  /\ SameFeed(p, Schedule(q, timer)) /\ TidyTyping(Schedule(q, timer))
  <2>1. q \in Presence
    BY <1>1 DEF SameFeed
  <2>2. SameFeed(q, Schedule(q, timer)) /\ TidyTyping(Schedule(q, timer))
    BY <1>1, <2>1, ScheduleIs
  <2> QED BY <1>1, <2>2 DEF SameFeed
<1>2. SameFeed(p, p)
  BY DEF SameFeed
<1> DEFINE told == PublishLocal(p, TRUE, FALSE)
<1>3. SameFeed(p, told) /\ TidyTyping(told)
  BY PublishTidy
<1> HIDE DEF told
<1>4. CASE timer = "heartbeat"
  <2>1. Fired(p, timer) = Schedule(told, timer)
    BY <1>4 DEF Fired, told
  <2> QED BY <1>1, <1>3, <2>1
<1>5. CASE timer = "refresh"
  <2>1. Fired(p, timer) = p \/ Fired(p, timer) = Schedule(told, timer)
    BY <1>5 DEF Fired, told
  <2> QED BY <1>1, <1>2, <1>3, <2>1
<1>6. CASE timer = "idle"
  <2> DEFINE still == NotTyping(p)
             idle == [still EXCEPT !.state = "idle"]
             quiet == PublishLocal(idle, FALSE, FALSE)
  <2>1. Fired(p, timer) = Schedule(p, timer) \/ Fired(p, timer) = quiet
    BY <1>6 DEF Fired
  <2>2. SameFeed(p, still) /\ still \in Presence /\ ~still.typingRequested /\ ~still.typingActive
    BY NotTypingIs DEF SameFeed
  <2> HIDE DEF still
  <2>3. SameFeed(still, idle) /\ idle \in Presence /\ ~idle.typingRequested /\ ~idle.typingActive
    BY <2>2 DEF SameFeed, Presence
  <2> HIDE DEF idle
  <2>4. ~idle.destroyed /\ idle.connected
    BY <2>2, <2>3 DEF SameFeed
  <2>5. SameFeed(idle, quiet) /\ TidyTyping(quiet)
    BY <2>3, <2>4, PublishTidies
  <2> HIDE DEF quiet
  <2>6. SameFeed(p, quiet)
    BY <2>2, <2>3, <2>5 DEF SameFeed
  <2> QED BY <1>1, <1>2, <2>1, <2>5, <2>6
<1>7. CASE timer = "debounce"
  <2> DEFINE typing == [p EXCEPT !.typingActive = TRUE]
             said == PublishLocal(typing, FALSE, FALSE)
  <2>1. \/ Fired(p, timer) = p
        \/ p.typingRequested /\ Fired(p, timer) = Schedule(said, "refresh")
    BY <1>7 DEF Fired
  <2>2. CASE p.typingRequested /\ Fired(p, timer) = Schedule(said, "refresh")
    <3>1. /\ SameFeed(p, typing) /\ typing \in Presence /\ typing.published = p.published
          /\ typing.typingRequested = p.typingRequested
      BY DEF Presence, SameFeed
    <3> HIDE DEF typing
    <3>2. TidyTyping(typing)
      BY <2>2, <3>1 DEF TidyTyping, TypingInv, Tells, SameFeed
    <3>3. SameFeed(typing, said) /\ TidyTyping(said)
      BY <3>1, <3>2, PublishTidy
    <3> HIDE DEF said
    <3>4. said \in Presence
      BY <3>3 DEF SameFeed
    <3>5. SameFeed(said, Schedule(said, "refresh")) /\ TidyTyping(Schedule(said, "refresh"))
      BY <3>3, <3>4, ScheduleIs
    <3>6. SameFeed(p, Fired(p, timer))
      BY <2>2, <3>1, <3>3, <3>5 DEF SameFeed
    <3> QED BY <2>2, <3>5, <3>6
  <2> QED BY <1>2, <2>1, <2>2
<1> QED BY <1>4, <1>5, <1>6, <1>7

LEMMA TimerIsCurrent ==
  ASSUME PresenceInv, NEW timer \in {"heartbeat", "idle", "debounce", "refresh"},
         TimerFires(timer)
  PROVE  PresenceInv'
<1> DEFINE p == [presence EXCEPT !.timers = presence.timers \ {timer}]
<1>1. /\ \/ p.connected /\ ~p.destroyed /\ presence' = Fired(p, timer)
         \/ presence' = p
      /\ UNCHANGED presenceFeeds
  BY DEF TimerFires
<1>2. /\ SameFeed(presence, p) /\ p \in Presence /\ SameTyping(presence, p)
      /\ p.published = presence.published
  BY DEF PresenceInv, Presence, SameFeed, SameTyping
<1> HIDE DEF p
<1>3. TidyTyping(p)
  BY <1>2 DEF PresenceInv, TidyTyping, TypingInv, Tells, SameTyping, SameFeed
<1>4. CASE p.connected /\ ~p.destroyed /\ presence' = Fired(p, timer)
  <2>1. SameFeed(p, presence') /\ TidyTyping(presence')
    BY <1>2, <1>3, <1>4, FiredIs
  <2>2. SameFeed(presence, presence')
    BY <1>2, <2>1 DEF SameFeed
  <2> QED BY <1>1, <2>1, <2>2, QuietStep
<1> QED BY <1>1, <1>2, <1>3, <1>4, QuietStep

-----------------------------------------------------------------------------
(* The steps of the subscriptions *)

\* Records of others go, or one comes of a conversation that is shown.
LEMMA RecordsChange ==
  ASSUME NEW p \in Presence, TidyTyping(p), NEW feeds, FeedsInv(p, feeds),
         NEW remote \in SUBSET {p.conversation}
  PROVE  /\ [p EXCEPT !.remote = remote] \in Presence
         /\ TidyTyping([p EXCEPT !.remote = remote])
         /\ FeedsInv([p EXCEPT !.remote = remote], feeds)
<1> DEFINE q == [p EXCEPT !.remote = remote]
<1>1. p.conversation \in Conversations
  BY DEF Presence
<1>2. /\ q \in Presence /\ SameTyping(p, q) /\ q.published = p.published /\ q.remote = remote
      /\ q.conversation = p.conversation /\ q.connected = p.connected
      /\ q.destroyed = p.destroyed /\ q.generation = p.generation /\ q.installed = p.installed
  BY <1>1 DEF Presence, SameTyping
<1> HIDE DEF q
<1>3. TidyTyping(q)
  BY <1>2 DEF TidyTyping, TypingInv, Tells, SameTyping
<1>4. FeedsInv(q, feeds)
  BY <1>2 DEF FeedsInv
<1> QED BY <1>2, <1>3, <1>4 DEF q

LEMMA TimeIsCurrent ==
  ASSUME PresenceInv, TimePasses
  PROVE  PresenceInv'
<1> DEFINE later == [presence EXCEPT !.recent = FALSE]
<1>1. UNCHANGED presenceFeeds
  BY DEF TimePasses
<1>2. CASE presence' = later
  <2>1. SameFeed(presence, later) /\ TidyTyping(later)
    BY DEF PresenceInv, Presence, SameFeed, TidyTyping, TypingInv, Tells
  <2> HIDE DEF later
  <2> QED BY <1>1, <1>2, <2>1, QuietStep
<1>3. CASE presence' # later
  <2>1. PICK remote \in SUBSET {presence.conversation} :
          presence' = [presence EXCEPT !.remote = remote]
    <3> DEFINE kept == IF Usable THEN {} ELSE presence.remote
    <3>1. presence' = [presence EXCEPT !.remote = kept]
      BY <1>3 DEF TimePasses
    <3>2. kept \in SUBSET {presence.conversation}
      BY DEF PresenceInv, FeedsInv
    <3> QED BY <3>1, <3>2
  <2> QED BY <1>1, <2>1, RecordsChange DEF PresenceInv
<1> QED BY <1>2, <1>3

\* A subscription that is opening or read ends or is closed.
LEMMA FeedGone ==
  ASSUME NEW p, NEW feeds, FeedsInv(p, feeds), NEW i \in DOMAIN feeds, NEW feed \in Feed,
         feed.conversation = feeds[i].conversation, feed.generation = feeds[i].generation,
         feed.phase = "ended"
  PROVE  FeedsInv(p, [feeds EXCEPT ![i] = feed])
<1> DEFINE after == [feeds EXCEPT ![i] = feed]
<1>1. /\ after \in Seq(Feed) /\ DOMAIN after = DOMAIN feeds /\ Len(after) = Len(feeds)
      /\ \A j \in DOMAIN feeds : after[j] = IF j = i THEN feed ELSE feeds[j]
  BY DEF FeedsInv
<1> HIDE DEF after
<1>2. \A j \in DOMAIN feeds : after[j].generation = feeds[j].generation
                              /\ after[j].conversation = feeds[j].conversation
                              /\ (after[j].phase = "reading" => after[j] = feeds[j])
  BY <1>1
<1>3. FeedsInv(p, after)
  BY <1>1, <1>2 DEF FeedsInv
<1> QED BY <1>3 DEF after

LEMMA FeedOpensCurrent ==
  ASSUME PresenceInv, NEW i \in DOMAIN presenceFeeds, FeedOpens(i)
  PROVE  PresenceInv'
<1> DEFINE old == presenceFeeds[i]
           reading == [old EXCEPT !.phase = "reading"]
           dropped == [old EXCEPT !.phase = "ended", !.closed = TRUE]
           refused == [old EXCEPT !.phase = "ended"]
           p == [presence EXCEPT !.installed = i]
<1>1. /\ old.phase = "opening"
      /\ \/ /\ CurrentFeed(old) /\ presence' = p
            /\ presenceFeeds' = [presenceFeeds EXCEPT ![i] = reading]
         \/ /\ presence' = presence
            /\ \/ presenceFeeds' = [presenceFeeds EXCEPT ![i] = dropped]
               \/ presenceFeeds' = [presenceFeeds EXCEPT ![i] = refused]
  BY DEF FeedOpens
<1>2. /\ presenceFeeds \in Seq(Feed) /\ old \in Feed
      /\ i \in 1..Len(presenceFeeds) /\ Len(presenceFeeds) <= MaxSubscriptions
  BY DEF PresenceInv, FeedsInv
<1>3. /\ reading \in Feed /\ dropped \in Feed /\ refused \in Feed
      /\ reading.conversation = old.conversation /\ reading.generation = old.generation
      /\ dropped.conversation = old.conversation /\ dropped.generation = old.generation
      /\ refused.conversation = old.conversation /\ refused.generation = old.generation
      /\ dropped.phase = "ended" /\ refused.phase = "ended"
  BY <1>2 DEF Feed
<1> HIDE DEF reading, dropped, refused
<1>4. CASE /\ presence' = presence
           /\ \/ presenceFeeds' = [presenceFeeds EXCEPT ![i] = dropped]
              \/ presenceFeeds' = [presenceFeeds EXCEPT ![i] = refused]
  <2>1. /\ FeedsInv(presence, [presenceFeeds EXCEPT ![i] = dropped])
        /\ FeedsInv(presence, [presenceFeeds EXCEPT ![i] = refused])
    BY <1>3, FeedGone DEF PresenceInv
  <2> QED BY <1>4, <2>1 DEF PresenceInv
<1>5. CASE /\ CurrentFeed(old) /\ presence' = p
           /\ presenceFeeds' = [presenceFeeds EXCEPT ![i] = reading]
  <2>1. i \in 0..MaxSubscriptions
    BY <1>2, PresenceAssumption
  <2>2. /\ p \in Presence /\ SameTyping(presence, p) /\ p.published = presence.published
        /\ p.installed = i /\ p.remote = presence.remote
        /\ p.conversation = presence.conversation /\ p.connected = presence.connected
        /\ p.destroyed = presence.destroyed /\ p.generation = presence.generation
    BY <2>1 DEF PresenceInv, Presence, SameTyping
  <2> HIDE DEF p
  <2>3. TidyTyping(p)
    BY <2>2 DEF PresenceInv, TidyTyping, TypingInv, Tells, SameTyping
  <2> DEFINE feeds == [presenceFeeds EXCEPT ![i] = reading]
  <2>4. /\ feeds \in Seq(Feed) /\ DOMAIN feeds = DOMAIN presenceFeeds
        /\ Len(feeds) = Len(presenceFeeds)
        /\ \A j \in DOMAIN presenceFeeds : feeds[j] = IF j = i THEN reading ELSE presenceFeeds[j]
    BY <1>2, <1>3
  <2> HIDE DEF feeds
  <2>5. \A j \in DOMAIN presenceFeeds :
          /\ feeds[j].generation = presenceFeeds[j].generation
          /\ feeds[j].conversation = presenceFeeds[j].conversation
          /\ j # i => feeds[j] = presenceFeeds[j]
    BY <1>3, <2>4
  <2>6. old.generation = presence.generation /\ presence.connected /\ ~presence.destroyed
    BY <1>5 DEF CurrentFeed, Usable
  <2>7. \A j \in DOMAIN presenceFeeds :
          feeds[j].phase = "reading" /\ ~feeds[j].closed => j = i
    BY <2>5, <2>6 DEF PresenceInv, FeedsInv
  <2>8. FeedsInv(p, feeds)
    BY <2>2, <2>4, <2>5, <2>6, <2>7 DEF PresenceInv, FeedsInv
  <2> QED BY <1>5, <2>2, <2>3, <2>8 DEF PresenceInv, feeds
<1> QED BY <1>1, <1>4, <1>5

LEMMA FeedUpdatesCurrent ==
  ASSUME PresenceInv, NEW i \in DOMAIN presenceFeeds, FeedUpdates(i)
  PROVE  PresenceInv'
<1> DEFINE old == presenceFeeds[i]
           ended == [old EXCEPT !.phase = "ended"]
           remote == presence.remote \cup {old.conversation}
<1>1. \/ /\ CurrentFeed(old) /\ presence' = [presence EXCEPT !.remote = remote]
         /\ UNCHANGED presenceFeeds
      \/ presence' = presence /\ presenceFeeds' = [presenceFeeds EXCEPT ![i] = ended]
  BY DEF FeedUpdates
<1>2. /\ ended \in Feed /\ ended.conversation = old.conversation
      /\ ended.generation = old.generation /\ ended.phase = "ended"
  <2>1. old \in Feed
    BY DEF PresenceInv, FeedsInv
  <2> QED BY <2>1 DEF Feed
<1> HIDE DEF ended
<1>3. CurrentFeed(old) => remote \in SUBSET {presence.conversation}
  BY DEF CurrentFeed, PresenceInv, FeedsInv
<1> HIDE DEF remote
<1>4. CASE CurrentFeed(old) /\ presence' = [presence EXCEPT !.remote = remote]
           /\ UNCHANGED presenceFeeds
  BY <1>3, <1>4, RecordsChange DEF PresenceInv
<1>5. CASE presence' = presence /\ presenceFeeds' = [presenceFeeds EXCEPT ![i] = ended]
  BY <1>2, <1>5, FeedGone DEF PresenceInv
<1> QED BY <1>1, <1>4, <1>5

LEMMA FeedEndsCurrent ==
  ASSUME PresenceInv, NEW i \in DOMAIN presenceFeeds, FeedEnds(i)
  PROVE  PresenceInv'
<1> DEFINE old == presenceFeeds[i]
           ended == [old EXCEPT !.phase = "ended"]
           p == [presence EXCEPT !.installed = 0]
           feeds == [presenceFeeds EXCEPT ![i] = ended]
<1>1. /\ old.phase = "reading" /\ presenceFeeds' = feeds
      /\ \/ old.generation = presence.generation /\ presence' = p
         \/ presence' = presence
  BY DEF FeedEnds
<1>2. /\ ended \in Feed /\ ended.conversation = old.conversation
      /\ ended.generation = old.generation /\ ended.phase = "ended"
  <2>1. old \in Feed
    BY DEF PresenceInv, FeedsInv
  <2> QED BY <2>1 DEF Feed
<1> HIDE DEF ended
<1>3. FeedsInv(presence, feeds)
  BY <1>2, FeedGone DEF PresenceInv
<1>4. CASE presence' = presence
  BY <1>1, <1>3, <1>4 DEF PresenceInv
<1>5. CASE old.generation = presence.generation /\ presence' = p
  <2>1. /\ p \in Presence /\ SameTyping(presence, p) /\ p.published = presence.published
        /\ p.remote = presence.remote
        /\ p.conversation = presence.conversation /\ p.connected = presence.connected
        /\ p.destroyed = presence.destroyed /\ p.generation = presence.generation
    BY PresenceAssumption DEF PresenceInv, Presence, SameTyping
  <2> HIDE DEF p
  <2>2. TidyTyping(p)
    BY <2>1 DEF PresenceInv, TidyTyping, TypingInv, Tells, SameTyping
  <2>3. /\ presenceFeeds \in Seq(Feed) /\ DOMAIN feeds = DOMAIN presenceFeeds
        /\ \A j \in DOMAIN presenceFeeds : feeds[j] = IF j = i THEN ended ELSE presenceFeeds[j]
    BY DEF PresenceInv, FeedsInv
  <2> HIDE DEF feeds
  <2>4. \A j \in DOMAIN feeds : feeds[j].phase = "reading" => feeds[j].closed
    BY <1>2, <1>5, <2>3 DEF PresenceInv, FeedsInv
  <2>5. FeedsInv(p, feeds)
    BY <1>3, <2>1, <2>4 DEF FeedsInv
  <2> QED BY <1>1, <1>5, <2>1, <2>2, <2>5 DEF PresenceInv
<1> QED BY <1>1, <1>4, <1>5

LEMMA InitPresence ==
  PresenceInit => PresenceInv
<1> SUFFICES ASSUME PresenceInit PROVE PresenceInv
  OBVIOUS
<1>1. presence \in Presence
  BY PresenceAssumption DEF PresenceInit, Presence
<1>2. TidyTyping(presence)
  BY DEF PresenceInit, TidyTyping, TypingInv, Tells
<1>3. presenceFeeds = <<>> /\ presence.remote = {}
  BY DEF PresenceInit
<1>4. FeedsInv(presence, presenceFeeds)
  BY <1>3, PresenceAssumption DEF FeedsInv
<1> QED BY <1>1, <1>2, <1>4 DEF PresenceInv

LEMMA StepIsCurrent ==
  PresenceInv /\ [PresenceNext]_presenceVars => PresenceInv'
<1>1. PresenceInv /\ UNCHANGED presenceVars => PresenceInv'
  BY DEF PresenceInv, presenceVars
<1>2. PresenceInv /\ PresenceNext => PresenceInv'
  BY ConnectIsCurrent, NoteActivityIsCurrent, SetTypingIsCurrent, StopTypingIsCurrent,
     DisconnectIsCurrent, DestroyIsCurrent, TimeIsCurrent, SwitchIsCurrent, TimerIsCurrent,
     FeedOpensCurrent, FeedUpdatesCurrent, FeedEndsCurrent DEF PresenceNext
<1> QED BY <1>1, <1>2

\* Whatever answered late, the controller of src/src/presence/controller.ts shows the records
\* of its conversation only, reads one subscription, and tells the others of typing only while
\* it was not stopped.
THEOREM PresenceStaysCurrent ==
  PresenceSpec => []PresenceIsCurrent
<1>1. PresenceInv => PresenceIsCurrent
  <2> SUFFICES ASSUME PresenceInv PROVE PresenceIsCurrent
    OBVIOUS
  <2>1. \A i \in DOMAIN presenceFeeds :
          presenceFeeds[i].phase = "reading" /\ ~presenceFeeds[i].closed =>
            /\ i = presence.installed /\ presence.connected /\ ~presence.destroyed
            /\ presenceFeeds[i].conversation = presence.conversation
    BY DEF PresenceInv, FeedsInv
  <2> QED BY <2>1 DEF PresenceInv, FeedsInv, TidyTyping, Tells, PresenceIsCurrent, Usable
<1> QED BY <1>1, InitPresence, StepIsCurrent, PTL DEF PresenceSpec
=============================================================================
