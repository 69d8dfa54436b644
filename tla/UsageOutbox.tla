---------------------------- MODULE UsageOutbox -----------------------------
(***************************************************************************)
(* Usage receipts on their way to telemetry: the outbox in Postgres        *)
(* (PostgresAIRuntimeUsageOutbox, src/src/postgres/index.ts) and the sink  *)
(* that delivers from it (createAIRuntimeUsageReceiptSink(),               *)
(* src/src/server/usage-control.ts), in several processes that share the   *)
(* outbox.  Every process has one flush at a time (`flushing`).            *)
(***************************************************************************)
EXTENDS Naturals, FiniteSets

CONSTANTS
  Receipts,         \* by usage_receipt_id; one identity has one content
  Sinks,            \* processes
  NoReceipt,
  MaximumWrites,    \* attempts of acknowledge() and failed() (4)
  MaxFlushes,       \* bound: flushes of each process
  MaxOutboxFaults   \* bound: database errors

ASSUME OutboxAssumption ==
  /\ MaximumWrites \in Nat \ {0} /\ MaxFlushes \in Nat /\ MaxOutboxFaults \in Nat
  /\ NoReceipt \notin Receipts

VARIABLES
  outbox,           \* the record of each receipt, or NoReceipt
  captured,         \* receipts whose capture() has resolved
  telemetry,        \* what telemetry answered about each receipt, or would have
  sink,             \* the flush of each process
  outboxFaults

outboxVars == <<outbox, captured, telemetry, sink, outboxFaults>>

-----------------------------------------------------------------------------
(* Types *)

OutboxRecord == [status : {"pending", "failed", "delivered"}, version : Nat \ {0}, attempts : Nat]
ASSUME OutboxRecordAssumption == NoReceipt \notin OutboxRecord

\* entries: what pending() returned and is not done; receipt: the one at hand; seen: the
\* version that was read; writes: conflicts of this acknowledge() or failed();
\* retryable: of the error that failed() records.
Sink ==
  [pc : {"idle", "settle", "acknowledge", "failed"}, entries : SUBSET Receipts,
   receipt : Receipts \cup {NoReceipt}, seen : Nat, writes : 0..MaximumWrites,
   retryable : BOOLEAN, flushes : 0..MaxFlushes]

OutboxTypeOK ==
  /\ outbox \in [Receipts -> OutboxRecord \cup {NoReceipt}]
  /\ captured \subseteq Receipts
  /\ telemetry \in [Receipts -> SUBSET {"accepted", "refused"}]
  /\ sink \in [Sinks -> Sink]
  /\ outboxFaults \in 0..MaxOutboxFaults

Resting(flushes) ==
  [pc |-> "idle", entries |-> {}, receipt |-> NoReceipt, seen |-> 0, writes |-> 0,
   retryable |-> FALSE, flushes |-> flushes]

OutboxInit ==
  /\ outbox = [x \in Receipts |-> NoReceipt]
  /\ captured = {}
  /\ telemetry = [x \in Receipts |-> {}]
  /\ sink = [s \in Sinks |-> Resting(0)]
  /\ outboxFaults = 0

OutboxFault == outboxFaults < MaxOutboxFaults /\ outboxFaults' = outboxFaults + 1

-----------------------------------------------------------------------------
(* capture() and flush() *)

\* enqueue(), whose read and conditional write agree because a record is never removed.
\* A receipt that is captured again is left as it is.  The flush that follows is one of
\* those of Flush.
Capture(x) ==
  LET stored == IF outbox[x] # NoReceipt THEN outbox
                ELSE [outbox EXCEPT ![x] = [status |-> "pending", version |-> 1, attempts |-> 0]] IN
  /\ \/ outbox' = stored /\ captured' = captured \cup {x} /\ UNCHANGED outboxFaults
     \/ outbox' \in {outbox, stored} /\ OutboxFault /\ UNCHANGED captured
  /\ UNCHANGED <<telemetry, sink>>

Flush(s) ==
  LET entries == {x \in Receipts : outbox[x] # NoReceipt /\ outbox[x].status = "pending"} IN
  /\ sink[s].pc = "idle" /\ entries # {} /\ sink[s].flushes < MaxFlushes
  /\ sink' = [sink EXCEPT ![s] =
       [Resting(@.flushes + 1) EXCEPT !.pc = "settle", !.entries = entries]]
  /\ UNCHANGED <<outbox, captured, telemetry, outboxFaults>>

\* The entry is done: the next one follows, or the flush ends.
NextEntry(k) ==
  IF k.entries = {} THEN Resting(k.flushes)
  ELSE [k EXCEPT !.pc = "settle", !.receipt = NoReceipt, !.seen = 0, !.writes = 0]

\* client.settle(), with the retries of postReceipts(): telemetry accepts the receipt,
\* refuses it for good, or cannot be reached, having accepted it or not.
SettleReceipt(s, x) ==
  LET k == [sink[s] EXCEPT !.receipt = x, !.entries = @ \ {x}] IN
  /\ sink[s].pc = "settle" /\ x \in sink[s].entries
  /\ \/ /\ telemetry' = [telemetry EXCEPT ![x] = @ \cup {"accepted"}]
        /\ sink' = [sink EXCEPT ![s] = [k EXCEPT !.pc = "acknowledge"]]
     \/ /\ telemetry' = [telemetry EXCEPT ![x] = @ \cup {"refused"}]
        /\ sink' = [sink EXCEPT ![s] = [k EXCEPT !.pc = "failed", !.retryable = FALSE]]
     \/ /\ telemetry' \in {telemetry, [telemetry EXCEPT ![x] = @ \cup {"accepted"}]}
        /\ sink' = [sink EXCEPT ![s] = [k EXCEPT !.pc = "failed", !.retryable = TRUE]]
  /\ UNCHANGED <<outbox, captured, outboxFaults>>

\* failed() with a retryable error ends the flush.
AfterFailed(k) == IF k.retryable THEN Resting(k.flushes) ELSE NextEntry(k)

\* An error of acknowledge() is recorded by failed(); one of failed() rejects the flush.
Broken(k) ==
  IF k.pc = "acknowledge"
  THEN [k EXCEPT !.pc = "failed", !.seen = 0, !.writes = 0, !.retryable = TRUE]
  ELSE Resting(k.flushes)

Done(k) == IF k.pc = "acknowledge" THEN NextEntry(k) ELSE AfterFailed(k)

\* Mutant: failed() does not look whether the receipt was delivered.
ReadRecordOnly(s) ==
  LET k == sink[s] IN
  /\ k.pc \in {"acknowledge", "failed"} /\ k.seen = 0
  /\ sink' = [sink EXCEPT ![s] = [k EXCEPT !.seen = outbox[k.receipt].version]]
  /\ UNCHANGED <<outbox, captured, telemetry, outboxFaults>>

\* acknowledge() and failed() read the record; a delivered one is left alone.
ReadRecord(s) ==
  LET k == sink[s]
      current == outbox[k.receipt] IN
  /\ k.pc \in {"acknowledge", "failed"} /\ k.seen = 0
  /\ sink' = [sink EXCEPT ![s] =
       IF current = NoReceipt \/ current.status = "delivered" THEN Done(k)
       ELSE [k EXCEPT !.seen = current.version]]
  /\ UNCHANGED <<outbox, captured, telemetry, outboxFaults>>

\* They write it if it is what they read, and try again if it is not.
WriteRecord(s) ==
  LET k == sink[s]
      current == outbox[k.receipt]
      written == [outbox EXCEPT ![k.receipt] =
        IF k.pc = "acknowledge"
        THEN [current EXCEPT !.status = "delivered", !.version = @ + 1]
        ELSE [status |-> IF k.retryable THEN "pending" ELSE "failed",
              version |-> current.version + 1, attempts |-> current.attempts + 1]] IN
  /\ k.pc \in {"acknowledge", "failed"} /\ k.seen # 0
  /\ \/ /\ current.version = k.seen
        /\ outbox' = written
        /\ sink' = [sink EXCEPT ![s] = Done(k)]
        /\ UNCHANGED outboxFaults
     \/ /\ current.version # k.seen
        /\ sink' = [sink EXCEPT ![s] =
             IF k.writes + 1 = MaximumWrites THEN Broken(k)
             ELSE [k EXCEPT !.seen = 0, !.writes = @ + 1]]
        /\ UNCHANGED <<outbox, outboxFaults>>
     \/ /\ OutboxFault
        /\ outbox' \in {outbox} \cup (IF current.version = k.seen THEN {written} ELSE {})
        /\ sink' = [sink EXCEPT ![s] = Broken(k)]
  /\ UNCHANGED <<captured, telemetry>>

\* The process dies; another flush may be started later.
RestartSink(s) ==
  /\ sink[s].pc # "idle" /\ OutboxFault
  /\ sink' = [sink EXCEPT ![s] = Resting(@.flushes)]
  /\ UNCHANGED <<outbox, captured, telemetry>>

OutboxNext ==
  \/ \E x \in Receipts : Capture(x)
  \/ \E s \in Sinks :
       \/ Flush(s) \/ ReadRecord(s) \/ WriteRecord(s) \/ RestartSink(s)
       \/ \E x \in Receipts : SettleReceipt(s, x)

OutboxSpec == OutboxInit /\ [][OutboxNext]_outboxVars

-----------------------------------------------------------------------------
(* Properties *)

\* A captured receipt is kept until telemetry has it or has refused it, and that it was
\* delivered is never forgotten, whatever other processes learn afterwards.
ReceiptIsKept ==
  [][\A x \in Receipts :
       /\ x \in captured' => outbox'[x] # NoReceipt
       /\ outbox'[x] # NoReceipt =>
            /\ outbox'[x].status = "delivered" => "accepted" \in telemetry'[x]
            /\ outbox'[x].status = "failed" => "refused" \in telemetry'[x]
       /\ outbox[x] # NoReceipt /\ outbox[x].status = "delivered" =>
            outbox'[x] = outbox[x]]_outboxVars
=============================================================================
