------------------------- MODULE ProviderOperation --------------------------
(***************************************************************************)
(* PostgresProviderOperationStore.run() (src/src/postgres/index.ts): an    *)
(* operation of a provider, which costs money, is claimed in the database  *)
(* before it is dispatched, and its result is kept for every later run.    *)
(* retainProviderInvocation() (src/src/server/provider-invocations.ts)     *)
(* runs a provider's stream as such an operation, and the deletion of the  *)
(* conversation purges the result (src/src/postgres/conversation-deletion).*)
(*                                                                         *)
(* Of a result only the run that dispatched the operation is told apart.   *)
(***************************************************************************)
EXTENDS Naturals, FiniteSets

CONSTANTS
  OperationRuns,   \* calls of run() for one operation, of all processes
  Fingerprint,     \* of the request of each run
  MayClaim,        \* runs with allowNewClaim
  NoOperation,     \* there is no record
  MaxOperationFaults  \* bound: lost answers of the database

ASSUME OperationAssumption ==
  /\ MayClaim \subseteq OperationRuns /\ MaxOperationFaults \in Nat
  /\ NoOperation \notin OperationRuns
Errors == {"error", "uncertain", "conflict", "deleted"}
ASSUME RunsAssumption == OperationRuns \cap (Errors \cup {"nothing"}) = {}

VARIABLES
  operation,       \* the record of the operation
  conversationDeleted,
  lateWrites,      \* writes without an answer that the database may still commit
  operationRun,    \* where each run is, and what it told its caller
  dispatched,      \* runs that called the provider
  operationFaults

operationVars ==
  <<operation, conversationDeleted, lateWrites, operationRun, dispatched, operationFaults>>

-----------------------------------------------------------------------------
(* Types *)

\* status: the version of the record is 1 when started, 2 completed, 3 purged.
Operation ==
  [fingerprint : {Fingerprint[r] : r \in OperationRuns},
   status : {"started", "completed", "purged"}, result : OperationRuns \cup {NoOperation}]
ASSUME RecordAssumption == NoOperation \notin Operation

OperationTypeOK ==
  /\ operation \in Operation \cup {NoOperation}
  /\ conversationDeleted \in BOOLEAN
  /\ lateWrites \subseteq [run : OperationRuns, status : {"started", "completed"}]
  /\ operationRun \in [OperationRuns ->
       [pc : {"read", "claim", "reread", "execute", "complete", "repair", "done"},
        told : OperationRuns \cup Errors \cup {"nothing"}]]
  /\ dispatched \subseteq OperationRuns
  /\ operationFaults \in 0..MaxOperationFaults

OperationInit ==
  /\ operation = NoOperation
  /\ conversationDeleted = FALSE
  /\ lateWrites = {}
  /\ operationRun = [r \in OperationRuns |-> [pc |-> "read", told |-> "nothing"]]
  /\ dispatched = {}
  /\ operationFaults = 0

-----------------------------------------------------------------------------
(* The record *)

At(r, pc) == operationRun[r].pc = pc
GoTo(r, pc) == operationRun' = [operationRun EXCEPT ![r].pc = pc]
Tell(r, what) == operationRun' = [operationRun EXCEPT ![r] = [pc |-> "done", told |-> what]]

\* What readCompleted() returns or throws, if there is a record.
Completed(r) ==
  IF operation.fingerprint # Fingerprint[r] THEN "conflict"
  ELSE CASE operation.status = "purged" -> "deleted"
         [] operation.status = "started" -> "uncertain"
         [] operation.status = "completed" -> operation.result

\* compareAndSetDocument(): the claim expects no record, the completion a claim.
Accepts(status) ==
  IF status = "started" THEN operation = NoOperation /\ ~conversationDeleted
  ELSE operation # NoOperation /\ operation.status = "started"

Write(r, status) ==
  operation' = [fingerprint |-> Fingerprint[r], status |-> status,
                result |-> IF status = "completed" THEN r ELSE NoOperation]

\* The database's answer is lost: the write is done, or it is done later, if ever.
LoseAnswer(r, status) ==
  /\ operationFaults < MaxOperationFaults
  /\ operationFaults' = operationFaults + 1
  /\ \/ Accepts(status) /\ Write(r, status) /\ UNCHANGED lateWrites
     \/ /\ lateWrites' = lateWrites \cup {[run |-> r, status |-> status]}
        /\ UNCHANGED operation

-----------------------------------------------------------------------------
(* run() *)

ReadOperation(r) ==
  /\ At(r, "read")
  /\ \/ operation # NoOperation /\ Tell(r, Completed(r))
     \/ operation = NoOperation /\ r \notin MayClaim /\ Tell(r, "uncertain")
     \/ operation = NoOperation /\ r \in MayClaim /\ GoTo(r, "claim")
  /\ UNCHANGED <<operation, conversationDeleted, lateWrites, dispatched, operationFaults>>

\* Mutant: a claim without an answer is taken for granted if there is no record of another.
ClaimOptimistically(r) ==
  /\ At(r, "claim")
  /\ \/ Accepts("started") /\ Write(r, "started") /\ GoTo(r, "execute")
        /\ UNCHANGED <<lateWrites, operationFaults>>
     \/ operation # NoOperation /\ GoTo(r, "reread")
        /\ UNCHANGED <<operation, lateWrites, operationFaults>>
     \/ conversationDeleted /\ Tell(r, "error")
        /\ UNCHANGED <<operation, lateWrites, operationFaults>>
     \/ operation = NoOperation /\ LoseAnswer(r, "started") /\ GoTo(r, "execute")
  /\ UNCHANGED <<conversationDeleted, dispatched>>

\* Only a claim that is known to be committed permits the dispatch.
Claim(r) ==
  /\ At(r, "claim")
  /\ \/ Accepts("started") /\ Write(r, "started") /\ GoTo(r, "execute")
        /\ UNCHANGED <<lateWrites, operationFaults>>
     \/ operation # NoOperation /\ GoTo(r, "reread")
        /\ UNCHANGED <<operation, lateWrites, operationFaults>>
     \/ conversationDeleted /\ Tell(r, "error")
        /\ UNCHANGED <<operation, lateWrites, operationFaults>>
     \/ LoseAnswer(r, "started") /\ Tell(r, "error")
  /\ UNCHANGED <<conversationDeleted, dispatched>>

\* Another claim won; it may have completed.
ReadWinner(r) ==
  /\ At(r, "reread")
  /\ Tell(r, IF operation = NoOperation THEN "error" ELSE Completed(r))
  /\ UNCHANGED <<operation, conversationDeleted, lateWrites, dispatched, operationFaults>>

\* execute(), unless the invocation is aborted before.
Execute(r) ==
  /\ At(r, "execute")
  /\ \/ dispatched' = dispatched \cup {r} /\ GoTo(r, "complete")
     \/ Tell(r, "error") /\ UNCHANGED dispatched
  /\ UNCHANGED <<operation, conversationDeleted, lateWrites, operationFaults>>

\* The result is saved.  Without an answer, or after a conflict, the record decides.
Complete(r) ==
  /\ At(r, "complete")
  /\ \/ Accepts("completed") /\ Write(r, "completed") /\ Tell(r, r)
        /\ UNCHANGED <<lateWrites, operationFaults>>
     \/ ~Accepts("completed") /\ GoTo(r, "repair")
        /\ UNCHANGED <<operation, lateWrites, operationFaults>>
     \/ LoseAnswer(r, "completed") /\ GoTo(r, "repair")
  /\ UNCHANGED <<conversationDeleted, dispatched>>

Repair(r) ==
  /\ At(r, "repair")
  /\ Tell(r, IF operation # NoOperation /\ Completed(r) \in OperationRuns
             THEN Completed(r) ELSE "error")
  /\ UNCHANGED <<operation, conversationDeleted, lateWrites, dispatched, operationFaults>>

\* The provider or the observation of its stream fails, the generator is returned before
\* its end, or the process dies: the claim stays.
Abandon(r) ==
  /\ ~At(r, "done") /\ Tell(r, "error")
  /\ UNCHANGED <<operation, conversationDeleted, lateWrites, dispatched, operationFaults>>

LateWrite(w) ==
  /\ lateWrites' = lateWrites \ {w}
  /\ IF Accepts(w.status) THEN Write(w.run, w.status) ELSE UNCHANGED operation
  /\ UNCHANGED <<conversationDeleted, operationRun, dispatched, operationFaults>>

\* deletePostgresConversationHistory(): not while an operation is uncertain.
DeleteConversation ==
  /\ ~conversationDeleted
  /\ operation # NoOperation => operation.status = "completed"
  /\ conversationDeleted' = TRUE
  /\ operation' = IF operation = NoOperation THEN operation
                  ELSE [operation EXCEPT !.status = "purged", !.result = NoOperation]
  /\ UNCHANGED <<lateWrites, operationRun, dispatched, operationFaults>>

OperationNext ==
  \/ \E r \in OperationRuns :
       \/ ReadOperation(r) \/ Claim(r) \/ ReadWinner(r) \/ Execute(r) \/ Complete(r)
       \/ Repair(r) \/ Abandon(r)
  \/ \E w \in lateWrites : LateWrite(w)
  \/ DeleteConversation

OperationSpec == OperationInit /\ [][OperationNext]_operationVars

-----------------------------------------------------------------------------
(* Properties *)

\* The provider is called at most once for the operation, whatever is lost or repeated,
\* and every run that returns a result returns that of this one call, once it is saved.
DispatchedOnce ==
  /\ \A r, q \in dispatched : r = q
  /\ \A r \in OperationRuns : operationRun[r].told \in OperationRuns =>
       /\ operationRun[r].told \in dispatched
       /\ operation # NoOperation /\ operation.status # "started"
=============================================================================
