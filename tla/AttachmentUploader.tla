------------------------- MODULE AttachmentUploader -------------------------
(***************************************************************************)
(* The upload queue of the composer (src/src/attachments/uploader.ts): it  *)
(* keeps the selected files, hands up to `Concurrency` of them at a time   *)
(* to the host's adapter, and takes what the adapter answers, which may be *)
(* after the item was cancelled, removed, or found to be ready elsewhere.  *)
(*                                                                         *)
(* An item is named by its place in `uploads`: the map of the code keeps   *)
(* insertion order, and an item that was removed from it stays reachable   *)
(* for the uploads under way.                                              *)
(***************************************************************************)
EXTENDS Naturals, Sequences, FiniteSets, FiniteSetsExt

CONSTANTS
  Selections,     \* fingerprints of selected files
  Concurrency,    \* uploads at a time
  MaxItemCount,   \* maxImageCount or maxDocumentCount; the files are of one kind
  ByteSize,       \* of a file
  MaxItems,       \* bound: items ever enqueued
  MaxAttempts,    \* bound: uploads of one item
  MaxTokens       \* bound: runToken of an item that is restored

ASSUME UploaderAssumption ==
  /\ Concurrency \in Nat \ {0} /\ MaxItemCount \in Nat /\ ByteSize \in Nat
  /\ MaxItems \in Nat /\ MaxAttempts \in Nat /\ MaxTokens \in Nat

VARIABLES
  uploads,        \* #items, with the items that were removed
  uploadCalls,    \* calls of adapter.upload() that are not settled
  activeCount,    \* #activeCount
  disposed        \* #disposed

uploaderVars == <<uploads, uploadCalls, activeCount, disposed>>

-----------------------------------------------------------------------------
(* Types *)

\* held: waits for start(); retained: its source is; reference: the runToken of the
\* upload that made the item ready; restored: the reference is that of another view.
Item ==
  [selection : Selections, listed : BOOLEAN, held : BOOLEAN, retained : BOOLEAN,
   status : {"queued", "uploading", "ready", "failed", "cancelled"},
   retryable : BOOLEAN, runToken : Nat, attempt : Nat, uploaded : 0..ByteSize,
   reference : Nat, restored : BOOLEAN]

\* aborted: its AbortController was.
UploadCall == [item : 1..MaxItems, token : Nat, aborted : BOOLEAN]

UploaderTypeOK ==
  /\ uploads \in Seq(Item) /\ Len(uploads) <= MaxItems
  /\ uploadCalls \subseteq UploadCall
  /\ activeCount \in Nat
  /\ disposed \in BOOLEAN

UploaderInit ==
  /\ uploads = <<>>
  /\ uploadCalls = {}
  /\ activeCount = 0
  /\ disposed = FALSE

-----------------------------------------------------------------------------
(* The queue *)

WaitingIn(items) ==
  {i \in DOMAIN items : items[i].listed /\ ~items[i].held /\ items[i].status = "queued"}

\* #pump() and the synchronous part of #upload(): the first items that wait are taken
\* while there is room.
Pump(items, calls, active) ==
  LET waiting == WaitingIn(items)
      taken == {i \in waiting :
                  active + Cardinality({j \in waiting : j < i}) < Concurrency} IN
  /\ uploads' = [i \in DOMAIN items |->
       IF i \in taken
       THEN [items[i] EXCEPT !.status = "uploading", !.runToken = @ + 1, !.attempt = @ + 1]
       ELSE items[i]]
  /\ uploadCalls' = calls \cup
       {[item |-> i, token |-> items[i].runToken + 1, aborted |-> FALSE] : i \in taken}
  /\ activeCount' = active + Cardinality(taken)
  /\ UNCHANGED disposed

\* entry.controller?.abort()
Aborted(i) ==
  {IF call.item = i THEN [call EXCEPT !.aborted = TRUE] ELSE call : call \in uploadCalls}

Listed(i) == ~disposed /\ i \in DOMAIN uploads /\ uploads[i].listed

-----------------------------------------------------------------------------
(* The operations *)

\* enqueue(), of a file that is not in the queue; with a reference it is ready at once.
Enqueue(s, defer, restored) ==
  LET listed == {i \in DOMAIN uploads : uploads[i].listed}
      item == [selection |-> s, listed |-> TRUE, held |-> defer, retained |-> ~restored,
               status |-> IF restored THEN "ready" ELSE "queued", retryable |-> FALSE,
               runToken |-> 0, attempt |-> 0, uploaded |-> IF restored THEN ByteSize ELSE 0,
               reference |-> 0, restored |-> restored] IN
  /\ ~disposed /\ Len(uploads) < MaxItems
  /\ \A i \in listed : uploads[i].selection # s
  /\ Cardinality(listed) < MaxItemCount
  /\ Pump(Append(uploads, item), uploadCalls, activeCount)

StartUpload(i) ==
  /\ Listed(i) /\ uploads[i].held /\ uploads[i].status = "queued"
  /\ Pump([uploads EXCEPT ![i].held = FALSE], uploadCalls, activeCount)

\* restoreReady(): another view of the same file has completed the upload.
RestoreReady(i) ==
  /\ Listed(i) /\ uploads[i].runToken < MaxTokens
  /\ Pump([uploads EXCEPT ![i] =
             [uploads[i] EXCEPT !.runToken = @ + 1, !.retained = FALSE, !.held = FALSE,
                                !.status = "ready", !.restored = TRUE, !.uploaded = ByteSize]],
          Aborted(i), activeCount)

CancelUpload(i) ==
  /\ Listed(i) /\ uploads[i].status \in {"queued", "uploading"}
  /\ Pump([uploads EXCEPT ![i] =
             [uploads[i] EXCEPT !.status = "cancelled", !.runToken = @ + 1, !.retained = FALSE]],
          Aborted(i), activeCount)

RetryUpload(i) ==
  /\ Listed(i) /\ uploads[i].status = "failed" /\ uploads[i].retryable
  /\ uploads[i].attempt < MaxAttempts
  /\ Pump([uploads EXCEPT ![i] = [@ EXCEPT !.status = "queued", !.uploaded = 0]],
          uploadCalls, activeCount)

RemoveUpload(i) ==
  /\ Listed(i)
  /\ Pump([uploads EXCEPT ![i].listed = FALSE, ![i].runToken = @ + 1], Aborted(i), activeCount)

Dispose ==
  /\ ~disposed
  /\ uploads' = [i \in DOMAIN uploads |->
       IF uploads[i].listed THEN [uploads[i] EXCEPT !.listed = FALSE, !.runToken = @ + 1]
       ELSE uploads[i]]
  /\ uploadCalls' = {[call EXCEPT !.aborted = TRUE] : call \in uploadCalls}
  /\ disposed' = TRUE
  /\ UNCHANGED activeCount

-----------------------------------------------------------------------------
(* What the adapter answers *)

\* Mutant: whatever the adapter answers is taken.
CurrentUnlessDisposed(call) == ~disposed

\* The check before an answer is taken.
CurrentCall(call) ==
  /\ ~disposed /\ uploads[call.item].runToken = call.token
  /\ uploads[call.item].status = "uploading"

\* reportProgress()
ReportProgress(call, bytes) ==
  /\ CurrentCall(call) /\ bytes >= uploads[call.item].uploaded
  /\ uploads' = [uploads EXCEPT ![call.item].uploaded = bytes]
  /\ UNCHANGED <<uploadCalls, activeCount, disposed>>

\* The answer as the item takes it: a valid reference, a failure that may be retried,
\* or one that may not, such as a reference that is not valid.
Taken(item, call, answer) ==
  IF answer = "reference"
  THEN [item EXCEPT !.status = "ready", !.uploaded = ByteSize, !.reference = call.token,
                    !.retained = FALSE]
  ELSE [item EXCEPT !.status = "failed", !.retryable = answer = "retryable",
                    !.retained = answer = "retryable"]

\* Mutant: the slot of an upload whose answer came too late is not given back.
SettleUploadOnce(call, answer) ==
  LET rest == uploadCalls \ {call} IN
  IF disposed THEN
    /\ uploadCalls' = rest /\ activeCount' = activeCount - 1
    /\ UNCHANGED <<uploads, disposed>>
  ELSE IF ~CurrentCall(call) THEN Pump(uploads, rest, activeCount)
  ELSE Pump([uploads EXCEPT ![call.item] = Taken(@, call, answer)], rest, activeCount - 1)

\* The rest of #upload(): the answer is taken or dropped, and the slot is free again.
SettleUpload(call, answer) ==
  LET items == IF CurrentCall(call)
               THEN [uploads EXCEPT ![call.item] = Taken(@, call, answer)] ELSE uploads
      rest == uploadCalls \ {call} IN
  IF disposed THEN
    /\ uploadCalls' = rest /\ activeCount' = activeCount - 1
    /\ UNCHANGED <<uploads, disposed>>
  ELSE Pump(items, rest, activeCount - 1)

UploaderNext ==
  \/ \E s \in Selections, defer, restored \in BOOLEAN : Enqueue(s, defer, restored)
  \/ \E i \in 1..MaxItems :
       StartUpload(i) \/ RestoreReady(i) \/ CancelUpload(i) \/ RetryUpload(i) \/ RemoveUpload(i)
  \/ Dispose
  \/ \E call \in uploadCalls :
       \/ \E bytes \in 0..ByteSize : ReportProgress(call, bytes)
       \/ \E answer \in {"reference", "retryable", "refused"} : SettleUpload(call, answer)

UploaderSpec == UploaderInit /\ [][UploaderNext]_uploaderVars

-----------------------------------------------------------------------------
(* Properties *)

\* Every upload holds one slot until the adapter settles it, no more are under way than
\* allowed, those whose answer will be dropped were aborted, and no slot is free while an
\* item waits.  An item that waits has its source: #pump() would not end otherwise.
SlotsAreAccounted ==
  /\ activeCount = Cardinality(uploadCalls)
  /\ activeCount <= Concurrency
  /\ \A call \in uploadCalls : CurrentCall(call) \/ call.aborted
  /\ ~disposed => WaitingIn(uploads) = {} \/ activeCount = Concurrency
  /\ \A i \in DOMAIN uploads : uploads[i].status = "queued" => uploads[i].retained

\* An answer that comes late changes nothing: a cancelled item stays cancelled and a
\* ready one keeps its reference, unless another view of the file has completed it.
LateAnswersAreDropped ==
  [][\A i \in DOMAIN uploads :
       uploads[i].status \in {"cancelled", "ready"} =>
         \/ uploads'[i].restored /\ uploads'[i].status = "ready"
         \/ /\ uploads'[i].status = uploads[i].status
            /\ uploads'[i].reference = uploads[i].reference]_uploaderVars
=============================================================================
