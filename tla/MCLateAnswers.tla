--------------------------- MODULE MCLateAnswers ----------------------------
(* Model checking of five components that take answers which may come late or  *)
(* not at all.  They share no state, so that a behaviour of the system is a    *)
(* behaviour of each: `part` says which of them is followed, and the others    *)
(* stay where they are.                                                        *)
EXTENDS AttachmentUploader, ProviderOperation, UsageOutbox, PresenceController,
        RealtimeToolBridge, TLC

CONSTANTS first, second, third, voice, video, lookup, write

VARIABLE part

Requests == (first :> "same") @@ (second :> "same") @@ (third :> "other")

\* A call, the same with other arguments, a second call under the first one's key and
\* under its own, and the first in a session that was opened anew.
Call(capability, call, key, arguments) ==
  [session |-> voice, capability |-> capability, call |-> call, key |-> key,
   arguments |-> arguments]
CallsToSend ==
  {Call("old", lookup, "first", "these"), Call("old", lookup, "first", "others"),
   Call("old", write, "first", "these"), Call("old", write, "second", "these"),
   Call("new", lookup, "first", "these")}
CallsToReview == {e \in CallsToSend : e.arguments = "these"}

Follow(name, next, others) == part = name /\ next /\ UNCHANGED <<part, others>>

LateInit ==
  /\ part \in {"uploads", "operation", "usage", "presence", "voice"}
  /\ UploaderInit /\ OperationInit /\ OutboxInit /\ PresenceInit /\ BridgeInit

LateNext ==
  \/ Follow("uploads", UploaderNext, <<operationVars, outboxVars, presenceVars, bridgeVars>>)
  \/ Follow("operation", OperationNext, <<uploaderVars, outboxVars, presenceVars, bridgeVars>>)
  \/ Follow("usage", OutboxNext, <<uploaderVars, operationVars, presenceVars, bridgeVars>>)
  \/ Follow("presence", PresenceNext, <<uploaderVars, operationVars, outboxVars, bridgeVars>>)
  \/ Follow("voice", BridgeNext, <<uploaderVars, operationVars, outboxVars, presenceVars>>)

LateSpec ==
  LateInit /\ [][LateNext]_<<part, uploaderVars, operationVars, outboxVars, presenceVars,
                             bridgeVars>>
=============================================================================
