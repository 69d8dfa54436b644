----------------------- MODULE MCConversationRuntime ------------------------
(* Model checking of ConversationRuntime: a browser and a projection on the    *)
(* server, which tries once.  A behaviour has a turn that reports usage in the *)
(* middle, one whose texts make a batch, one that waits for an approval, or    *)
(* the latter and another one that is sent meanwhile.                          *)
EXTENDS ConversationRuntime, TLC

CONSTANTS browser, projection, metered, batched, paused, other

TwoAttempts == (browser :> 2) @@ (projection :> 1)

Responses ==
  (metered :> <<"started", "usage", "text", "completed">>)
    @@ (batched :> <<"started", "text", "text", "completed">>)
    @@ (paused :> <<"started", "completed">>)
    @@ (other :> <<"started", "completed">>)
Pauses == (metered :> 0) @@ (batched :> 0) @@ (paused :> 1) @@ (other :> 0)

OneOrTwo ==
  {[turns |-> {metered}, resumes |-> 1, faults |-> 1],
   [turns |-> {batched}, resumes |-> 2, faults |-> 0],
   [turns |-> {paused}, resumes |-> 1, faults |-> 1],
   [turns |-> {paused}, resumes |-> 2, faults |-> 0],
   [turns |-> {paused, other}, resumes |-> 1, faults |-> 0]}
=============================================================================
