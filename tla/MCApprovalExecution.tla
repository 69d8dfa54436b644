------------------------ MODULE MCApprovalExecution -------------------------
(* Model checking of ApprovalExecution: two requests retry one execution and a  *)
(* third asks under another identity.                                           *)
EXTENDS ApprovalExecution, TLC

CONSTANTS c1, c2, c3, x1, x2

MCExecutionOf == (c1 :> x1) @@ (c2 :> x1) @@ (c3 :> x2)

=============================================================================
