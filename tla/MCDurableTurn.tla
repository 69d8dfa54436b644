--------------------------- MODULE MCDurableTurn ---------------------------
(* Model checking of DurableTurn: worker processes and Stop identities are     *)
(* interchangeable.                                                            *)
EXTENDS DurableTurn, TLC

Symmetry == Permutations(Workers) \cup Permutations(StopKeys)

=============================================================================
