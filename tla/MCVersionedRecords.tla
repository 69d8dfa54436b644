------------------------- MODULE MCVersionedRecords -------------------------
(* Model checking of two kinds of records that are read, changed and then      *)
(* written if their version is still the one that was read: the document of a  *)
(* durable turn and the record of a realtime call.  They share no state: `part`*)
(* says which of them is followed, and the other one stays where it is.        *)
EXTENDS TurnStore, RealtimeCall, TLC

VARIABLE part

\* A document is the set of callers whose mutation it contains, so that a lost or a
\* doubled update shows; a caller declines a document that contains its own.
MCRecords == {r : r \in SUBSET Callers}
MCMutate(c, r) == IF c \in r THEN Null ELSE r \cup {c}

\* Workers and tools are told apart by nothing.
Alike == Permutations(CallWorkers) \cup Permutations(CallTools)

\* Of a call either two workers or two tools are followed.
CallsToFollow ==
  \/ Cardinality({w \in CallWorkers : workers[w].pc # "idle"}) <= 1
  \/ Cardinality({t \in CallTools : tools[t] # "none"}) <= 1

RecordsInit == part \in {"turn", "call"} /\ Init /\ CallInit

RecordsNext ==
  \/ part = "turn" /\ Next /\ UNCHANGED <<part, callVars>>
  \/ part = "call" /\ CallNext /\ CallsToFollow' /\ UNCHANGED <<part, vars>>

RecordsSpec == RecordsInit /\ [][RecordsNext]_<<part, vars, callVars>>
=============================================================================
