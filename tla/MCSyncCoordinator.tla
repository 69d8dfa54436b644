------------------------- MODULE MCSyncCoordinator -------------------------
(* Model checking of SyncCoordinator on one device, over two histories: one    *)
(* tab alone, whose queue may outgrow the adapter's batch, and two tabs that   *)
(* share a shorter queue.                                                      *)
EXTENDS SyncCoordinator, TLC

CONSTANTS a, b, e, device

VARIABLE history

OneDevice == [c \in Clients |-> device]

\* Mutations are queued in one tab; another tab finds them in the saved record.
QueuedInA == [m \in Mutations |-> a]

\* The bounds of each history.
Within ==
  IF history = "alone" THEN client'[b] = NewClient
  ELSE faults' <= 1 /\ outcome'[3] = "none"
       /\ Cardinality({m \in Mutations : outcome'[m] # "none"}) + Cardinality({e} \cap Range(log')) <= 2

SyncInit == Init /\ history \in {"alone", "tabs"}
SyncNext == Next /\ Within /\ UNCHANGED history

\* Without another tab, whose steps `Within` forbids, Fairness is that of the one.
SyncSpec ==
  /\ SyncInit /\ [][SyncNext]_<<vars, history>>
  /\ WF_vars(Step(a) \/ Connect(a) \/ Start(a) \/ Flush(a))

\* A mutation that is accepted while there is one tab is eventually in the log, or
\* reported as rejected: QueuedIsDelivered in the first history.
DeliveredAlone == history = "alone" => QueuedIsDelivered
=============================================================================
