----------------------------- MODULE AtomicTurn -----------------------------
(***************************************************************************)
(* What the `update` of the durable transport promises: a caller's mutation *)
(* is applied to the current record in one step, or not at all.  A call     *)
(* that reports a failure leaves open whether it was applied.               *)
(***************************************************************************)
CONSTANTS Callers, Records, Null, Mutate(_, _)

VARIABLES record, outcome

avars == <<record, outcome>>

AInit ==
  /\ record = Null
  /\ outcome = [c \in Callers |-> "open"]

\* The turn is created by one of its callers, once.
Create(c, r) ==
  /\ record = Null
  /\ record' = r
  /\ outcome' = [outcome EXCEPT ![c] = "updated"]

\* The mutation applies, and its result is the new record.
Apply(c) ==
  /\ outcome[c] = "open"
  /\ record # Null
  /\ Mutate(c, record) # Null
  /\ record' = Mutate(c, record)
  /\ outcome' = [outcome EXCEPT ![c] = "updated"]

\* There is no record, or the mutation declines the one there is.
Decline(c) ==
  /\ outcome[c] = "open"
  /\ record = Null \/ Mutate(c, record) = Null
  /\ outcome' = [outcome EXCEPT ![c] = "unchanged"]
  /\ UNCHANGED record

\* The call fails, with or without its effect.
Fail(c) ==
  /\ outcome[c] = "open"
  /\ \/ UNCHANGED record
     \/ record # Null /\ Mutate(c, record) # Null /\ record' = Mutate(c, record)
  /\ outcome' = [outcome EXCEPT ![c] = "failed"]

\* The caller's next call.
Reopen(c) ==
  /\ outcome[c] # "open"
  /\ outcome' = [outcome EXCEPT ![c] = "open"]
  /\ UNCHANGED record

ANext ==
  \E c \in Callers :
    \/ \E r \in Records : Create(c, r)
    \/ Apply(c) \/ Decline(c) \/ Fail(c) \/ Reopen(c)

ASpec == AInit /\ [][ANext]_avars

=============================================================================
