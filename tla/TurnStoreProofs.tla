-------------------------- MODULE TurnStoreProofs ---------------------------
(* That update() is atomic, for any callers, records, mutations and bounds.    *)
EXTENDS TurnStore, TLAPS

\* What the refinement needs of a reachable state.
IInv == TypeOK /\ FreshWhenExpected

\* A declined call, an ended call and an idle one have the shape of a call.
LEMMA EndedType ==
  ASSUME NEW o \in {"load", "cas", "updated", "unchanged", "failed"}
  PROVE  Ended(o) \in Call /\ Ended(o).pc = o
  BY CasAssumption DEF Ended, Idle, Call

\* Every step of the store and of its callers keeps versions identifying records.
LEMMA StepKeepsIInv ==
  ASSUME IInv, [Next]_vars
  PROVE  IInv'
<1> USE DEF IInv
<1>1. CASE UNCHANGED vars
  BY <1>1 DEF vars, TypeOK, FreshWhenExpected
<1>2. ASSUME NEW c \in Callers, NEW r \in Records, Create(c, r)
      PROVE  IInv'
  <2>1. TypeOK'
    BY <1>2, EndedType, NullAssumption, CasAssumption DEF Create, TypeOK
  <2>2. FreshWhenExpected'
    BY <1>2, EndedType DEF Create, TypeOK, FreshWhenExpected, Call
  <2> QED BY <2>1, <2>2
<1>3. ASSUME NEW c \in Callers, Load(c)
      PROVE  IInv'
  <2>1. doc.version # 0 => Mutate(c, doc.record) \in Records \cup {Null}
    BY MutateAssumption DEF TypeOK
  <2>2. TypeOK'
    BY <1>3, <2>1, EndedType DEF Load, TypeOK, Call
  <2>3. FreshWhenExpected'
    BY <1>3, <2>1, EndedType DEF Load, TypeOK, FreshWhenExpected, Call
  <2> QED BY <2>2, <2>3
<1>4. ASSUME NEW c \in Callers, call[c].pc = "cas", doc.version = call[c].expected,
             doc.version < MaxVersion, doc' = Written(c),
             NEW o \in {"updated", "failed"}, call' = [call EXCEPT ![c] = Ended(o)]
      PROVE  IInv'
  <2>1. call[c].next # Null /\ call[c].next \in Records
    BY <1>4 DEF TypeOK, FreshWhenExpected, Call
  <2>2. doc' \in [version : 0..MaxVersion, record : Records \cup {Null}]
        /\ doc'.version = doc.version + 1 /\ doc'.record = call[c].next
    BY <1>4, <2>1, CasAssumption DEF Written, TypeOK
  <2>3. TypeOK'
    BY <1>4, <2>1, <2>2, EndedType DEF TypeOK
  <2>4. FreshWhenExpected'
    BY <1>4, <2>2, EndedType DEF TypeOK, FreshWhenExpected, Call
  <2> QED BY <2>3, <2>4
<1>5. ASSUME NEW c \in Callers, Conflict(c)
      PROVE  IInv'
  <2>1. TypeOK'
    BY <1>5, EndedType, CasAssumption DEF Conflict, TypeOK, Call, Idle
  <2>2. FreshWhenExpected'
    BY <1>5, EndedType, CasAssumption DEF Conflict, TypeOK, FreshWhenExpected, Call, Idle
  <2> QED BY <2>1, <2>2
<1>6. ASSUME NEW c \in Callers, UNCHANGED doc,
             NEW d \in {Ended("failed"), Idle}, call' = [call EXCEPT ![c] = d]
      PROVE  IInv'
  <2>1. d \in Call /\ d.pc # "cas"
    BY <1>6, CasAssumption DEF Ended, Idle, Call
  <2> QED BY <1>6, <2>1 DEF TypeOK, FreshWhenExpected
<1>7. ASSUME NEW c \in Callers, StoreFails(c)
      PROVE  IInv'
  BY <1>7, <1>4, <1>6 DEF StoreFails
<1>8. ASSUME NEW c \in Callers, CompareAndSet(c)
      PROVE  IInv'
  BY <1>8, <1>4 DEF CompareAndSet
<1>9. ASSUME NEW c \in Callers, Again(c)
      PROVE  IInv'
  BY <1>9, <1>6 DEF Again
<1> QED BY <1>1, <1>2, <1>3, <1>5, <1>7, <1>8, <1>9 DEF Next

\* For any number of callers and any mutations, a write against the current
\* version carries the mutation of the current record.
THEOREM FreshWrites == Spec => [](TypeOK /\ FreshWhenExpected)
<1>1. Init => IInv
  BY CasAssumption DEF Init, IInv, TypeOK, FreshWhenExpected, Idle, Call
<1>2. IInv /\ [Next]_vars => IInv'
  BY StepKeepsIInv
<1> QED BY <1>1, <1>2, PTL DEF Spec, IInv

\* A step of the store maps to a step of the atomic record, or to none.
LEMMA StepRefines ==
  ASSUME IInv, IInv', [Next]_vars
  PROVE  [Abstract!ANext]_Abstract!avars
<1> USE DEF IInv
<1>0. ASSUME NEW c \in Callers, NEW d \in Call, call' = [call EXCEPT ![c] = d]
      PROVE  outcomes' = [outcomes EXCEPT ![c] =
                           IF d.pc \in {"load", "cas"} THEN "open" ELSE d.pc]
  BY <1>0 DEF outcomes, Outcome, TypeOK
<1>e. ASSUME NEW c \in Callers, NEW o \in {"updated", "unchanged", "failed"},
             call' = [call EXCEPT ![c] = Ended(o)]
      PROVE  outcomes' = [outcomes EXCEPT ![c] = o]
  <2>1. Ended(o) \in Call /\ Ended(o).pc = o /\ o \notin {"load", "cas"}
    BY EndedType
  <2>2. outcomes' = [outcomes EXCEPT ![c] =
                      IF Ended(o).pc \in {"load", "cas"} THEN "open" ELSE Ended(o).pc]
    BY <1>e, <1>0, <2>1
  <2> QED BY <2>1, <2>2
<1>o. \A c \in Callers : outcomes[c] = Outcome(c)
  BY DEF outcomes
<1>1. CASE UNCHANGED vars
  BY <1>1 DEF vars, Abstract!avars, outcomes, Outcome
<1>2. ASSUME NEW c \in Callers, NEW r \in Records, Create(c, r)
      PROVE  Abstract!Create(c, r)
  BY <1>e, <1>2 DEF Create, Abstract!Create, TypeOK
<1>3. ASSUME NEW c \in Callers, Load(c)
      PROVE  Abstract!Decline(c) \/ UNCHANGED Abstract!avars
  <2>1. CASE doc.version = 0 \/ Mutate(c, doc.record) = Null
    <3>1. call' = [call EXCEPT ![c] = Ended("unchanged")] /\ doc' = doc
      BY <1>3, <2>1 DEF Load
    <3>2. Outcome(c) = "open"
      BY <1>3 DEF Load, Outcome
    <3> QED BY <1>e, <1>o, <2>1, <3>1, <3>2 DEF Abstract!Decline, TypeOK
  <2>2. CASE ~(doc.version = 0 \/ Mutate(c, doc.record) = Null)
    <3>1. call'[c].pc = "cas" /\ call[c].pc = "load" /\ doc' = doc
          /\ \A b \in Callers \ {c} : call'[b] = call[b]
      BY <1>3, <2>2 DEF Load, TypeOK
    <3> QED BY <3>1 DEF outcomes, Outcome, Abstract!avars
  <2> QED BY <2>1, <2>2
<1>4. ASSUME NEW c \in Callers, call[c].pc = "cas", doc.version = call[c].expected,
             doc' = Written(c)
      PROVE  /\ doc.record # Null /\ Mutate(c, doc.record) # Null
             /\ doc'.record = Mutate(c, doc.record)
             /\ Outcome(c) = "open"
  BY <1>4 DEF Written, TypeOK, FreshWhenExpected, Outcome, Call
<1>5. ASSUME NEW c \in Callers, CompareAndSet(c)
      PROVE  Abstract!Apply(c)
  <2>1. call' = [call EXCEPT ![c] = Ended("updated")]
    BY <1>5 DEF CompareAndSet
  <2> QED BY <1>e, <1>o, <1>4, <1>5, <2>1 DEF CompareAndSet, Abstract!Apply
<1>6. ASSUME NEW c \in Callers, Conflict(c)
      PROVE  Abstract!Fail(c) \/ UNCHANGED Abstract!avars
  <2>1. CASE call[c].tries + 1 < MaximumCasAttempts
    <3>1. call'[c].pc = "load" /\ call[c].pc = "cas" /\ doc' = doc
          /\ \A b \in Callers \ {c} : call'[b] = call[b]
      BY <1>6, <2>1 DEF Conflict, TypeOK, Idle
    <3> QED BY <3>1 DEF outcomes, Outcome, Abstract!avars
  <2>2. CASE ~(call[c].tries + 1 < MaximumCasAttempts)
    <3>1. call' = [call EXCEPT ![c] = Ended("failed")] /\ doc' = doc
      BY <1>6, <2>2 DEF Conflict
    <3>2. Outcome(c) = "open"
      BY <1>6 DEF Conflict, Outcome
    <3> QED BY <1>e, <1>o, <3>1, <3>2 DEF Abstract!Fail
  <2> QED BY <2>1, <2>2
<1>7. ASSUME NEW c \in Callers, StoreFails(c)
      PROVE  Abstract!Fail(c)
  <2>1. call' = [call EXCEPT ![c] = Ended("failed")] /\ Outcome(c) = "open"
    BY <1>7 DEF StoreFails, Outcome
  <2>2. UNCHANGED doc \/ (call[c].pc = "cas" /\ doc.version = call[c].expected /\ doc' = Written(c))
    BY <1>7 DEF StoreFails
  <2> QED BY <1>e, <1>o, <1>4, <2>1, <2>2 DEF Abstract!Fail
<1>8. ASSUME NEW c \in Callers, Again(c)
      PROVE  Abstract!Reopen(c)
  <2>1. Idle \in Call /\ Idle.pc = "load"
    BY CasAssumption DEF Idle, Call
  <2> QED BY <1>0, <1>o, <1>8, <2>1 DEF Again, Abstract!Reopen, Outcome
<1> QED
  BY <1>1, <1>2, <1>3, <1>5, <1>6, <1>7, <1>8 DEF Next, Abstract!ANext

\* The load / compare-and-set loop of update(), over a store that may fail and
\* with any interleaving of callers, implements the atomic record: this is what
\* lets module DurableTurn take an update as one step.
THEOREM UpdateIsAtomic == Spec => Atomic
<1>1. Init => Abstract!AInit
  BY DEF Init, Abstract!AInit, Idle, outcomes, Outcome
<1>2. Spec => []IInv
  BY FreshWrites DEF IInv
<1>3. IInv /\ IInv' /\ [Next]_vars => [Abstract!ANext]_Abstract!avars
  BY StepRefines
<1> QED BY <1>1, <1>2, <1>3, PTL DEF Spec, Atomic, Abstract!ASpec

=============================================================================
