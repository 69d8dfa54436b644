----------------------------- MODULE TurnStore ------------------------------
(***************************************************************************)
(* The versioned document store of durable turns (the in-memory store of    *)
(* src/src/transports/durable.ts and the PostgreSQL one of                  *)
(* src/src/postgres/index.ts) and the optimistic `update` loop that every   *)
(* state change of the durable transport goes through.  Module DurableTurn  *)
(* takes each update as one atomic step; this module shows that it is one.  *)
(***************************************************************************)
EXTENDS Naturals

CONSTANTS
  Callers,             \* concurrent update() and create() calls
  Records,             \* the records a document can hold
  Null,                \* null
  Mutate(_, _),        \* the caller's `mutate` callback; Null declines
  MaximumCasAttempts,  \* options.maximumCasAttempts
  MaxVersion           \* bound: versions of the document

ASSUME NullAssumption == Null \notin Records
ASSUME MutateAssumption ==
  \A c \in Callers, r \in Records : Mutate(c, r) \in Records \cup {Null}
ASSUME CasAssumption == MaximumCasAttempts \in Nat \ {0} /\ MaxVersion \in Nat

VARIABLES
  doc,     \* the stored document: [version, record], version 0 if there is none
  call     \* each caller's call in progress

vars == <<doc, call>>

\* pc "load" and "cas" are the two awaits of a loop iteration, the others are how
\* the call ended.  expected and next are the arguments of compareAndSet.
Call == [pc : {"load", "cas", "updated", "unchanged", "failed"},
         tries : 0..MaximumCasAttempts,
         expected : 0..MaxVersion, next : Records \cup {Null}]

Idle == [pc |-> "load", tries |-> 0, expected |-> 0, next |-> Null]

\* How a call ended: its locals are gone.
Ended(outcome) == [Idle EXCEPT !.pc = outcome]

Init ==
  /\ doc = [version |-> 0, record |-> Null]
  /\ call = [c \in Callers |-> Idle]

\* store.create: an insert that the primary key makes atomic.
Create(c, r) ==
  /\ call[c] = Idle
  /\ doc.version = 0
  /\ MaxVersion > 0
  /\ doc' = [version |-> 1, record |-> r]
  /\ call' = [call EXCEPT ![c] = Ended("updated")]

\* store.load, and `mutate` on what it returned.
Load(c) ==
  /\ call[c].pc = "load"
  /\ call' = [call EXCEPT ![c] =
       IF doc.version = 0 THEN Ended("unchanged")
       ELSE IF Mutate(c, doc.record) = Null THEN Ended("unchanged")
       ELSE [pc |-> "cas", tries |-> call[c].tries, expected |-> doc.version,
             next |-> Mutate(c, doc.record)]]
  /\ UNCHANGED doc

\* store.compareAndSet: UPDATE ... WHERE version = expected.
Written(c) == [version |-> doc.version + 1, record |-> call[c].next]

\* Mutant of CompareAndSet: last writer wins.
SetBlindly(c) ==
  /\ call[c].pc = "cas"
  /\ doc.version < MaxVersion
  /\ doc' = Written(c)
  /\ call' = [call EXCEPT ![c] = Ended("updated")]

\* The write has the version it expects: it commits.
CompareAndSet(c) ==
  /\ call[c].pc = "cas"
  /\ doc.version = call[c].expected
  /\ doc.version < MaxVersion
  /\ doc' = Written(c)
  /\ call' = [call EXCEPT ![c] = Ended("updated")]

\* It has not: go round, until the attempts are used up.
Conflict(c) ==
  /\ call[c].pc = "cas"
  /\ doc.version # call[c].expected
  /\ call' = [call EXCEPT ![c] =
       IF call[c].tries + 1 < MaximumCasAttempts
       THEN [Idle EXCEPT !.tries = call[c].tries + 1] ELSE Ended("failed")]
  /\ UNCHANGED doc

\* The store throws; a write may have been committed before its answer was lost.
StoreFails(c) ==
  /\ call[c].pc \in {"load", "cas"}
  /\ \/ UNCHANGED doc
     \/ /\ call[c].pc = "cas"
        /\ doc.version = call[c].expected /\ doc.version < MaxVersion
        /\ doc' = Written(c)
  /\ call' = [call EXCEPT ![c] = Ended("failed")]

\* The caller's next call.
Again(c) ==
  /\ call[c].pc \in {"updated", "unchanged", "failed"}
  /\ call' = [call EXCEPT ![c] = Idle]
  /\ UNCHANGED doc

Next ==
  \E c \in Callers :
    \/ \E r \in Records : Create(c, r)
    \/ Load(c) \/ CompareAndSet(c) \/ Conflict(c) \/ StoreFails(c) \/ Again(c)

Spec == Init /\ [][Next]_vars

-----------------------------------------------------------------------------
(* Properties *)

\* Documents and calls have their shapes; there is a record from version 1 on.
TypeOK ==
  /\ doc \in [version : 0..MaxVersion, record : Records \cup {Null}]
  /\ doc.record = Null <=> doc.version = 0
  /\ call \in [Callers -> Call]

\* A version identifies a record: a caller about to write against the current
\* version holds the mutation of the current record, however many writers came
\* and went since it loaded.
FreshWhenExpected ==
  \A c \in Callers :
    call[c].pc = "cas" =>
      /\ call[c].expected \in 1..doc.version
      /\ call[c].next # Null
      /\ call[c].expected = doc.version => call[c].next = Mutate(c, doc.record)

\* The abstract record is the stored one; a call is open until it ends.
Outcome(c) == IF call[c].pc \in {"load", "cas"} THEN "open" ELSE call[c].pc

outcomes == [c \in Callers |-> Outcome(c)]

Abstract == INSTANCE AtomicTurn WITH record <- doc.record, outcome <- outcomes

\* Every call of update() takes effect atomically or not at all.
Atomic == Abstract!ASpec

=============================================================================
