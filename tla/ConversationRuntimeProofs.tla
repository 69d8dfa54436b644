---------------------- MODULE ConversationRuntimeProofs ----------------------
(* Theorems about ConversationRuntime, for any runtimes, turns, responses and  *)
(* bounds.                                                                     *)
EXTENDS ConversationRuntime, FiniteSetTheorems, SequenceTheorems, TLAPS

-----------------------------------------------------------------------------
(* Smallest and largest numbers *)

\* A set of numbers that is not empty has a smallest one ...
LEMMA Smallest ==
  ASSUME NEW S, S \subseteq Nat, S # {}
  PROVE  Min(S) \in S /\ \A x \in S : Min(S) <= x
<1>1. PICK m \in S : \A x \in S : <<x, m>> \notin OpToRel(<, Nat)
  BY WFMin, NatLessThanWellFounded, Zenon
<1>2. \A x \in S : ~(x < m)
  BY <1>1, Zenon DEF OpToRel
<1>3. \E n \in S : \A x \in S : n <= x
  BY <1>2
<1> QED BY <1>3, Zenon DEF Min

\* ... and a largest one, if it is bounded.
LEMMA Largest ==
  ASSUME NEW n \in Nat, NEW S, S \subseteq 0..n, S # {}
  PROVE  Max(S) \in S /\ \A x \in S : Max(S) >= x
<1> DEFINE D == {n - x : x \in S}
<1>1. D \subseteq Nat /\ D # {}
  <2>1. \A x \in S : n - x \in Nat
    OBVIOUS
  <2>2. PICK x \in S : TRUE
    OBVIOUS
  <2>3. n - x \in D
    BY <2>2
  <2> QED BY <2>1, <2>3, Zenon
<1>2. Min(D) \in D /\ \A x \in D : Min(D) <= x
  <2> HIDE DEF D
  <2> QED BY <1>1, Smallest
<1>3. PICK m \in S : Min(D) = n - m
  BY <1>2
<1>4. \A x \in S : n - m <= n - x
  BY <1>2, <1>3
<1>5. \E m1 \in S : \A x \in S : m1 >= x
  BY <1>4
<1> QED BY <1>5, Zenon DEF Max

-----------------------------------------------------------------------------
(* What the reducer says *)

\* What an event is.
LEMMA EventTyped ==
  ASSUME NEW e \in Event
  PROVE  /\ e.turn \in Turns /\ e.seq \in Nat /\ e.safe \in BOOLEAN
         /\ e.message \in Runtimes \cup {None}
         /\ e.type \in {"admitted", "bound", "resumed", "retry", "frame", "waiting", "stopping"}
                         \cup Terminals
  BY DEF Event

LEMMA PlainTyped ==
  ASSUME NEW t \in Turns,
         NEW type \in {"admitted", "bound", "resumed", "retry", "waiting", "stopping", "failed"}
  PROVE  /\ Plain(type, t) \in Event /\ Plain(type, t).type = type /\ Plain(type, t).turn = t
         /\ Plain(type, t).seq = 0 /\ ~Plain(type, t).safe /\ Plain(type, t).message = None
  BY DEF Plain, Event, Terminals

\* The first n events of a log have the outcome o of a turn t.
Outcome(lg, t, o, n) ==
  \E i \in 1..n : /\ lg[i].turn = t /\ lg[i].type = o
                  /\ \A j \in 1..(i - 1) : lg[j].turn = t => lg[j].type \notin Terminals

\* The canonical outcome is that of the first terminal event.
LEMMA CanonicalIs ==
  ASSUME NEW lg \in Seq(Event), NEW t \in Turns
  PROVE  /\ Canonical(lg, t) = None <=>
              \A i \in 1..Len(lg) : lg[i].turn = t => lg[i].type \notin Terminals
         /\ Canonical(lg, t) # None =>
              Canonical(lg, t) \in Terminals /\ Outcome(lg, t, Canonical(lg, t), Len(lg))
<1>1. Len(lg) \in Nat /\ DOMAIN lg = 1..Len(lg)
  BY LenProperties
<1>2. None \notin Terminals
  BY NoneAssumption
<1>3. ASSUME Terminal(lg, t) = {}
      PROVE  /\ Canonical(lg, t) = None
             /\ \A i \in 1..Len(lg) : lg[i].turn = t => lg[i].type \notin Terminals
  BY <1>1, <1>3 DEF Canonical, Terminal
<1>4. ASSUME Terminal(lg, t) # {}
      PROVE  /\ Canonical(lg, t) \in Terminals /\ Outcome(lg, t, Canonical(lg, t), Len(lg))
             /\ \E i \in 1..Len(lg) : lg[i].turn = t /\ lg[i].type \in Terminals
  <2> DEFINE m == Min(Terminal(lg, t))
  <2>1. Terminal(lg, t) \subseteq Nat
    BY <1>1 DEF Terminal
  <2>2. m \in Terminal(lg, t) /\ \A x \in Terminal(lg, t) : m <= x
    BY <1>4, <2>1, Smallest
  <2>3. Canonical(lg, t) = lg[m].type
    BY <1>4 DEF Canonical
  <2> HIDE DEF m
  <2>4. m \in 1..Len(lg) /\ lg[m].turn = t /\ lg[m].type \in Terminals
    BY <1>1, <2>2 DEF Terminal
  <2>5. \A j \in 1..(m - 1) : lg[j].turn = t => lg[j].type \notin Terminals
    <3> SUFFICES ASSUME NEW j \in 1..(m - 1), lg[j].turn = t, lg[j].type \in Terminals
                 PROVE  FALSE
      OBVIOUS
    <3>1. j \in Terminal(lg, t)
      BY <1>1, <2>4 DEF Terminal
    <3> QED BY <2>2, <2>4, <3>1
  <2>6. Outcome(lg, t, lg[m].type, Len(lg))
    BY <2>4, <2>5 DEF Outcome
  <2> QED BY <2>3, <2>4, <2>6
<1> QED BY <1>2, <1>3, <1>4

\* An outcome stays the canonical one.
LEMMA OutcomeIsCanonical ==
  ASSUME NEW lg \in Seq(Event), NEW t \in Turns, NEW o \in Terminals, NEW n \in Nat,
         n <= Len(lg), Outcome(lg, t, o, n)
  PROVE  Canonical(lg, t) = o
<1>1. Len(lg) \in Nat /\ DOMAIN lg = 1..Len(lg)
  BY LenProperties
<1>2. PICK i \in 1..n : /\ lg[i].turn = t /\ lg[i].type = o
                        /\ \A j \in 1..(i - 1) : lg[j].turn = t => lg[j].type \notin Terminals
  BY DEF Outcome
<1>3. i \in 1..Len(lg) /\ lg[i].type \in Terminals
  BY <1>1, <1>2
<1>4. Canonical(lg, t) # None
  BY <1>2, <1>3, CanonicalIs
<1>5. Canonical(lg, t) \in Terminals /\ Outcome(lg, t, Canonical(lg, t), Len(lg))
  BY <1>4, CanonicalIs
<1>6. PICK l \in 1..Len(lg) :
        /\ lg[l].turn = t /\ lg[l].type = Canonical(lg, t)
        /\ \A j \in 1..(l - 1) : lg[j].turn = t => lg[j].type \notin Terminals
  BY <1>5, Zenon DEF Outcome
<1>7. ~(i < l)
  BY <1>1, <1>2, <1>3, <1>6
<1>8. ~(l < i)
  BY <1>1, <1>2, <1>3, <1>5, <1>6
<1>9. i = l
  BY <1>1, <1>3, <1>6, <1>7, <1>8
<1> QED BY <1>2, <1>6, <1>9

\* The safe sequence is that of a safe event of the turn, or 0.
LEMMA SafeSequenceIs ==
  ASSUME NEW lg \in Seq(Event), NEW t, NEW n \in Nat,
         \A i \in 1..Len(lg) : lg[i].turn = t => lg[i].seq <= n
  PROVE  /\ SafeSequence(lg, t) \in Nat /\ SafeSequence(lg, t) <= n
         /\ \/ SafeSequence(lg, t) = 0
            \/ \E i \in 1..Len(lg) : /\ lg[i].turn = t /\ lg[i].safe
                                     /\ SafeSequence(lg, t) = lg[i].seq
<1>1. Len(lg) \in Nat /\ DOMAIN lg = 1..Len(lg) /\ \A i \in 1..Len(lg) : lg[i] \in Event
  BY LenProperties, ElementOfSeq
<1> DEFINE D == {j \in DOMAIN lg : lg[j].turn = t /\ lg[j].safe}
           S == {0} \cup {lg[i].seq : i \in D}
<1>2. S \subseteq 0..n /\ S # {}
  <2>1. ASSUME NEW i \in D PROVE lg[i].seq \in 0..n
    BY <1>1, <2>1, EventTyped
  <2> QED BY <2>1
<1>3. SafeSequence(lg, t) = Max(S)
  BY DEF SafeSequence
<1>4. Max(S) \in S
  <2> HIDE DEF S
  <2> QED BY <1>2, Largest
<1>5. Max(S) = 0 \/ \E i \in D : Max(S) = lg[i].seq
  <2> DEFINE m == Max(S)
  <2>1. m \in S
    BY <1>4
  <2> HIDE DEF m
  <2>2. m = 0 \/ \E i \in D : m = lg[i].seq
    BY <2>1
  <2> QED BY <2>2 DEF m
<1>6. Max(S) \in Nat /\ Max(S) <= n
  <2> DEFINE m == Max(S)
  <2>1. m \in 0..n
    <3> HIDE DEF S
    <3> QED BY <1>2, <1>4
  <2> HIDE DEF m
  <2> QED BY <2>1 DEF m
<1> HIDE DEF S
<1> QED BY <1>1, <1>3, <1>5, <1>6

\* The frames that a log has.
LEMMA FrameKeysAre ==
  ASSUME NEW lg \in Seq(Event), NEW t, NEW s
  PROVE  s \in FrameKeys(lg, t) <=>
           \E i \in 1..Len(lg) : lg[i].turn = t /\ lg[i].seq > 0 /\ lg[i].seq = s
  BY LenProperties DEF FrameKeys

\* The message of a turn is one that an event has, if any does.
LEMMA MessageIs ==
  ASSUME NEW lg \in Seq(Event), NEW t
  PROVE  /\ MessageOf(lg, t) = None =>
              \A i \in 1..Len(lg) : lg[i].turn = t => lg[i].message = None
         /\ MessageOf(lg, t) # None =>
              \E i \in 1..Len(lg) : lg[i].turn = t /\ lg[i].message = MessageOf(lg, t)
<1>1. Len(lg) \in Nat /\ DOMAIN lg = 1..Len(lg)
  BY LenProperties
<1> DEFINE texts == {i \in DOMAIN lg : lg[i].turn = t /\ lg[i].message # None}
<1>2. CASE texts = {}
  BY <1>1, <1>2 DEF MessageOf
<1>3. CASE texts # {}
  <2>1. texts \subseteq Nat
    BY <1>1
  <2>2. Min(texts) \in texts
    <3> HIDE DEF texts
    <3> QED BY <1>3, <2>1, Smallest
  <2>3. MessageOf(lg, t) = lg[Min(texts)].message
    BY <1>3 DEF MessageOf
  <2> DEFINE m == Min(texts)
  <2>4. m \in texts /\ MessageOf(lg, t) = lg[m].message
    BY <2>2, <2>3
  <2> HIDE DEF m
  <2> QED BY <1>1, <2>4
<1> QED BY <1>2, <1>3

\* The projection is the log up to its revision.
LEMMA PrefixIs ==
  ASSUME log \in Seq(Event), NEW k, k.rev \in Nat, k.rev <= Len(log)
  PROVE  /\ Prefix(k) \in Seq(Event) /\ Len(Prefix(k)) = k.rev
         /\ \A i \in 1..k.rev : Prefix(k)[i] = log[i]
<1>1. Len(log) \in Nat /\ \A i \in 1..Len(log) : log[i] \in Event
  BY LenProperties, ElementOfSeq
<1>2. 1 \in Nat /\ \A i \in 1..k.rev : log[i] \in Event
  BY <1>1
<1> QED BY <1>1, <1>2, SubSeqProperties DEF Prefix

LEMMA RestIs ==
  ASSUME log \in Seq(Event), NEW n \in Nat, n <= Len(log)
  PROVE  LET rest == SubSeq(log, n + 1, Len(log)) IN
         /\ rest \in Seq(Event)
         /\ \A i \in 1..Len(rest) : i + n \in (n + 1)..Len(log) /\ rest[i] = log[i + n]
<1>1. Len(log) \in Nat /\ \A i \in 1..Len(log) : log[i] \in Event
  BY LenProperties, ElementOfSeq
<1>2. \A i \in (n + 1)..Len(log) : log[i] \in Event
  BY <1>1
<1> DEFINE rest == SubSeq(log, n + 1, Len(log))
<1>3. /\ rest \in Seq(Event)
      /\ Len(rest) = IF n + 1 <= Len(log) THEN Len(log) - (n + 1) + 1 ELSE 0
      /\ \A i \in 1..Len(rest) : rest[i] = log[(n + 1) + i - 1]
  <2>1. /\ rest \in Seq(Event)
        /\ Len(rest) = IF n + 1 <= Len(log) THEN Len(log) - (n + 1) + 1 ELSE 0
        /\ \A i \in 1..(Len(log) - (n + 1) + 1) : rest[i] = log[(n + 1) + i - 1]
    <3>1. n + 1 \in Int /\ Len(log) \in Int
      BY <1>1
    <3> QED BY <1>2, <3>1, SubSeqProperties
  <2> HIDE DEF rest
  <2> QED BY <1>1, <2>1
<1> HIDE DEF rest
<1>4. Len(rest) \in Nat /\ Len(rest) <= Len(log) - n
  BY <1>1, <1>3
<1>5. ASSUME NEW i \in 1..Len(rest)
      PROVE  i + n \in (n + 1)..Len(log) /\ rest[i] = log[i + n]
  <2>1. (n + 1) + i - 1 = i + n
    BY <1>4
  <2> QED BY <1>1, <1>3, <1>4, <2>1
<1> QED BY <1>3, <1>5 DEF rest

-----------------------------------------------------------------------------
(* The inductive invariant *)

\* No turn has a text without content.
NoEmptyText == \A t \in Turns : \A s \in DOMAIN Response[t] : Response[t][s] # "empty"

\* The first n events of a log have frame s of turn t.
Saved(lg, t, s, n) ==
  \E i \in 1..n : lg[i].turn = t /\ lg[i].type = "frame" /\ lg[i].seq = s

\* Frame n is the last one, a terminal.
Over(F, n) == Len(F) > 0 /\ F[Len(F)] \in Terminals /\ n = Len(F)

\* What a turn has produced is its response, which a cancellation may cut short.
RemoteOK(rm) ==
  \A t \in Turns :
    LET F == rm[t].frames IN
    /\ \A s \in 1..(Len(F) - 1) : F[s] \notin Terminals
    /\ \A s \in 1..Len(F) :
         \/ s <= Len(Response[t]) /\ F[s] = Response[t][s]
         \/ s = Len(F) /\ F[s] = "cancelled"

\* A frame is saved after those before it, a safe one also after those that are never
\* written, and a completion after all of them; texts have one message.
EventOK(lg, rm, i) ==
  LET e == lg[i]
      F == rm[e.turn].frames IN
  /\ e.seq <= Len(F)
  /\ e.type = "frame" => e.seq > 0 /\ Written(F[e.seq])
  /\ e.type # "frame" =>
       e.message = None /\ (e.seq > 0 => e.type \in Terminals /\ F[e.seq] \in Terminals)
  /\ e.safe => e.seq > 0
  /\ e.type = "frame" => \A s \in 1..Len(F) :
       Written(F[s]) => (s < e.seq <=> Saved(lg, e.turn, s, i - 1))
  /\ e.safe => \A s \in 1..(e.seq - 1) : Written(F[s]) => Saved(lg, e.turn, s, i - 1)
  /\ e.type = "completed" =>
       Over(F, Len(F)) /\ \A s \in 1..Len(F) : Written(F[s]) => Saved(lg, e.turn, s, i - 1)
  /\ NoEmptyText /\ e.safe /\ e.type = "frame" =>
       \A s \in 1..(e.seq - 1) : Saved(lg, e.turn, s, i - 1)
  /\ \A j \in 1..(i - 1) :
       lg[j].turn = e.turn /\ lg[j].message # None /\ e.message # None => lg[j].message = e.message

EventsOK(lg, rm) == \A i \in 1..Len(lg) : EventOK(lg, rm, i)

\* All frames up to n are in the log, or n is the turn's last one and its end is.
Continues(lg, F, t, rev, n) ==
  \/ \A s \in 1..n : Saved(lg, t, s, rev)
  \/ Over(F, n) /\ \E j \in 1..rev : lg[j].turn = t /\ lg[j].type \in Terminals

\* A turn may be observed from behind frame n.
SafeOK(lg, F, t, rev, n) ==
  /\ n <= Len(F)
  /\ \A s \in 1..n : Written(F[s]) => Saved(lg, t, s, rev)
  /\ NoEmptyText => Continues(lg, F, t, rev, n)

\* A runtime has the frame in the log, or in the batch.
Has(lg, k, s) ==
  Saved(lg, k.turn, s, k.rev) \/ \E j \in 1..Len(k.batch) : k.batch[j].seq = s

\* The batch: accepted frames in order.
BatchOK(F, k) ==
  \A j \in 1..Len(k.batch) :
    /\ 0 < k.batch[j].seq /\ k.batch[j].seq < k.expected
    /\ Written(F[k.batch[j].seq])
    /\ \A i \in 1..(j - 1) : k.batch[i].seq < k.batch[j].seq

\* An observation has every frame so far, unless a batch was lost.
Complete(lg, F, k) ==
  ~k.failed \/ k.batch # <<>> =>
    /\ \A s \in 1..(k.expected - 1) : Written(F[s]) => Has(lg, k, s)
    /\ NoEmptyText /\ ~k.unsafe =>
         Over(F, k.expected - 1) \/ \A s \in 1..(k.expected - 1) : Has(lg, k, s)

Observation(lg, F, k) ==
  /\ 1 <= k.base /\ k.base <= k.expected /\ k.expected <= Len(F) + 1
  /\ BatchOK(F, k)
  /\ k.terminal # None => Over(F, k.expected - 1)
  /\ Complete(lg, F, k)
  /\ NoEmptyText => Continues(lg, F, k.turn, k.rev, k.base - 1)
  /\ NoEmptyText => \A j \in 1..Len(k.batch) : k.batch[j].safe =>
       \A s \in 1..k.batch[j].seq : Has(lg, k, s)
  /\ k.pc \in {"result", "finish"} =>
       /\ k.batch = <<>>
       /\ k.result = "completed" => Over(F, k.expected - 1) /\ F[Len(F)] = "completed"
  /\ k.pc = "finish" => k.terminal # None /\ k.terminal = k.result /\ ~k.failed

RuntimeOK(lg, rm, k) ==
  /\ k.rev <= Len(lg)
  /\ k.pc # "idle" => k.turn # None
  /\ k.told \in {"completed", "cancelled"} =>
       k.turn # None /\ Outcome(lg, k.turn, k.told, k.rev)
  /\ k.turn # None =>
       /\ SafeOK(lg, rm[k.turn].frames, k.turn, k.rev, k.safe)
       /\ k.pc \in {"observe", "result", "finish"} => Observation(lg, rm[k.turn].frames, k)

AttemptsOK(r, k) ==
  k.attempt <= MaximumAttempts[r] /\ (k.pc = "retry" => k.attempt < MaximumAttempts[r])

Typed ==
  /\ log \in Seq(Event)
  /\ remote \in [Turns -> Remote]
  /\ runtime \in [Runtimes -> Runtime]
  /\ faults \in Nat

IInv ==
  /\ Typed
  /\ RemoteOK(remote)
  /\ EventsOK(log, remote)
  /\ \A r \in Runtimes : RuntimeOK(log, remote, runtime[r]) /\ AttemptsOK(r, runtime[r])

-----------------------------------------------------------------------------
(* What a longer log keeps *)

LEMMA SavedKept ==
  ASSUME NEW lg, NEW lg2, NEW t, NEW s, NEW n \in Nat, NEW m \in Nat, n <= m,
         \A i \in 1..n : lg2[i] = lg[i], Saved(lg, t, s, n)
  PROVE  Saved(lg2, t, s, m)
<1>1. PICK i \in 1..n : lg[i].turn = t /\ lg[i].type = "frame" /\ lg[i].seq = s
  BY DEF Saved
<1>2. i \in 1..m /\ lg2[i] = lg[i]
  BY <1>1
<1> QED BY <1>1, <1>2 DEF Saved

\* Saved frames of the common part are the same.
LEMMA SavedSame ==
  ASSUME NEW lg, NEW lg2, NEW n \in Nat, \A i \in 1..n : lg2[i] = lg[i]
  PROVE  \A t, s : Saved(lg2, t, s, n) <=> Saved(lg, t, s, n)
  BY DEF Saved

LEMMA EventKept ==
  ASSUME NEW lg, NEW lg2, NEW rm, NEW i \in Nat \ {0}, \A j \in 1..i : lg2[j] = lg[j],
         EventOK(lg, rm, i)
  PROVE  EventOK(lg2, rm, i)
<1>1. lg2[i] = lg[i] /\ i - 1 \in Nat /\ \A j \in 1..(i - 1) : lg2[j] = lg[j]
  OBVIOUS
<1>2. \A t, s : Saved(lg2, t, s, i - 1) <=> Saved(lg, t, s, i - 1)
  BY <1>1, SavedSame
<1> QED BY <1>1, <1>2 DEF EventOK

LEMMA RuntimeKept ==
  ASSUME NEW lg \in Seq(Event), NEW lg2 \in Seq(Event), NEW rm, NEW k \in Runtime,
         Len(lg) <= Len(lg2), \A i \in 1..Len(lg) : lg2[i] = lg[i],
         RuntimeOK(lg, rm, k)
  PROVE  RuntimeOK(lg2, rm, k)
<1>1. Len(lg) \in Nat /\ Len(lg2) \in Nat /\ k.rev \in Nat
  BY LenProperties DEF Runtime
<1>2. k.rev <= Len(lg) /\ k.rev <= Len(lg2)
  BY <1>1 DEF RuntimeOK
<1>3. \A i \in 1..k.rev : lg2[i] = lg[i]
  BY <1>1, <1>2
<1>4. \A t, s : Saved(lg2, t, s, k.rev) <=> Saved(lg, t, s, k.rev)
  BY <1>1, <1>3, SavedSame
<1>5. \A s : Has(lg2, k, s) <=> Has(lg, k, s)
  BY <1>4 DEF Has
<1>6. \A F, t, n : Continues(lg2, F, t, k.rev, n) <=> Continues(lg, F, t, k.rev, n)
  BY <1>3, <1>4 DEF Continues
<1>7. \A F, t, n : SafeOK(lg2, F, t, k.rev, n) <=> SafeOK(lg, F, t, k.rev, n)
  BY <1>4, <1>6 DEF SafeOK
<1>8. \A F : Complete(lg2, F, k) <=> Complete(lg, F, k)
  BY <1>5 DEF Complete
<1>9. \A F : Observation(lg2, F, k) <=> Observation(lg, F, k)
  BY <1>5, <1>6, <1>8 DEF Observation
<1>10. \A t, o : Outcome(lg, t, o, k.rev) => Outcome(lg2, t, o, k.rev)
  <2> SUFFICES ASSUME NEW t, NEW o, Outcome(lg, t, o, k.rev)
               PROVE  Outcome(lg2, t, o, k.rev)
    OBVIOUS
  <2>1. PICK i \in 1..k.rev :
          /\ lg[i].turn = t /\ lg[i].type = o
          /\ \A j \in 1..(i - 1) : lg[j].turn = t => lg[j].type \notin Terminals
    BY DEF Outcome
  <2>2. lg2[i] = lg[i] /\ \A j \in 1..(i - 1) : lg2[j] = lg[j]
    BY <1>1, <1>3
  <2> QED BY <2>1, <2>2 DEF Outcome
<1> QED BY <1>2, <1>7, <1>9, <1>10 DEF RuntimeOK

-----------------------------------------------------------------------------
(* What further frames keep *)

Grown(F, F2) ==
  /\ F \in Seq(Kinds \cup Terminals) /\ F2 \in Seq(Kinds \cup Terminals)
  /\ Len(F) <= Len(F2) /\ \A s \in 1..Len(F) : F2[s] = F[s]
  /\ Over(F, Len(F)) => Len(F2) = Len(F)

LEMMA OverKept ==
  ASSUME NEW F, NEW F2, Grown(F, F2), NEW n, Over(F, n)
  PROVE  Over(F2, n) /\ F2[Len(F2)] = F[Len(F)]
<1>1. Len(F) \in Nat /\ Len(F2) \in Nat
  BY LenProperties DEF Grown
<1> QED BY <1>1 DEF Over, Grown

LEMMA EventsGrown ==
  ASSUME NEW lg \in Seq(Event), NEW rm, NEW rm2,
         \A t \in Turns : Grown(rm[t].frames, rm2[t].frames), EventsOK(lg, rm)
  PROVE  EventsOK(lg, rm2)
<1> SUFFICES ASSUME NEW i \in 1..Len(lg)
             PROVE  EventOK(lg, rm2, i)
  BY DEF EventsOK
<1>1. Len(lg) \in Nat /\ i \in Nat /\ \A j \in 1..Len(lg) : lg[j] \in Event
  BY LenProperties, ElementOfSeq
<1> DEFINE e == lg[i]
           F == rm[e.turn].frames
           F2 == rm2[e.turn].frames
<1>2. e.turn \in Turns /\ e.seq \in Nat
  BY <1>1, EventTyped
<1>3. Grown(F, F2)
  BY <1>2
<1>4. EventOK(lg, rm, i)
  BY DEF EventsOK
<1>5. \A j \in 1..(i - 1) : lg[j].turn = e.turn => lg[j].seq <= Len(F)
  <2> SUFFICES ASSUME NEW j \in 1..(i - 1), lg[j].turn = e.turn
               PROVE  lg[j].seq <= Len(F)
    OBVIOUS
  <2>1. j \in 1..Len(lg)
    BY <1>1
  <2> QED BY <2>1 DEF EventsOK, EventOK
<1>6. Len(F) \in Nat /\ Len(F2) \in Nat /\ Len(F) <= Len(F2)
  BY <1>3, LenProperties DEF Grown
<1>7. \A s \in 1..Len(F2) : Saved(lg, e.turn, s, i - 1) => s \in 1..Len(F) /\ F2[s] = F[s]
  BY <1>3, <1>5, <1>6 DEF Saved, Grown
<1>8. \A s \in 1..Len(F) : F2[s] = F[s]
  BY <1>3 DEF Grown
<1>9. Over(F, Len(F)) => Over(F2, Len(F2)) /\ Len(F2) = Len(F)
  BY <1>3, <1>6 DEF Over, Grown
<1>10. e.seq <= Len(F) /\ (e.seq > 0 => F2[e.seq] = F[e.seq])
  <2>1. e.seq <= Len(F)
    BY <1>4 DEF EventOK
  <2> HIDE DEF e, F, F2
  <2> QED BY <1>2, <1>6, <1>8, <2>1
<1>11. e.type = "frame" => \A s \in 1..Len(F2) :
         Written(F2[s]) => (s < e.seq <=> Saved(lg, e.turn, s, i - 1))
  <2>1. e.type = "frame" => \A s \in 1..Len(F) :
          Written(F[s]) => (s < e.seq <=> Saved(lg, e.turn, s, i - 1))
    BY <1>4 DEF EventOK
  <2> HIDE DEF e, F, F2
  <2>2. \A s \in 1..Len(F2) : s < e.seq => s \in 1..Len(F)
    BY <1>2, <1>6, <1>10
  <2>3. \A s \in 1..Len(F2) : Saved(lg, e.turn, s, i - 1) => s \in 1..Len(F)
    BY <1>7
  <2> QED BY <1>8, <2>1, <2>2, <2>3
<1>12. e.safe => \A s \in 1..(e.seq - 1) : Written(F2[s]) => Saved(lg, e.turn, s, i - 1)
  <2>1. \A s \in 1..(e.seq - 1) : F2[s] = F[s]
    BY <1>2, <1>6, <1>8, <1>10
  <2>2. e.safe => \A s \in 1..(e.seq - 1) : Written(F[s]) => Saved(lg, e.turn, s, i - 1)
    BY <1>4 DEF EventOK
  <2> HIDE DEF e, F, F2
  <2> QED BY <2>1, <2>2
<1>13. e.type = "completed" =>
         Over(F2, Len(F2)) /\ \A s \in 1..Len(F2) : Written(F2[s]) => Saved(lg, e.turn, s, i - 1)
  BY <1>4, <1>8, <1>9 DEF EventOK
<1>14. e.type = "frame" => Written(F2[e.seq])
  BY <1>4, <1>10 DEF EventOK
<1>15. e.type # "frame" =>
         e.message = None /\ (e.seq > 0 => e.type \in Terminals /\ F2[e.seq] \in Terminals)
  BY <1>4, <1>10 DEF EventOK
<1>16. e.seq <= Len(F2)
  <2> HIDE DEF e, F, F2
  <2> QED BY <1>2, <1>6, <1>10
<1> QED BY <1>4, <1>11, <1>12, <1>13, <1>14, <1>15, <1>16 DEF EventOK

LEMMA SafeGrown ==
  ASSUME NEW lg, NEW F, NEW F2, NEW t, NEW rev, NEW n \in Nat, Grown(F, F2),
         SafeOK(lg, F, t, rev, n)
  PROVE  SafeOK(lg, F2, t, rev, n)
<1>1. Len(F) \in Nat /\ Len(F2) \in Nat /\ Len(F) <= Len(F2)
  BY LenProperties DEF Grown
<1>2. Over(F, n) => Over(F2, n)
  BY OverKept
<1>3. \A s \in 1..n : F2[s] = F[s]
  BY <1>1 DEF SafeOK, Grown
<1> QED BY <1>1, <1>2, <1>3 DEF SafeOK, Continues

LEMMA ObservationGrown ==
  ASSUME NEW lg, NEW F, NEW F2, NEW k \in Runtime, Grown(F, F2), Observation(lg, F, k)
  PROVE  Observation(lg, F2, k)
<1>1. Len(F) \in Nat /\ Len(F2) \in Nat /\ Len(F) <= Len(F2)
  BY LenProperties DEF Grown
<1>2. /\ k.base \in Nat /\ k.expected \in Nat
      /\ k.batch \in Seq([seq : Nat, safe : BOOLEAN])
  BY DEF Runtime
<1>3. \A n : Over(F, n) => Over(F2, n) /\ F2[Len(F2)] = F[Len(F)]
  BY OverKept
<1>4. \A s \in 1..Len(F) : F2[s] = F[s]
  BY DEF Grown
<1>5. 1 <= k.base /\ k.base <= k.expected /\ k.expected <= Len(F) + 1
  BY DEF Observation
<1>6. \A j \in 1..Len(k.batch) : k.batch[j].seq \in Nat
  <2>1. \A j \in 1..Len(k.batch) : k.batch[j] \in [seq : Nat, safe : BOOLEAN]
    BY <1>2, ElementOfSeq
  <2> QED BY <2>1
<1>7. BatchOK(F2, k)
  <2>1. \A j \in 1..Len(k.batch) : k.batch[j].seq \in 1..Len(F)
    <3>1. \A j \in 1..Len(k.batch) : 0 < k.batch[j].seq /\ k.batch[j].seq < k.expected
      BY DEF Observation, BatchOK
    <3> QED BY <1>1, <1>2, <1>5, <1>6, <3>1
  <2> QED BY <1>4, <2>1 DEF Observation, BatchOK
<1>8. Complete(lg, F2, k)
  <2>1. \A s \in 1..(k.expected - 1) : F2[s] = F[s]
    BY <1>1, <1>2, <1>4, <1>5
  <2> QED BY <1>3, <2>1 DEF Observation, Complete
<1>9. Continues(lg, F, k.turn, k.rev, k.base - 1) => Continues(lg, F2, k.turn, k.rev, k.base - 1)
  BY <1>3 DEF Continues
<1>10. k.expected <= Len(F2) + 1
  BY <1>1, <1>2, <1>5
<1> QED BY <1>3, <1>5, <1>7, <1>8, <1>9, <1>10 DEF Observation

LEMMA RuntimeGrown ==
  ASSUME NEW lg, NEW rm, NEW rm2, \A t \in Turns : Grown(rm[t].frames, rm2[t].frames),
         NEW k \in Runtime, RuntimeOK(lg, rm, k)
  PROVE  RuntimeOK(lg, rm2, k)
<1>1. k.turn \in Turns \cup {None} /\ k.safe \in Nat
  BY DEF Runtime
<1>2. ASSUME k.turn # None
      PROVE  /\ SafeOK(lg, rm2[k.turn].frames, k.turn, k.rev, k.safe)
             /\ k.pc \in {"observe", "result", "finish"} =>
                  Observation(lg, rm2[k.turn].frames, k)
  <2>1. Grown(rm[k.turn].frames, rm2[k.turn].frames)
    BY <1>1, <1>2
  <2>2. SafeOK(lg, rm[k.turn].frames, k.turn, k.rev, k.safe)
    BY <1>2 DEF RuntimeOK
  <2>3. SafeOK(lg, rm2[k.turn].frames, k.turn, k.rev, k.safe)
    BY <1>1, <2>1, <2>2, SafeGrown
  <2>4. ASSUME k.pc \in {"observe", "result", "finish"}
        PROVE  Observation(lg, rm2[k.turn].frames, k)
    <3>1. Observation(lg, rm[k.turn].frames, k)
      BY <1>2, <2>4 DEF RuntimeOK
    <3> QED BY <2>1, <3>1, ObservationGrown
  <2> QED BY <2>3, <2>4
<1> QED BY <1>2 DEF RuntimeOK

-----------------------------------------------------------------------------
(* A step of one runtime *)

Fits(lg, rm, r, y) == y \in Runtime /\ RuntimeOK(lg, rm, y) /\ AttemptsOK(r, y)

LEMMA GrownReflexive ==
  ASSUME NEW rm, NEW rm2, rm \in [Turns -> Remote],
         \A t \in Turns : rm2[t].frames = rm[t].frames
  PROVE  \A t \in Turns : Grown(rm[t].frames, rm2[t].frames)
<1> SUFFICES ASSUME NEW t \in Turns
             PROVE  Grown(rm[t].frames, rm[t].frames)
  OBVIOUS
<1>1. rm[t].frames \in Seq(Kinds \cup Terminals)
  BY DEF Remote
<1> QED BY <1>1, LenProperties DEF Grown

\* A log that goes on, frames that stay, and one runtime that changes.
LEMMA StepKeeps ==
  ASSUME IInv, NEW r \in Runtimes, NEW y, NEW lg2 \in Seq(Event), NEW rm2 \in [Turns -> Remote],
         log' = lg2, remote' = rm2, runtime' = [runtime EXCEPT ![r] = y], faults' \in Nat,
         Len(log) <= Len(lg2), \A i \in 1..Len(log) : lg2[i] = log[i],
         \A t \in Turns : rm2[t].frames = remote[t].frames,
         EventsOK(lg2, remote), Fits(lg2, remote, r, y)
  PROVE  IInv'
<1>1. /\ log \in Seq(Event) /\ remote \in [Turns -> Remote] /\ RemoteOK(remote)
      /\ runtime \in [Runtimes -> Runtime]
      /\ \A q \in Runtimes : RuntimeOK(log, remote, runtime[q]) /\ AttemptsOK(q, runtime[q])
  BY DEF IInv, Typed
<1>2. \A t \in Turns : Grown(remote[t].frames, rm2[t].frames)
  BY <1>1, GrownReflexive
<1> DEFINE rt2 == [runtime EXCEPT ![r] = y]
<1>3. rt2 \in [Runtimes -> Runtime]
  BY <1>1 DEF Fits
<1>4. RemoteOK(rm2)
  BY <1>1 DEF RemoteOK
<1>5. EventsOK(lg2, rm2)
  BY <1>2, EventsGrown
<1>6. \A q \in Runtimes : RuntimeOK(lg2, rm2, rt2[q]) /\ AttemptsOK(q, rt2[q])
  <2> SUFFICES ASSUME NEW q \in Runtimes
               PROVE  RuntimeOK(lg2, rm2, rt2[q]) /\ AttemptsOK(q, rt2[q])
    OBVIOUS
  <2>1. RuntimeOK(lg2, remote, rt2[q]) /\ AttemptsOK(q, rt2[q])
    <3>1. CASE q = r
      BY <1>1, <3>1 DEF Fits
    <3>2. CASE q # r
      <4>1. rt2[q] = runtime[q] /\ runtime[q] \in Runtime
        BY <1>1, <3>2
      <4> HIDE DEF rt2
      <4>2. RuntimeOK(lg2, remote, runtime[q])
        BY <1>1, <4>1, RuntimeKept
      <4> QED BY <1>1, <4>1, <4>2
    <3> QED BY <3>1, <3>2
  <2>2. rt2[q] \in Runtime
    BY <1>3
  <2> HIDE DEF rt2
  <2> QED BY <1>2, <2>1, <2>2, RuntimeGrown
<1>7. runtime' = rt2
  OBVIOUS
<1> HIDE DEF rt2
<1> QED BY <1>3, <1>4, <1>5, <1>6, <1>7, Zenon DEF IInv, Typed

\* The log stays.
LEMMA QuietStepKeeps ==
  ASSUME IInv, NEW r \in Runtimes, NEW y,
         UNCHANGED <<log, remote>>, runtime' = [runtime EXCEPT ![r] = y], faults' \in Nat,
         Fits(log, remote, r, y)
  PROVE  IInv'
<1>1. log \in Seq(Event) /\ remote \in [Turns -> Remote] /\ EventsOK(log, remote)
  BY DEF IInv, Typed
<1>2. Len(log) \in Nat
  BY <1>1, LenProperties
<1>3. Len(log) <= Len(log) /\ log' = log /\ remote' = remote
  BY <1>2
<1>4. \A i \in 1..Len(log) : log[i] = log[i]
  OBVIOUS
<1>5. \A t \in Turns : remote[t].frames = remote[t].frames
  OBVIOUS
<1> QED BY <1>1, <1>3, <1>4, <1>5, StepKeeps, Zenon

-----------------------------------------------------------------------------
(* How a runtime changes *)

\* What a runtime is before a step.
LEMMA RuntimeIs ==
  ASSUME IInv, NEW r \in Runtimes
  PROVE  /\ runtime[r] \in Runtime /\ Fits(log, remote, r, runtime[r])
         /\ runtime[r].rev \in Nat /\ runtime[r].rev <= Len(log) /\ Len(log) \in Nat
         /\ runtime[r].turn \in Turns \cup {None} /\ runtime[r].safe \in Nat
         /\ runtime[r].pc # "idle" => runtime[r].turn \in Turns
<1>1. runtime[r] \in Runtime /\ log \in Seq(Event)
  BY DEF IInv, Typed
<1>2. RuntimeOK(log, remote, runtime[r]) /\ AttemptsOK(r, runtime[r])
  BY DEF IInv
<1> QED BY <1>1, <1>2, LenProperties DEF Fits, RuntimeOK, Runtime

\* The fields that the invariant is about are the same.
Same(k, y) ==
  /\ y.pc = k.pc /\ y.turn = k.turn /\ y.rev = k.rev /\ y.safe = k.safe /\ y.base = k.base
  /\ y.expected = k.expected /\ y.unsafe = k.unsafe /\ y.batch = k.batch
  /\ y.terminal = k.terminal /\ y.failed = k.failed /\ y.result = k.result /\ y.told = k.told
  /\ y.attempt = k.attempt

LEMMA SameFits ==
  ASSUME NEW lg, NEW rm, NEW r, NEW k, NEW y \in Runtime, Same(k, y), Fits(lg, rm, r, k)
  PROVE  Fits(lg, rm, r, y)
<1>1. \A s : Has(lg, y, s) <=> Has(lg, k, s)
  BY DEF Has, Same
<1>2. \A F : BatchOK(F, y) <=> BatchOK(F, k)
  BY DEF BatchOK, Same
<1>3. \A F : Complete(lg, F, y) <=> Complete(lg, F, k)
  BY <1>1 DEF Complete, Same
<1>4. \A F : Observation(lg, F, y) <=> Observation(lg, F, k)
  BY <1>1, <1>2, <1>3 DEF Observation, Same
<1> QED BY <1>4 DEF Fits, RuntimeOK, AttemptsOK, Same

\* Outside an observation only these matter.
LEMMA MoveFits ==
  ASSUME NEW lg, NEW rm, NEW r, NEW k, NEW y \in Runtime, Fits(lg, rm, r, k),
         y.turn = k.turn, y.rev = k.rev, y.safe = k.safe,
         y.pc \notin {"observe", "result", "finish"}, y.pc = "idle" \/ k.pc # "idle",
         \/ y.told \notin {"completed", "cancelled"} \/ y.told = k.told
         \/ y.turn # None /\ Outcome(lg, y.turn, y.told, y.rev),
         AttemptsOK(r, y)
  PROVE  Fits(lg, rm, r, y)
  BY DEF Fits, RuntimeOK

LEMMA MaxOfTwo ==
  ASSUME NEW x \in Nat, NEW y \in Nat
  PROVE  Max({x, y}) \in {x, y}
<1>1. x + y \in Nat /\ {x, y} \subseteq 0..(x + y) /\ {x, y} # {}
  OBVIOUS
<1> QED BY <1>1, Largest

\* Where a turn may be observed from.
LEMMA SafeZero ==
  ASSUME NEW lg, NEW F \in Seq(Kinds \cup Terminals), NEW t, NEW rev
  PROVE  SafeOK(lg, F, t, rev, 0)
  BY LenProperties DEF SafeOK, Continues

LEMMA SafeAdvances ==
  ASSUME NEW lg, NEW F, NEW t, NEW n \in Nat, NEW rev \in Nat, NEW rev2 \in Nat, rev <= rev2,
         SafeOK(lg, F, t, rev, n)
  PROVE  SafeOK(lg, F, t, rev2, n)
<1>1. \A s : Saved(lg, t, s, rev) => Saved(lg, t, s, rev2)
  BY SavedKept
<1>2. \A j \in 1..rev : j \in 1..rev2
  OBVIOUS
<1> QED BY <1>1, <1>2 DEF SafeOK, Continues

LEMMA SafeEvent ==
  ASSUME NEW lg \in Seq(Event), NEW rm \in [Turns -> Remote], RemoteOK(rm), EventsOK(lg, rm),
         NEW n \in Nat, n <= Len(lg), NEW i \in 1..n, lg[i].safe
  PROVE  SafeOK(lg, rm[lg[i].turn].frames, lg[i].turn, n, lg[i].seq)
<1>1. Len(lg) \in Nat /\ i \in 1..Len(lg) /\ lg[i] \in Event /\ i \in Nat
  BY LenProperties, ElementOfSeq
<1>2. EventOK(lg, rm, i)
  BY <1>1 DEF EventsOK
<1> DEFINE e == lg[i]
           F == rm[e.turn].frames
<1>3. e.turn \in Turns /\ e.seq \in Nat
  BY <1>1, EventTyped
<1>4. F \in Seq(Kinds \cup Terminals) /\ Len(F) \in Nat
  BY <1>3, LenProperties DEF Remote
<1>5. \A s \in 1..(Len(F) - 1) : F[s] \notin Terminals
  BY <1>3 DEF RemoteOK
<1>6. e.seq <= Len(F) /\ e.seq > 0
  BY <1>2 DEF EventOK
<1>7. \A t, s : Saved(lg, t, s, i - 1) => Saved(lg, t, s, n)
  BY <1>1, SavedKept
<1>8. e.type = "frame" => Saved(lg, e.turn, e.seq, n)
  BY DEF Saved
<1>9. e.type # "frame" => F[e.seq] \in Terminals /\ e.type \in Terminals
  BY <1>2, <1>6 DEF EventOK
<1>10. \A s \in 1..(e.seq - 1) : Written(F[s]) => Saved(lg, e.turn, s, n)
  BY <1>2, <1>7 DEF EventOK
<1>11. \A s \in 1..e.seq : s \in 1..(e.seq - 1) \/ s = e.seq
  BY <1>3
<1>12. ~Written(F[e.seq]) \/ e.type = "frame"
  BY <1>9 DEF Written, Terminals
<1>13. NoEmptyText => Continues(lg, F, e.turn, n, e.seq)
  <2>1. CASE e.type = "frame"
    <3>1. NoEmptyText => \A s \in 1..(e.seq - 1) : Saved(lg, e.turn, s, n)
      BY <1>2, <1>7, <2>1 DEF EventOK
    <3> QED BY <1>8, <1>11, <2>1, <3>1 DEF Continues
  <2>2. CASE e.type # "frame"
    <3>1. e.seq = Len(F)
      BY <1>3, <1>4, <1>5, <1>6, <1>9, <2>2
    <3>2. Over(F, e.seq)
      BY <1>4, <1>6, <1>9, <2>2, <3>1 DEF Over
    <3> QED BY <1>9, <2>2, <3>2 DEF Continues
  <2> QED BY <2>1, <2>2
<1>14. \A s \in 1..e.seq : Written(F[s]) => Saved(lg, e.turn, s, n)
  BY <1>8, <1>10, <1>11, <1>12
<1> QED BY <1>6, <1>13, <1>14 DEF SafeOK

\* A projection that is further, and a place to observe from that it justifies.
LEMMA AdvanceFits ==
  ASSUME NEW lg \in Seq(Event), NEW rm, NEW r, NEW k \in Runtime, NEW y \in Runtime,
         Fits(lg, rm, r, k),
         Same([k EXCEPT !.rev = y.rev, !.safe = y.safe], y), k.rev <= y.rev, y.rev <= Len(lg),
         y.turn # None => SafeOK(lg, rm[y.turn].frames, y.turn, y.rev, y.safe)
  PROVE  Fits(lg, rm, r, y)
<1>1. k.rev \in Nat /\ y.rev \in Nat
  BY DEF Runtime
<1>2. /\ y.pc = k.pc /\ y.turn = k.turn /\ y.base = k.base
      /\ y.expected = k.expected /\ y.unsafe = k.unsafe /\ y.batch = k.batch
      /\ y.terminal = k.terminal /\ y.failed = k.failed /\ y.result = k.result
      /\ y.told = k.told /\ y.attempt = k.attempt
  BY DEF Same, Runtime
<1>3. \A t, s : Saved(lg, t, s, k.rev) => Saved(lg, t, s, y.rev)
  BY <1>1, SavedKept
<1>4. \A s : Has(lg, k, s) => Has(lg, y, s)
  BY <1>2, <1>3 DEF Has
<1>5. \A F : BatchOK(F, k) => BatchOK(F, y)
  BY <1>2 DEF BatchOK
<1>6. \A F : Complete(lg, F, k) => Complete(lg, F, y)
  BY <1>2, <1>4 DEF Complete
<1>7. \A j \in 1..k.rev : j \in 1..y.rev
  BY <1>1
<1>8. \A F, t, n : Continues(lg, F, t, k.rev, n) => Continues(lg, F, t, y.rev, n)
  BY <1>3, <1>7 DEF Continues
<1>9. \A F : Observation(lg, F, k) => Observation(lg, F, y)
  BY <1>2, <1>4, <1>5, <1>6, <1>8 DEF Observation
<1>10. \A t, o : Outcome(lg, t, o, k.rev) => Outcome(lg, t, o, y.rev)
  BY <1>7, Zenon DEF Outcome
<1> QED BY <1>2, <1>9, <1>10 DEF Fits, RuntimeOK, AttemptsOK

\* catchUpRuntimeStore()
LEMMA CaughtUpIs ==
  ASSUME IInv, NEW r \in Runtimes, NEW k \in Runtime, Fits(log, remote, r, k)
  PROVE  /\ CaughtUp(k) \in Runtime /\ Fits(log, remote, r, CaughtUp(k))
         /\ CaughtUp(k).rev = Len(log)
         /\ Same([k EXCEPT !.rev = CaughtUp(k).rev, !.safe = CaughtUp(k).safe], CaughtUp(k))
<1>1. /\ log \in Seq(Event) /\ Len(log) \in Nat /\ remote \in [Turns -> Remote]
      /\ RemoteOK(remote) /\ EventsOK(log, remote)
  BY LenProperties DEF IInv, Typed
<1>2. /\ k.rev \in Nat /\ k.rev <= Len(log) /\ k.safe \in Nat /\ k.turn \in Turns \cup {None}
      /\ k.turn # None => SafeOK(log, remote[k.turn].frames, k.turn, k.rev, k.safe)
  BY DEF Fits, RuntimeOK, Runtime
<1> DEFINE rest == SubSeq(log, k.rev + 1, Len(log))
           v == SafeSequence(rest, k.turn)
           m == Max({k.safe, v})
           y == [k EXCEPT !.rev = Len(log), !.safe = m]
<1>3. /\ rest \in Seq(Event)
      /\ \A i \in 1..Len(rest) :
           i + k.rev \in (k.rev + 1)..Len(log) /\ rest[i] = log[i + k.rev]
  BY <1>1, <1>2, RestIs
<1>4. PICK n \in Nat : \A i \in 1..Len(rest) : rest[i].turn = k.turn => rest[i].seq <= n
  <2>1. CASE k.turn = None
    <3>1. \A i \in 1..Len(rest) : rest[i].turn # None
      <4>1. \A i \in 1..Len(rest) : rest[i].turn \in Turns
        BY <1>3, ElementOfSeq, EventTyped
      <4> QED BY <4>1, NoneAssumption
    <3> QED BY <2>1, <3>1
  <2>2. CASE k.turn # None
    <3>1. k.turn \in Turns
      BY <1>2, <2>2
    <3>2. Len(remote[k.turn].frames) \in Nat
      BY <1>1, <3>1, LenProperties DEF Remote
    <3>3. \A i \in 1..Len(log) : log[i].turn = k.turn => log[i].seq <= Len(remote[k.turn].frames)
      BY <1>1 DEF EventsOK, EventOK
    <3>4. \A i \in 1..Len(rest) : rest[i].turn = k.turn => rest[i].seq <= Len(remote[k.turn].frames)
      <4> HIDE DEF rest
      <4> SUFFICES ASSUME NEW i \in 1..Len(rest), rest[i].turn = k.turn
                   PROVE  rest[i].seq <= Len(remote[k.turn].frames)
        OBVIOUS
      <4>1. i + k.rev \in 1..Len(log) /\ rest[i] = log[i + k.rev]
        BY <1>1, <1>2, <1>3
      <4> QED BY <3>3, <4>1
    <3> QED BY <3>2, <3>4
  <2> QED BY <2>1, <2>2
<1>5. /\ v \in Nat
      /\ v = 0 \/ \E i \in 1..Len(rest) : rest[i].turn = k.turn /\ rest[i].safe /\ v = rest[i].seq
  <2> HIDE DEF rest
  <2> QED BY <1>3, <1>4, SafeSequenceIs
<1>6. m \in {k.safe, v} /\ m \in Nat
  <2> HIDE DEF v
  <2>1. m \in {k.safe, v}
    BY <1>2, <1>5, MaxOfTwo
  <2> HIDE DEF m
  <2> QED BY <1>2, <1>5, <2>1
<1>7. CaughtUp(k) = y
  BY DEF CaughtUp
<1> HIDE DEF m
<1>8. /\ y \in Runtime /\ y.rev = Len(log) /\ y.safe = m /\ y.turn = k.turn
      /\ Same([k EXCEPT !.rev = y.rev, !.safe = y.safe], y)
  BY <1>1, <1>6 DEF Runtime, Same
<1>9. y.turn # None => SafeOK(log, remote[y.turn].frames, y.turn, y.rev, y.safe)
  <2> SUFFICES ASSUME k.turn # None
               PROVE  SafeOK(log, remote[k.turn].frames, k.turn, Len(log), m)
    BY <1>8
  <2>1. SafeOK(log, remote[k.turn].frames, k.turn, Len(log), k.safe)
    BY <1>1, <1>2, SafeAdvances
  <2>2. remote[k.turn].frames \in Seq(Kinds \cup Terminals)
    BY <1>1, <1>2 DEF Remote
  <2>3. SafeOK(log, remote[k.turn].frames, k.turn, Len(log), 0)
    BY <2>2, SafeZero
  <2>4. ASSUME NEW i \in 1..Len(rest), rest[i].turn = k.turn, rest[i].safe, v = rest[i].seq
        PROVE  SafeOK(log, remote[k.turn].frames, k.turn, Len(log), v)
    <3> HIDE DEF rest, v
    <3> DEFINE j == i + k.rev
    <3>1. j \in 1..Len(log) /\ rest[i] = log[j]
      BY <1>1, <1>2, <1>3
    <3> HIDE DEF j
    <3>2. SafeOK(log, remote[log[j].turn].frames, log[j].turn, Len(log), log[j].seq)
      BY <1>1, <2>4, <3>1, SafeEvent
    <3> QED BY <2>4, <3>1, <3>2
  <2>5. SafeOK(log, remote[k.turn].frames, k.turn, Len(log), v)
    BY <1>5, <2>3, <2>4
  <2> QED BY <1>6, <2>1, <2>5
<1> HIDE DEF y
<1>10. k.rev <= y.rev /\ y.rev <= Len(log)
  BY <1>1, <1>2, <1>8
<1>11. Fits(log, remote, r, y)
  BY <1>1, <1>8, <1>9, <1>10, AdvanceFits
<1> QED BY <1>7, <1>8, <1>11

LEMMA NewRuntimeTyped ==
  ASSUME NEW rev \in Nat, NEW resumes \in Nat
  PROVE  /\ NewRuntime(rev, resumes) \in Runtime
         /\ NewRuntime(rev, resumes).pc = "idle" /\ NewRuntime(rev, resumes).turn = None
         /\ NewRuntime(rev, resumes).rev = rev /\ NewRuntime(rev, resumes).safe = 0
         /\ NewRuntime(rev, resumes).told = None /\ NewRuntime(rev, resumes).attempt = 0
<1>1. <<>> \in Seq([seq : Nat, safe : BOOLEAN]) /\ 0 \in 0..MaximumRebases
  BY EmptySeq, BoundsAssumption
<1> QED BY <1>1 DEF NewRuntime, Runtime, Told

\* An operation that returns.
LEMMA ReturnsTyped ==
  ASSUME NEW k \in Runtime, NEW status \in Told
  PROVE  /\ Returns(k, status) \in Runtime
         /\ Returns(k, status).pc = "idle" /\ Returns(k, status).turn = k.turn
         /\ Returns(k, status).rev = k.rev /\ Returns(k, status).safe = k.safe
         /\ Returns(k, status).told = status /\ Returns(k, status).attempt = 0
<1>1. /\ k.rev \in Nat /\ k.resumes \in Nat /\ k.turn \in Turns \cup {None} /\ k.safe \in Nat
      /\ k.bound \in BOOLEAN /\ k.cancel \in {"none", "saved", "sent"} /\ k.cancelling \in BOOLEAN
  BY DEF Runtime
<1> DEFINE new == NewRuntime(k.rev, k.resumes)
<1>2. new \in Runtime /\ new.pc = "idle" /\ new.rev = k.rev /\ new.attempt = 0
  BY <1>1, NewRuntimeTyped
<1> DEFINE z == [new EXCEPT !.told = status, !.turn = k.turn, !.safe = k.safe]
           y == [z EXCEPT !.bound = k.bound, !.cancel = k.cancel, !.cancelling = k.cancelling]
<1>3. Returns(k, status) = y
  BY DEF Returns
<1> HIDE DEF new
<1>4. z \in Runtime
  BY <1>1, <1>2, ZenonT(40) DEF Runtime
<1>5. /\ z.pc = new.pc /\ z.turn = k.turn /\ z.rev = new.rev /\ z.safe = k.safe
      /\ z.told = status /\ z.attempt = new.attempt
  BY <1>2 DEF Runtime
<1> HIDE DEF z
<1>6. y \in Runtime
  BY <1>1, <1>4, ZenonT(40) DEF Runtime
<1>7. /\ y.pc = z.pc /\ y.turn = z.turn /\ y.rev = z.rev /\ y.safe = z.safe
      /\ y.told = z.told /\ y.attempt = z.attempt
  BY <1>4 DEF Runtime
<1> HIDE DEF y
<1> QED BY <1>2, <1>3, <1>5, <1>6, <1>7

LEMMA MaximumAttemptsTyped ==
  ASSUME NEW r \in Runtimes
  PROVE  MaximumAttempts[r] \in Nat /\ 0 < MaximumAttempts[r] /\ 1 <= MaximumAttempts[r]
  BY RuntimesAssumption

LEMMA ReturnsFits ==
  ASSUME NEW lg, NEW rm, NEW r \in Runtimes, NEW k, Fits(lg, rm, r, k), NEW status \in Told,
         status \in {"completed", "cancelled"} => k.turn # None /\ Outcome(lg, k.turn, status, k.rev)
  PROVE  Fits(lg, rm, r, Returns(k, status)) /\ Returns(k, status).turn = k.turn
<1>1. k \in Runtime
  BY DEF Fits
<1> DEFINE y == Returns(k, status)
<1>2. /\ y \in Runtime /\ y.pc = "idle" /\ y.turn = k.turn /\ y.rev = k.rev /\ y.safe = k.safe
      /\ y.told = status /\ y.attempt = 0
  BY <1>1, ReturnsTyped
<1> HIDE DEF y
<1>3. AttemptsOK(r, y)
  BY <1>2, MaximumAttemptsTyped DEF AttemptsOK
<1>4. Fits(lg, rm, r, y)
  BY <1>2, <1>3, MoveFits
<1> QED BY <1>2, <1>4 DEF y

\* A runtime that goes on with its turn.
LEMMA PcFits ==
  ASSUME NEW lg, NEW rm, NEW r \in Runtimes, NEW k, Fits(lg, rm, r, k), k.pc # "idle",
         NEW pc \in {"attempt", "call", "bind", "wait", "retry", "exhausted", "fail", "settle"},
         pc = "retry" => k.attempt < MaximumAttempts[r]
  PROVE  Fits(lg, rm, r, [k EXCEPT !.pc = pc])
<1>1. k \in Runtime /\ AttemptsOK(r, k)
  BY DEF Fits
<1> DEFINE y == [k EXCEPT !.pc = pc]
<1>2. /\ y \in Runtime /\ y.pc = pc /\ y.turn = k.turn /\ y.rev = k.rev /\ y.safe = k.safe
      /\ y.told = k.told /\ y.attempt = k.attempt
  BY <1>1 DEF Runtime
<1> HIDE DEF y
<1>3. AttemptsOK(r, y)
  BY <1>1, <1>2 DEF AttemptsOK
<1>4. Fits(lg, rm, r, y)
  BY <1>2, <1>3, MoveFits
<1> QED BY <1>2, <1>4 DEF y

LEMMA GivesUpFits ==
  ASSUME NEW lg, NEW rm, NEW r \in Runtimes, NEW k, Fits(lg, rm, r, k), k.pc # "idle"
  PROVE  Fits(lg, rm, r, GivesUp(k)) /\ GivesUp(k).turn = k.turn
<1>1. CASE k.starting
  <2>1. GivesUp(k) = [k EXCEPT !.pc = "fail"]
    BY <1>1 DEF GivesUp
  <2>2. Fits(lg, rm, r, [k EXCEPT !.pc = "fail"])
    BY PcFits
  <2>3. [k EXCEPT !.pc = "fail"].turn = k.turn
    BY DEF Fits, Runtime
  <2> QED BY <2>1, <2>2, <2>3
<1>2. CASE ~k.starting
  <2> DEFINE status == IF k.result = "disconnected" /\ ~k.failed THEN "disconnected" ELSE "interrupted"
  <2>1. GivesUp(k) = Returns(k, status)
    BY <1>2 DEF GivesUp
  <2>2. status \in Told /\ status \notin {"completed", "cancelled"}
    BY DEF Told
  <2> HIDE DEF status
  <2> QED BY <2>1, <2>2, ReturnsFits
<1> QED BY <1>1, <1>2

LEMMA AttemptedFits ==
  ASSUME NEW lg, NEW rm, NEW r \in Runtimes, NEW k, Fits(lg, rm, r, k), k.pc # "idle",
         NEW next \in Attempted(r, k)
  PROVE  Fits(lg, rm, r, next)
<1>1. CASE next = GivesUp(k)
  BY <1>1, GivesUpFits
<1>2. CASE next = [k EXCEPT !.pc = "exhausted"]
  BY <1>2, PcFits
<1>3. CASE next = [k EXCEPT !.pc = "retry"] /\ k.attempt < MaximumAttempts[r]
  BY <1>3, PcFits
<1> QED BY <1>1, <1>2, <1>3, Zenon DEF Attempted

LEMMA ObservedFits ==
  ASSUME NEW lg, NEW rm, NEW r \in Runtimes, NEW k, Fits(lg, rm, r, k), k.pc # "idle",
         NEW retryable, NEW next \in Observed(r, k, retryable)
  PROVE  Fits(lg, rm, r, next)
<1>1. next = GivesUp(k) \/ next \in Attempted(r, k)
  BY Zenon DEF Observed
<1> QED BY <1>1, GivesUpFits, AttemptedFits

\* The retries of an append.
LEMMA RetriesFits ==
  ASSUME NEW lg, NEW rm, NEW r, NEW k, Fits(lg, rm, r, k), NEW n \in 0..MaximumRebases
  PROVE  Fits(lg, rm, r, [k EXCEPT !.retries = n]) /\ [k EXCEPT !.retries = n].turn = k.turn
<1>1. k \in Runtime
  BY DEF Fits
<1> DEFINE y == [k EXCEPT !.retries = n]
<1>2. y \in Runtime /\ Same(k, y)
  BY <1>1 DEF Runtime, Same
<1>3. Fits(lg, rm, r, y)
  <2> HIDE DEF y
  <2> QED BY <1>2, SameFits
<1> QED BY <1>2, <1>3 DEF Same

-----------------------------------------------------------------------------
(* persistGenerated() *)

\* The log with drafts at its end.
LEMMA JoinedIs ==
  ASSUME NEW a \in Seq(Event), NEW d \in Seq(Event)
  PROVE  LET lg == a \o d IN
         /\ lg \in Seq(Event) /\ Len(a) \in Nat /\ Len(d) \in Nat
         /\ Len(lg) = Len(a) + Len(d) /\ Len(a) <= Len(lg)
         /\ \A i \in 1..Len(a) : lg[i] = a[i]
         /\ \A i \in 1..Len(d) : lg[Len(a) + i] = d[i]
  BY LenProperties, ConcatProperties

\* What the drafts say is known once they are saved.
LEMMA SavedFits ==
  ASSUME IInv, NEW r, NEW d \in Seq(Event), NEW next, NEW t \in Turns,
         next.turn = t, EventsOK(log \o d, remote), Fits(log \o d, remote, r, next)
  PROVE  Fits(log \o d, remote, r,
              [next EXCEPT !.rev = Len(log) + Len(d), !.retries = 0,
                           !.safe = Max({next.safe, SafeSequence(d, t)})])
<1> DEFINE lg == log \o d
           F == remote[t].frames
           v == SafeSequence(d, t)
           m == Max({next.safe, v})
           y == [next EXCEPT !.rev = Len(log) + Len(d), !.retries = 0, !.safe = m]
<1>1. /\ log \in Seq(Event) /\ Len(log) \in Nat /\ remote \in [Turns -> Remote]
      /\ RemoteOK(remote)
  BY LenProperties DEF IInv, Typed
<1>2. /\ lg \in Seq(Event) /\ Len(d) \in Nat /\ Len(lg) = Len(log) + Len(d)
      /\ \A i \in 1..Len(d) : lg[Len(log) + i] = d[i]
  BY <1>1, LenProperties, ConcatProperties
<1>3. F \in Seq(Kinds \cup Terminals) /\ Len(F) \in Nat
  BY <1>1, LenProperties DEF Remote
<1> HIDE DEF lg, v, m, F
<1>4. EventsOK(lg, remote) /\ Fits(lg, remote, r, next) /\ next \in Runtime
  BY DEF lg, Fits
<1>5. \A i \in 1..Len(d) : Len(log) + i \in 1..Len(lg)
  BY <1>1, <1>2
<1>6. \A i \in 1..Len(d) : d[i].turn = t => d[i].seq <= Len(F)
  BY <1>2, <1>4, <1>5 DEF EventsOK, EventOK, F
<1>7. /\ v \in Nat
      /\ v = 0 \/ \E i \in 1..Len(d) : d[i].turn = t /\ d[i].safe /\ v = d[i].seq
  BY <1>3, <1>6, SafeSequenceIs DEF v
<1>8. /\ next.rev \in Nat /\ next.rev <= Len(lg) /\ next.safe \in Nat
      /\ SafeOK(lg, F, t, next.rev, next.safe)
  <2>1. t # None
    BY NoneAssumption
  <2> QED BY <1>4, <2>1 DEF Fits, RuntimeOK, Runtime, F
<1>9. m \in {next.safe, v}
  BY <1>7, <1>8, MaxOfTwo DEF m
<1>10. SafeOK(lg, F, t, Len(lg), v)
  <2>1. CASE v = 0
    BY <1>3, <2>1, SafeZero
  <2>2. ASSUME NEW i \in 1..Len(d), d[i].turn = t, d[i].safe, v = d[i].seq
        PROVE  SafeOK(lg, F, t, Len(lg), v)
    <3> DEFINE j == Len(log) + i
    <3>1. j \in 1..Len(lg) /\ lg[j] = d[i]
      BY <1>2, <1>5
    <3> HIDE DEF j
    <3>2. Len(lg) \in Nat /\ Len(lg) <= Len(lg)
      BY <1>1, <1>2
    <3>3. SafeOK(lg, remote[lg[j].turn].frames, lg[j].turn, Len(lg), lg[j].seq)
      BY <1>1, <1>2, <1>4, <2>2, <3>1, <3>2, SafeEvent
    <3> QED BY <2>2, <3>1, <3>3 DEF F
  <2> QED BY <1>7, <2>1, <2>2
<1>11. SafeOK(lg, F, t, Len(lg), next.safe)
  BY <1>1, <1>2, <1>8, SafeAdvances
<1>12. SafeOK(lg, F, t, Len(lg), m)
  BY <1>9, <1>10, <1>11
<1>13. /\ y \in Runtime /\ y.rev = Len(lg) /\ y.safe = m /\ y.turn = t
       /\ Same([next EXCEPT !.rev = y.rev, !.safe = y.safe], y)
  <2>1. m \in Nat
    BY <1>7, <1>8, <1>9
  <2>2. 0 \in 0..MaximumRebases
    BY BoundsAssumption
  <2> DEFINE n == Len(log) + Len(d)
  <2>3. n \in Nat /\ n = Len(lg)
    BY <1>1, <1>2
  <2> HIDE DEF n
  <2>4. y = [next EXCEPT !.rev = n, !.retries = 0, !.safe = m]
    BY DEF n
  <2> HIDE DEF y
  <2>5. y \in Runtime
    BY <1>4, <2>1, <2>2, <2>3, <2>4 DEF Runtime
  <2>6. y.rev = n /\ y.safe = m /\ y.turn = next.turn
    BY <1>4, <2>4 DEF Runtime
  <2>7. Same([next EXCEPT !.rev = y.rev, !.safe = y.safe], y)
    BY <1>4, <2>4, <2>6 DEF Runtime, Same
  <2> QED BY <2>3, <2>5, <2>6, <2>7
<1>14. Fits(lg, remote, r, y)
  <2> HIDE DEF y
  <2>1. next.rev <= y.rev /\ y.rev <= Len(lg)
    BY <1>1, <1>2, <1>8, <1>13
  <2>2. SafeOK(lg, remote[y.turn].frames, y.turn, y.rev, y.safe)
    BY <1>12, <1>13 DEF F
  <2> QED BY <1>2, <1>4, <1>13, <2>1, <2>2, AdvanceFits
<1> QED BY <1>14 DEF lg, m, v

\* An append, and whatever may happen instead.
LEMMA PersistKeeps ==
  ASSUME IInv, NEW r \in Runtimes, NEW d \in Seq(Event), NEW next, NEW thrown,
         Persist(r, d, next, thrown), UNCHANGED remote,
         Fits(log, remote, r, thrown), d = <<>> => Fits(log, remote, r, next),
         d # <<>> /\ runtime[r].rev = Len(log) =>
           /\ EventsOK(log \o d, remote)
           /\ Fits(log \o d, remote, r,
                   [next EXCEPT !.rev = Len(log) + Len(d), !.retries = 0,
                                !.safe = Max({next.safe, SafeSequence(d, runtime[r].turn)})])
  PROVE  IInv'
<1> DEFINE k == runtime[r]
<1>1. /\ log \in Seq(Event) /\ Len(log) \in Nat /\ remote \in [Turns -> Remote]
      /\ faults \in Nat
  BY LenProperties DEF IInv, Typed
<1>2. k \in Runtime /\ Fits(log, remote, r, k)
  BY RuntimeIs
<1>3. /\ log \o d \in Seq(Event) /\ Len(log) <= Len(log \o d)
      /\ \A i \in 1..Len(log) : (log \o d)[i] = log[i]
  BY <1>1, LenProperties, ConcatProperties
<1>4. faults' \in Nat
  BY <1>1 DEF Persist, Fault, NoFault
<1>5. 0 \in 0..MaximumRebases
  BY BoundsAssumption
<1>6. CASE d = <<>> /\ runtime' = [runtime EXCEPT ![r] = [next EXCEPT !.retries = 0]] /\ UNCHANGED log
  <2>1. Fits(log, remote, r, [next EXCEPT !.retries = 0])
    BY <1>5, <1>6, RetriesFits
  <2> QED BY <1>4, <1>6, <2>1, QuietStepKeeps
<1>7. CASE /\ d # <<>> /\ k.rev = Len(log) /\ log' = log \o d
           /\ runtime' = [runtime EXCEPT ![r] =
                [next EXCEPT !.rev = Len(log) + Len(d), !.retries = 0,
                             !.safe = Max({next.safe, SafeSequence(d, k.turn)})]]
  BY <1>1, <1>3, <1>4, <1>7, StepKeeps
<1>8. CASE /\ k.retries < MaximumRebases /\ UNCHANGED log
           /\ runtime' = [runtime EXCEPT ![r] = [CaughtUp(k) EXCEPT !.retries = CaughtUp(k).retries + 1]]
  <2>1. CaughtUp(k) \in Runtime /\ Fits(log, remote, r, CaughtUp(k))
    BY <1>2, CaughtUpIs
  <2>2. CaughtUp(k).retries = k.retries
    BY <1>2 DEF CaughtUp, Runtime
  <2> DEFINE n == CaughtUp(k).retries + 1
  <2>3. n \in 0..MaximumRebases
    <3>1. k.retries \in 0..MaximumRebases
      BY <1>2 DEF Runtime
    <3> HIDE DEF k
    <3> QED BY <1>8, <2>2, <3>1, BoundsAssumption
  <2> HIDE DEF n
  <2>4. Fits(log, remote, r, [CaughtUp(k) EXCEPT !.retries = n])
    BY <2>1, <2>3, RetriesFits
  <2> QED BY <1>4, <1>8, <2>4, QuietStepKeeps DEF n
<1>9. CASE runtime' = [runtime EXCEPT ![r] = [thrown EXCEPT !.retries = 0]] /\ UNCHANGED log
  <2>1. Fits(log, remote, r, [thrown EXCEPT !.retries = 0])
    BY <1>5, RetriesFits
  <2> QED BY <1>4, <1>9, <2>1, QuietStepKeeps
<1>10. CASE /\ runtime' = [runtime EXCEPT ![r] = [thrown EXCEPT !.retries = 0]]
            /\ d # <<>> /\ k.rev = Len(log) /\ log' = log \o d
  <2>1. Fits(log \o d, remote, r, thrown)
    BY <1>1, <1>3, RuntimeKept DEF Fits
  <2>2. Fits(log \o d, remote, r, [thrown EXCEPT !.retries = 0])
    BY <1>5, <2>1, RetriesFits
  <2> QED BY <1>1, <1>3, <1>4, <1>10, <2>2, StepKeeps
<1> QED BY <1>6, <1>7, <1>8, <1>9, <1>10 DEF Persist

\* The log goes on with these drafts.
LEMMA AppendOK ==
  ASSUME IInv, NEW d \in Seq(Event), \A i \in 1..Len(d) : EventOK(log \o d, remote, Len(log) + i)
  PROVE  EventsOK(log \o d, remote)
<1>1. log \in Seq(Event) /\ Len(log) \in Nat /\ EventsOK(log, remote)
  BY LenProperties DEF IInv, Typed
<1> DEFINE lg == log \o d
<1>2. /\ Len(d) \in Nat /\ Len(lg) = Len(log) + Len(d)
      /\ \A i \in 1..Len(log) : lg[i] = log[i]
  BY <1>1, LenProperties, ConcatProperties
<1> HIDE DEF lg
<1> SUFFICES ASSUME NEW i \in 1..Len(lg)
             PROVE  EventOK(lg, remote, i)
  BY DEF EventsOK, lg
<1>3. CASE i <= Len(log)
  <2>1. i \in Nat \ {0} /\ i \in 1..Len(log) /\ \A j \in 1..i : lg[j] = log[j]
    BY <1>1, <1>2, <1>3
  <2>2. EventOK(log, remote, i)
    BY <1>1, <2>1 DEF EventsOK
  <2> QED BY <2>1, <2>2, EventKept
<1>4. CASE i > Len(log)
  <2> DEFINE m == i - Len(log)
  <2>1. m \in 1..Len(d) /\ i = Len(log) + m
    BY <1>1, <1>2, <1>4
  <2> HIDE DEF m
  <2> QED BY <2>1 DEF lg
<1> QED BY <1>1, <1>2, <1>3, <1>4

LEMMA PlainOK ==
  ASSUME IInv, NEW t \in Turns,
         NEW type \in {"admitted", "bound", "resumed", "retry", "waiting", "stopping", "failed"}
  PROVE  LET d == <<Plain(type, t)>> IN
         /\ d \in Seq(Event) /\ d # <<>> /\ Len(d) = 1
         /\ EventsOK(log \o d, remote)
<1> DEFINE e == Plain(type, t)
           d == <<e>>
<1>1. /\ e \in Event /\ e.type = type /\ e.turn = t /\ e.seq = 0 /\ ~e.safe
      /\ e.message = None
  BY PlainTyped
<1> HIDE DEF e
<1>2. d \in Seq(Event) /\ d # <<>> /\ Len(d) = 1 /\ d[1] = e
  BY <1>1
<1>3. log \in Seq(Event) /\ Len(log) \in Nat /\ remote[t].frames \in Seq(Kinds \cup Terminals)
  BY LenProperties DEF IInv, Typed, Remote
<1>4. Len(remote[t].frames) \in Nat
  BY <1>3, LenProperties
<1> DEFINE lg == log \o d
<1>5. lg[Len(log) + 1] = e
  <2> HIDE DEF d
  <2> QED BY <1>2, <1>3, ConcatProperties
<1>6. EventOK(lg, remote, Len(log) + 1)
  <2> HIDE DEF lg
  <2> QED BY <1>1, <1>4, <1>5 DEF EventOK
<1>7. EventsOK(lg, remote)
  <2>1. \A i \in 1..Len(d) : i = 1
    BY <1>2
  <2> HIDE DEF d
  <2> QED BY <1>2, <1>6, <2>1, AppendOK
<1> QED BY <1>2, <1>7 DEF e

\* One event without a frame is appended.
LEMMA PlainPersistKeeps ==
  ASSUME IInv, NEW r \in Runtimes, NEW d, NEW next, NEW thrown, NEW t \in Turns,
         NEW type \in {"admitted", "bound", "resumed", "retry", "waiting", "stopping", "failed"},
         runtime[r].turn = t, d = <<>> \/ d = <<Plain(type, t)>>,
         Persist(r, d, next, thrown), UNCHANGED remote,
         Fits(log, remote, r, thrown), Fits(log, remote, r, next), next.turn = t
  PROVE  IInv'
<1>1. CASE d = <<>>
  <2>1. d \in Seq(Event)
    BY <1>1, EmptySeq
  <2> QED BY <1>1, <2>1, PersistKeeps
<1>2. CASE d = <<Plain(type, t)>>
  <2>1. d \in Seq(Event) /\ d # <<>> /\ Len(d) = 1 /\ EventsOK(log \o d, remote)
    BY <1>2, PlainOK
  <2>2. log \in Seq(Event) /\ Len(log) \in Nat
    BY LenProperties DEF IInv, Typed
  <2>3. /\ log \o d \in Seq(Event) /\ Len(log) <= Len(log \o d)
        /\ \A i \in 1..Len(log) : (log \o d)[i] = log[i]
    BY <2>1, <2>2, LenProperties, ConcatProperties
  <2>4. Fits(log \o d, remote, r, next)
    BY <2>2, <2>3, RuntimeKept DEF Fits
  <2>5. Fits(log \o d, remote, r,
             [next EXCEPT !.rev = Len(log) + Len(d), !.retries = 0,
                          !.safe = Max({next.safe, SafeSequence(d, t)})])
    BY <2>1, <2>4, SavedFits
  <2> QED BY <2>1, <2>5, PersistKeeps
<1> QED BY <1>1, <1>2

-----------------------------------------------------------------------------
(* Admission, attempts and their end *)

LEMMA ThrowsFits ==
  ASSUME NEW lg, NEW rm, NEW r \in Runtimes, NEW k, Fits(lg, rm, r, k), k.pc # "idle"
  PROVE  Fits(lg, rm, r, Throws(k))
  BY PcFits DEF Throws

\* One attempt more.
LEMMA AttemptFits ==
  ASSUME NEW lg, NEW rm, NEW r \in Runtimes, NEW k, Fits(lg, rm, r, k), k.pc # "idle",
         NEW n \in Nat, n <= MaximumAttempts[r]
  PROVE  Fits(lg, rm, r, [k EXCEPT !.pc = "attempt", !.attempt = n])
<1>1. k \in Runtime
  BY DEF Fits
<1> DEFINE y == [k EXCEPT !.pc = "attempt", !.attempt = n]
<1>2. /\ y \in Runtime /\ y.pc = "attempt" /\ y.turn = k.turn /\ y.rev = k.rev /\ y.safe = k.safe
      /\ y.told = k.told /\ y.attempt = n
  BY <1>1 DEF Runtime
<1> HIDE DEF y
<1>3. AttemptsOK(r, y)
  BY <1>2 DEF AttemptsOK
<1>4. Fits(lg, rm, r, y)
  BY <1>2, <1>3, MoveFits
<1> QED BY <1>2, <1>4 DEF y

LEMMA AdmitKeeps ==
  ASSUME IInv, NEW r \in Runtimes, Admit(r)
  PROVE  IInv'
<1> DEFINE k == runtime[r]
<1>1. /\ k \in Runtime /\ Fits(log, remote, r, k) /\ k.pc = "admit" /\ k.turn \in Turns
      /\ k.rev <= Len(log)
  BY RuntimeIs DEF Admit
<1>2. "busy" \in Told /\ "error" \in Told
  BY DEF Told
<1>3. CASE /\ runtime' = [runtime EXCEPT ![r] = Returns([k EXCEPT !.turn = None], "busy")]
           /\ UNCHANGED log /\ NoFault
  <2> DEFINE x == [k EXCEPT !.turn = None]
             y == Returns(x, "busy")
  <2>1. x \in Runtime /\ x.turn = None /\ x.rev = k.rev
    BY <1>1 DEF Runtime
  <2> HIDE DEF x
  <2>2. y \in Runtime /\ y.pc = "idle" /\ y.turn = None /\ y.rev = k.rev /\ y.told = "busy"
        /\ y.attempt = 0
    BY <1>2, <2>1, ReturnsTyped
  <2> HIDE DEF y
  <2>3. Fits(log, remote, r, y)
    BY <1>1, <2>2, MaximumAttemptsTyped DEF Fits, RuntimeOK, AttemptsOK
  <2>4. faults' \in Nat
    BY <1>3 DEF NoFault, IInv, Typed
  <2>5. UNCHANGED <<log, remote>>
    BY <1>3 DEF Admit
  <2> QED BY <1>3, <2>3, <2>4, <2>5, QuietStepKeeps DEF x, y
<1>4. CASE Persist(r, <<Plain("admitted", k.turn)>>, [k EXCEPT !.pc = "attempt", !.attempt = 1],
                   Returns(k, "error"))
  <2>1. Fits(log, remote, r, Returns(k, "error"))
    BY <1>1, <1>2, ReturnsFits
  <2>2. Fits(log, remote, r, [k EXCEPT !.pc = "attempt", !.attempt = 1])
    BY <1>1, AttemptFits, MaximumAttemptsTyped
  <2>3. [k EXCEPT !.pc = "attempt", !.attempt = 1].turn = k.turn
    BY <1>1 DEF Runtime
  <2>4. UNCHANGED remote
    BY DEF Admit
  <2> QED BY <1>1, <1>4, <2>1, <2>2, <2>3, <2>4, PlainPersistKeeps
<1> QED BY <1>3, <1>4 DEF Admit

LEMMA AttemptKeeps ==
  ASSUME IInv, NEW r \in Runtimes, Attempt(r)
  PROVE  IInv'
<1> DEFINE k == runtime[r]
<1>1. k \in Runtime /\ Fits(log, remote, r, k) /\ k.pc = "attempt" /\ k.turn \in Turns
  BY RuntimeIs DEF Attempt
<1>2. UNCHANGED remote
  BY DEF Attempt
<1>3. CASE runtime' = [runtime EXCEPT ![r] = Returns(k, "disconnected")] /\ UNCHANGED log /\ NoFault
  <2>1. "disconnected" \in Told
    BY DEF Told
  <2>2. Fits(log, remote, r, Returns(k, "disconnected"))
    BY <1>1, <2>1, ReturnsFits
  <2>3. faults' \in Nat
    BY <1>3 DEF NoFault, IInv, Typed
  <2> QED BY <1>2, <1>3, <2>2, <2>3, QuietStepKeeps
<1>4. CASE Persist(r, <<Plain("retry", k.turn)>>, [k EXCEPT !.pc = "call"], Throws(k))
  <2>1. Fits(log, remote, r, Throws(k))
    BY <1>1, ThrowsFits
  <2>2. Fits(log, remote, r, [k EXCEPT !.pc = "call"])
    BY <1>1, PcFits
  <2>3. [k EXCEPT !.pc = "call"].turn = k.turn
    BY <1>1 DEF Runtime
  <2> QED BY <1>1, <1>2, <1>4, <2>1, <2>2, <2>3, PlainPersistKeeps
<1> QED BY <1>3, <1>4 DEF Attempt

LEMMA RetryKeeps ==
  ASSUME IInv, NEW r \in Runtimes, Retry(r)
  PROVE  IInv'
<1> DEFINE k == runtime[r]
<1>1. k \in Runtime /\ Fits(log, remote, r, k) /\ k.pc = "retry" /\ k.turn \in Turns
  BY RuntimeIs DEF Retry
<1>2. /\ Persist(r, <<Plain("retry", k.turn)>>,
                 [k EXCEPT !.pc = "attempt", !.attempt = k.attempt + 1], Throws(k))
      /\ UNCHANGED remote
  BY DEF Retry
<1>3. Fits(log, remote, r, Throws(k))
  BY <1>1, ThrowsFits
<1> DEFINE n == k.attempt + 1
<1>4. n \in Nat /\ n <= MaximumAttempts[r]
  BY <1>1, MaximumAttemptsTyped DEF Fits, AttemptsOK, Runtime
<1> HIDE DEF n
<1>5. Fits(log, remote, r, [k EXCEPT !.pc = "attempt", !.attempt = n])
  BY <1>1, <1>4, AttemptFits
<1>6. Persist(r, <<Plain("retry", k.turn)>>, [k EXCEPT !.pc = "attempt", !.attempt = n], Throws(k))
  BY <1>2 DEF n
<1>7. [k EXCEPT !.pc = "attempt", !.attempt = n].turn = k.turn
  BY <1>1 DEF Runtime
<1> QED BY <1>1, <1>2, <1>3, <1>5, <1>6, <1>7, PlainPersistKeeps

LEMMA ExhaustedKeeps ==
  ASSUME IInv, NEW r \in Runtimes, Exhausted(r)
  PROVE  IInv'
<1> DEFINE k == runtime[r]
<1>1. k \in Runtime /\ Fits(log, remote, r, k) /\ k.pc = "exhausted" /\ k.turn \in Turns
  BY RuntimeIs DEF Exhausted
<1>2. Persist(r, <<Plain("retry", k.turn)>>, GivesUp(k), Throws(k)) /\ UNCHANGED remote
  BY DEF Exhausted
<1>3. Fits(log, remote, r, Throws(k))
  BY <1>1, ThrowsFits
<1>4. Fits(log, remote, r, GivesUp(k)) /\ GivesUp(k).turn = k.turn
  BY <1>1, GivesUpFits
<1> QED BY <1>1, <1>2, <1>3, <1>4, PlainPersistKeeps

LEMMA FailKeeps ==
  ASSUME IInv, NEW r \in Runtimes, Fail(r)
  PROVE  IInv'
<1> DEFINE k == runtime[r]
<1>1. k \in Runtime /\ Fits(log, remote, r, k) /\ k.pc = "fail" /\ k.turn \in Turns
  BY RuntimeIs DEF Fail
<1>2. Persist(r, <<Plain("failed", k.turn)>>, Returns(k, "failed"), Throws(k)) /\ UNCHANGED remote
  BY DEF Fail
<1>3. Fits(log, remote, r, Throws(k))
  BY <1>1, ThrowsFits
<1>4. "failed" \in Told /\ "failed" \notin {"completed", "cancelled"}
  BY DEF Told, Terminals
<1>5. Fits(log, remote, r, Returns(k, "failed"))
  BY <1>1, <1>4, ReturnsFits
<1>6. Returns(k, "failed").turn = k.turn
  BY <1>1, <1>4, ReturnsTyped
<1> QED BY <1>1, <1>2, <1>3, <1>5, <1>6, PlainPersistKeeps

\* The log stays, and so do the frames.
LEMMA RemoteStepKeeps ==
  ASSUME IInv, NEW r \in Runtimes, NEW y, NEW rm2 \in [Turns -> Remote],
         UNCHANGED log, remote' = rm2, runtime' = [runtime EXCEPT ![r] = y], faults' \in Nat,
         \A t \in Turns : rm2[t].frames = remote[t].frames, Fits(log, remote, r, y)
  PROVE  IInv'
<1>1. log \in Seq(Event) /\ EventsOK(log, remote)
  BY DEF IInv, Typed
<1>2. Len(log) \in Nat
  BY <1>1, LenProperties
<1>3. Len(log) <= Len(log) /\ log' = log
  BY <1>2
<1>4. \A i \in 1..Len(log) : log[i] = log[i]
  OBVIOUS
<1> QED BY <1>1, <1>3, <1>4, StepKeeps, Zenon

LEMMA FaultTyped ==
  ASSUME IInv, Fault \/ NoFault
  PROVE  faults' \in Nat
  BY DEF IInv, Typed, Fault, NoFault

\* The start of an observation.
LEMMA ObservesFits ==
  ASSUME NEW lg, NEW rm, NEW r, NEW k, Fits(lg, rm, r, k), k.turn \in Turns,
         rm \in [Turns -> Remote]
  PROVE  Fits(lg, rm, r, Observes(k)) /\ Observes(k).turn = k.turn
<1> DEFINE F == rm[k.turn].frames
           n == k.safe + 1
           z == [k EXCEPT !.pc = "observe", !.starting = FALSE, !.base = n, !.expected = n,
                          !.unsafe = FALSE]
           y == [z EXCEPT !.batch = <<>>, !.terminal = None, !.failed = FALSE, !.result = None]
<1>1. k \in Runtime /\ RuntimeOK(lg, rm, k) /\ AttemptsOK(r, k) /\ k.turn # None
  BY NoneAssumption DEF Fits
<1>2. F \in Seq(Kinds \cup Terminals) /\ Len(F) \in Nat
  BY LenProperties DEF Remote
<1>3. k.safe \in Nat /\ n \in Nat /\ n - 1 = k.safe /\ SafeOK(lg, F, k.turn, k.rev, k.safe)
  BY <1>1 DEF RuntimeOK, Runtime
<1>4. Observes(k) = y
  BY DEF Observes
<1>5. <<>> \in Seq([seq : Nat, safe : BOOLEAN]) /\ Len(<<>>) = 0
  BY EmptySeq
<1> HIDE DEF n, F
<1>6. z \in Runtime
  BY <1>1, <1>3 DEF Runtime
<1>7. /\ z.pc = "observe" /\ z.turn = k.turn /\ z.rev = k.rev /\ z.safe = k.safe
      /\ z.base = n /\ z.expected = n /\ z.unsafe = FALSE /\ z.told = k.told /\ z.attempt = k.attempt
  BY <1>1 DEF Runtime
<1> HIDE DEF z
<1>8. y \in Runtime
  BY <1>5, <1>6 DEF Runtime
<1>9. /\ y.pc = z.pc /\ y.turn = z.turn /\ y.rev = z.rev /\ y.safe = z.safe
      /\ y.base = z.base /\ y.expected = z.expected /\ y.told = z.told /\ y.attempt = z.attempt
      /\ y.batch = <<>> /\ y.terminal = None
  BY <1>6 DEF Runtime
<1> HIDE DEF y
<1>10. BatchOK(F, y)
  BY <1>5, <1>9 DEF BatchOK
<1>11. /\ \A s \in 1..k.safe : Written(F[s]) => Has(lg, y, s)
       /\ NoEmptyText => Over(F, k.safe) \/ \A s \in 1..k.safe : Has(lg, y, s)
  BY <1>3, <1>7, <1>9 DEF SafeOK, Continues, Has
<1>12. Complete(lg, F, y)
  BY <1>3, <1>7, <1>9, <1>11 DEF Complete
<1>13. Observation(lg, F, y)
  <2>1. 1 <= y.base /\ y.base <= y.expected /\ y.expected <= Len(F) + 1
    BY <1>2, <1>3, <1>7, <1>9 DEF SafeOK, n
  <2>2. NoEmptyText => Continues(lg, F, y.turn, y.rev, y.base - 1)
    BY <1>3, <1>7, <1>9 DEF SafeOK
  <2>3. \A j \in 1..Len(y.batch) : FALSE
    BY <1>5, <1>9
  <2>4. y.terminal = None /\ y.pc \notin {"result", "finish"}
    BY <1>7, <1>9
  <2> QED BY <1>10, <1>12, <2>1, <2>2, <2>3, <2>4 DEF Observation
<1>14. RuntimeOK(lg, rm, y) /\ AttemptsOK(r, y)
  BY <1>1, <1>7, <1>9, <1>13 DEF RuntimeOK, AttemptsOK, F
<1> QED BY <1>4, <1>7, <1>8, <1>9, <1>14 DEF Fits

LEMMA BindKeeps ==
  ASSUME IInv, NEW r \in Runtimes, Bind(r)
  PROVE  IInv'
<1> DEFINE k == runtime[r]
           d == IF Canonical(Prefix(k), k.turn) # None THEN <<>> ELSE <<Plain("bound", k.turn)>>
<1>1. k \in Runtime /\ Fits(log, remote, r, k) /\ k.pc = "bind" /\ k.turn \in Turns
  BY RuntimeIs DEF Bind
<1>2. Persist(r, d, Observes(k), Throws(k)) /\ UNCHANGED remote
  BY DEF Bind
<1>3. d = <<>> \/ d = <<Plain("bound", k.turn)>>
  OBVIOUS
<1> HIDE DEF d
<1>4. Fits(log, remote, r, Throws(k))
  BY <1>1, ThrowsFits
<1>5. remote \in [Turns -> Remote]
  BY DEF IInv, Typed
<1>6. Fits(log, remote, r, Observes(k)) /\ Observes(k).turn = k.turn
  BY <1>1, <1>5, ObservesFits
<1> QED BY <1>1, <1>2, <1>3, <1>4, <1>6, PlainPersistKeeps

LEMMA CallKeeps ==
  ASSUME IInv, NEW r \in Runtimes, Call(r)
  PROVE  IInv'
<1> DEFINE k == runtime[r]
           started == [remote EXCEPT ![k.turn].running = TRUE]
<1>1. k \in Runtime /\ Fits(log, remote, r, k) /\ k.pc = "call" /\ k.turn \in Turns
  BY RuntimeIs DEF Call
<1>2. remote \in [Turns -> Remote] /\ runtime \in [Runtimes -> Runtime]
  BY DEF IInv, Typed
<1>3. started \in [Turns -> Remote] /\ \A t \in Turns : started[t].frames = remote[t].frames
  BY <1>1, <1>2 DEF Remote
<1>4. UNCHANGED log /\ faults' \in Nat
  BY FaultTyped DEF Call
<1>5. remote' \in {remote, started}
  BY Zenon DEF Call
<1>6. remote' \in [Turns -> Remote] /\ \A t \in Turns : remote'[t].frames = remote[t].frames
  <2> HIDE DEF started
  <2> QED BY <1>2, <1>3, <1>5
<1>7. \E y : Fits(log, remote, r, y) /\ runtime' = [runtime EXCEPT ![r] = y]
  <2>1. CASE runtime' = [runtime EXCEPT ![r] = Returns(k, "disconnected")]
    <3>1. "disconnected" \in Told
      BY DEF Told
    <3>2. Fits(log, remote, r, Returns(k, "disconnected"))
      BY <1>1, <3>1, ReturnsFits
    <3> QED BY <2>1, <3>2
  <2>2. CASE runtime' = [runtime EXCEPT ![r] = Observes(k)]
    <3>1. Fits(log, remote, r, Observes(k))
      BY <1>1, <1>2, ObservesFits
    <3> QED BY <2>2, <3>1
  <2>3. ASSUME NEW b \in BOOLEAN, NEW next \in Attempted(r, [k EXCEPT !.starting = b]),
               runtime' = [runtime EXCEPT ![r] = next]
        PROVE  \E y : Fits(log, remote, r, y) /\ runtime' = [runtime EXCEPT ![r] = y]
    <3> DEFINE x == [k EXCEPT !.starting = b]
    <3>1. x \in Runtime /\ Same(k, x) /\ x.pc = "call"
      BY <1>1 DEF Runtime, Same
    <3> HIDE DEF x
    <3>2. Fits(log, remote, r, x)
      BY <1>1, <3>1, SameFits
    <3>3. next \in Attempted(r, x)
      BY <2>3 DEF x
    <3>4. Fits(log, remote, r, next)
      BY <3>1, <3>2, <3>3, AttemptedFits
    <3> QED BY <2>3, <3>4
  <2>4. CASE runtime' = [runtime EXCEPT ![r].pc = "bind", ![r].bound = TRUE]
    <3> DEFINE x == [k EXCEPT !.bound = TRUE]
    <3>1. x \in Runtime /\ Same(k, x) /\ x.pc = "call"
      BY <1>1 DEF Runtime, Same
    <3>2. runtime' = [runtime EXCEPT ![r] = [x EXCEPT !.pc = "bind"]]
      BY <1>1, <1>2, <2>4 DEF Runtime
    <3> HIDE DEF x
    <3>3. Fits(log, remote, r, x)
      BY <1>1, <3>1, SameFits
    <3>4. Fits(log, remote, r, [x EXCEPT !.pc = "bind"])
      BY <3>1, <3>3, PcFits
    <3> QED BY <3>2, <3>4
  <2> QED BY <2>1, <2>2, <2>3, <2>4 DEF Call
<1> QED BY <1>4, <1>6, <1>7, RemoteStepKeeps

-----------------------------------------------------------------------------
(* Steps of one runtime that write nothing *)

\* What the projection says of a turn's outcome, the log says.
LEMMA PrefixCanonical ==
  ASSUME IInv, NEW r, NEW k, Fits(log, remote, r, k), NEW t \in Turns
  PROVE  /\ Canonical(Prefix(k), t) = None =>
              \A i \in 1..k.rev : log[i].turn = t => log[i].type \notin Terminals
         /\ Canonical(Prefix(k), t) # None =>
              /\ Canonical(Prefix(k), t) \in Terminals
              /\ Outcome(log, t, Canonical(Prefix(k), t), k.rev)
<1>1. log \in Seq(Event) /\ k.rev \in Nat /\ k.rev <= Len(log)
  BY DEF IInv, Typed, Fits, RuntimeOK, Runtime
<1> DEFINE p == Prefix(k)
<1>2. p \in Seq(Event) /\ Len(p) = k.rev /\ \A i \in 1..k.rev : p[i] = log[i]
  BY <1>1, PrefixIs
<1> HIDE DEF p
<1>3. /\ Canonical(p, t) = None => \A i \in 1..k.rev : p[i].turn = t => p[i].type \notin Terminals
      /\ Canonical(p, t) # None =>
           Canonical(p, t) \in Terminals /\ Outcome(p, t, Canonical(p, t), k.rev)
  BY <1>2, CanonicalIs
<1>4. ASSUME NEW o, Outcome(p, t, o, k.rev)
      PROVE  Outcome(log, t, o, k.rev)
  <2>1. PICK i \in 1..k.rev : /\ p[i].turn = t /\ p[i].type = o
                              /\ \A j \in 1..(i - 1) : p[j].turn = t => p[j].type \notin Terminals
    BY <1>4 DEF Outcome
  <2>2. p[i] = log[i] /\ \A j \in 1..(i - 1) : p[j] = log[j]
    BY <1>1, <1>2
  <2> QED BY <2>1, <2>2 DEF Outcome
<1> QED BY <1>2, <1>3, <1>4 DEF p

\* A runtime that tells what its projection says.
LEMMA TellsFits ==
  ASSUME IInv, NEW r \in Runtimes, NEW k, Fits(log, remote, r, k), k.turn \in Turns,
         Canonical(Prefix(k), k.turn) # None
  PROVE  Fits(log, remote, r, Returns(k, Canonical(Prefix(k), k.turn)))
<1> DEFINE o == Canonical(Prefix(k), k.turn)
<1>1. o \in Terminals /\ Outcome(log, k.turn, o, k.rev) /\ k.turn # None
  BY PrefixCanonical, NoneAssumption
<1> HIDE DEF o
<1>2. o \in Told
  BY <1>1 DEF Told
<1>3. Fits(log, remote, r, Returns(k, o))
  BY <1>1, <1>2, ReturnsFits
<1> QED BY <1>3 DEF o

LEMMA SettleKeeps ==
  ASSUME IInv, NEW r \in Runtimes, Settle(r)
  PROVE  IInv'
<1> DEFINE k0 == runtime[r]
           k == CaughtUp(k0)
           o == Canonical(log, k.turn)
<1>1. k0 \in Runtime /\ Fits(log, remote, r, k0)
  BY RuntimeIs
<1>2. k \in Runtime /\ Fits(log, remote, r, k) /\ k.rev = Len(log)
  BY <1>1, CaughtUpIs
<1>3. /\ k.pc = "settle" /\ UNCHANGED <<log, remote>>
      /\ runtime' = [runtime EXCEPT ![r] = Returns(k, IF o # None THEN o ELSE "error")]
  BY DEF Settle
<1>4. faults' \in Nat
  BY FaultTyped DEF Settle
<1> HIDE DEF k0, k
<1>5. k.turn \in Turns /\ log \in Seq(Event)
  BY <1>2, <1>3 DEF Fits, RuntimeOK, Runtime, IInv, Typed
<1>6. o # None => o \in Terminals /\ Outcome(log, k.turn, o, k.rev)
  BY <1>2, <1>5, CanonicalIs
<1> HIDE DEF o
<1> DEFINE status == IF o # None THEN o ELSE "error"
<1>7. /\ status \in Told
      /\ status \in {"completed", "cancelled"} => k.turn # None /\ Outcome(log, k.turn, status, k.rev)
  BY <1>5, <1>6, NoneAssumption DEF Told
<1> HIDE DEF status
<1>8. Fits(log, remote, r, Returns(k, status))
  BY <1>2, <1>7, ReturnsFits
<1> QED BY <1>3, <1>4, <1>8, QuietStepKeeps DEF status

LEMMA StopObservingKeeps ==
  ASSUME IInv, NEW r \in Runtimes, StopObserving(r)
  PROVE  IInv'
<1> DEFINE k == runtime[r]
           y == [k EXCEPT !.stopped = TRUE]
<1>1. k \in Runtime /\ Fits(log, remote, r, k)
  BY RuntimeIs
<1>2. y \in Runtime /\ Same(k, y)
  BY <1>1 DEF Runtime, Same
<1>3. runtime' = [runtime EXCEPT ![r] = y] /\ UNCHANGED <<log, remote>>
  BY DEF StopObserving
<1>4. faults' \in Nat
  BY FaultTyped DEF StopObserving
<1> HIDE DEF y
<1>5. Fits(log, remote, r, y)
  BY <1>1, <1>2, SameFits
<1> QED BY <1>3, <1>4, <1>5, QuietStepKeeps

LEMMA SynchronizeKeeps ==
  ASSUME IInv, NEW r \in Runtimes, Synchronize(r)
  PROVE  IInv'
<1>1. runtime[r] \in Runtime /\ Fits(log, remote, r, runtime[r])
  BY RuntimeIs
<1>2. Fits(log, remote, r, CaughtUp(runtime[r]))
  BY <1>1, CaughtUpIs
<1>3. runtime' = [runtime EXCEPT ![r] = CaughtUp(runtime[r])] /\ UNCHANGED <<log, remote>>
  BY DEF Synchronize
<1>4. faults' \in Nat
  BY FaultTyped DEF Synchronize
<1> QED BY <1>2, <1>3, <1>4, QuietStepKeeps

\* A new runtime.
LEMMA NewRuntimeFits ==
  ASSUME IInv, NEW r \in Runtimes, NEW resumes \in Nat, NEW rev \in Nat, rev <= Len(log)
  PROVE  Fits(log, remote, r, NewRuntime(rev, resumes))
<1> DEFINE y == NewRuntime(rev, resumes)
<1>1. /\ y \in Runtime /\ y.pc = "idle" /\ y.turn = None /\ y.rev = rev /\ y.told = None
      /\ y.attempt = 0
  BY NewRuntimeTyped
<1>2. None \notin {"completed", "cancelled"}
  BY NoneAssumption DEF Terminals
<1> HIDE DEF y
<1>3. Fits(log, remote, r, y)
  BY <1>1, <1>2, MaximumAttemptsTyped DEF Fits, RuntimeOK, AttemptsOK
<1> QED BY <1>3 DEF y

LEMMA CrashKeeps ==
  ASSUME IInv, NEW r \in Runtimes, Crash(r)
  PROVE  IInv'
<1>1. runtime[r] \in Runtime /\ Len(log) \in Nat /\ runtime \in [Runtimes -> Runtime]
  BY RuntimeIs DEF IInv, Typed
<1> DEFINE n == runtime[r].resumes
<1>2. n \in Nat /\ Len(log) <= Len(log)
  BY <1>1 DEF Runtime
<1>3. runtime' = [runtime EXCEPT ![r] = NewRuntime(Len(log), n)] /\ UNCHANGED <<log, remote>>
  BY DEF Crash
<1>4. faults' \in Nat
  BY FaultTyped DEF Crash
<1> HIDE DEF n
<1>5. Fits(log, remote, r, NewRuntime(Len(log), n))
  BY <1>1, <1>2, NewRuntimeFits
<1> QED BY <1>3, <1>4, <1>5, QuietStepKeeps

LEMMA CancelSendKeeps ==
  ASSUME IInv, NEW r \in Runtimes, CancelSend(r)
  PROVE  IInv'
<1> DEFINE k == runtime[r]
           x == IF Ended(k.turn) THEN CaughtUp(k) ELSE k
           y == [x EXCEPT !.cancel = "sent"]
           rm2 == [remote EXCEPT ![k.turn].cancelled = TRUE]
<1>1. /\ k \in Runtime /\ Fits(log, remote, r, k) /\ remote \in [Turns -> Remote]
      /\ k.turn \in Turns \cup {None}
  BY RuntimeIs DEF IInv, Typed
<1>2. x \in Runtime /\ Fits(log, remote, r, x)
  BY <1>1, CaughtUpIs
<1>3. UNCHANGED log /\ runtime' = [runtime EXCEPT ![r] = y] /\ remote' \in {remote, rm2}
  BY DEF CancelSend
<1>4. faults' \in Nat
  BY FaultTyped DEF CancelSend
<1>5. rm2 \in [Turns -> Remote] /\ \A t \in Turns : rm2[t].frames = remote[t].frames
  BY <1>1 DEF Remote
<1> HIDE DEF x, rm2
<1>6. y \in Runtime /\ Same(x, y)
  BY <1>2 DEF Runtime, Same
<1> HIDE DEF y
<1>7. Fits(log, remote, r, y)
  BY <1>2, <1>6, SameFits
<1>8. remote' \in [Turns -> Remote] /\ \A t \in Turns : remote'[t].frames = remote[t].frames
  BY <1>1, <1>3, <1>5
<1> QED BY <1>3, <1>4, <1>7, <1>8, RemoteStepKeeps

LEMMA SendMessageKeeps ==
  ASSUME IInv, NEW r \in Runtimes, NEW t \in Turns, SendMessage(r, t)
  PROVE  IInv'
<1> DEFINE k == CaughtUp(runtime[r])
           new == NewRuntime(k.rev, k.resumes)
           y == [new EXCEPT !.pc = "admit", !.turn = t]
<1>1. runtime[r] \in Runtime /\ Fits(log, remote, r, runtime[r]) /\ Len(log) \in Nat
  BY RuntimeIs
<1>2. k \in Runtime /\ Fits(log, remote, r, k) /\ k.rev = Len(log)
  BY <1>1, CaughtUpIs
<1>3. /\ UNCHANGED <<log, remote>>
      /\ \/ runtime' = [runtime EXCEPT ![r] = Returns(k, "busy")]
         \/ runtime' = [runtime EXCEPT ![r] = y]
  BY DEF SendMessage
<1>4. faults' \in Nat
  BY FaultTyped DEF SendMessage
<1> HIDE DEF k
<1>5. k.resumes \in Nat /\ k.rev \in Nat
  BY <1>2 DEF Runtime
<1>6. "busy" \in Told /\ None \notin {"completed", "cancelled"}
  BY NoneAssumption DEF Told, Terminals
<1>7. Fits(log, remote, r, Returns(k, "busy"))
  BY <1>2, <1>6, ReturnsFits
<1>8. new \in Runtime /\ new.rev = k.rev /\ new.safe = 0 /\ new.told = None /\ new.attempt = 0
  BY <1>5, NewRuntimeTyped
<1> HIDE DEF new
<1>9. y \in Runtime /\ y.rev = new.rev /\ y.safe = new.safe /\ y.told = new.told
  BY <1>8, ZenonT(40) DEF Runtime
<1>10. y.pc = "admit" /\ y.turn = t /\ y.attempt = new.attempt
  BY <1>8 DEF Runtime
<1> HIDE DEF y
<1>11. remote[t].frames \in Seq(Kinds \cup Terminals)
  BY DEF IInv, Typed, Remote
<1>12. SafeOK(log, remote[t].frames, t, y.rev, 0)
  BY <1>11, SafeZero
<1>13. t # None
  BY NoneAssumption
<1>14. RuntimeOK(log, remote, y)
  BY <1>1, <1>2, <1>6, <1>8, <1>9, <1>10, <1>12, <1>13 DEF RuntimeOK
<1>15. Fits(log, remote, r, y)
  BY <1>8, <1>9, <1>10, <1>14, MaximumAttemptsTyped DEF Fits, AttemptsOK
<1> QED BY <1>3, <1>4, <1>7, <1>15, QuietStepKeeps

LEMMA ResumeTurnKeeps ==
  ASSUME IInv, NEW r \in Runtimes, NEW t \in Turns, ResumeTurn(r, t)
  PROVE  IInv'
<1> DEFINE k == IF r \in Senders THEN runtime[r] ELSE NewRuntime(Len(log), runtime[r].resumes)
           n == k.resumes + 1
           safe == IF k.turn = t THEN k.safe ELSE SafeSequence(Prefix(k), t)
           new == NewRuntime(k.rev, n)
           cancel == IF k.turn = t THEN k.cancel ELSE new.cancel
           cancelling == k.turn = t /\ k.cancelling
           z == [new EXCEPT !.pc = "attempt", !.turn = t, !.attempt = 1]
           y == [z EXCEPT !.safe = safe, !.cancel = cancel, !.cancelling = cancelling]
<1>1. /\ runtime[r] \in Runtime /\ Fits(log, remote, r, runtime[r]) /\ Len(log) \in Nat
      /\ runtime[r].resumes \in Nat /\ Len(log) <= Len(log)
  BY RuntimeIs DEF Runtime
<1>2. Fits(log, remote, r, NewRuntime(Len(log), runtime[r].resumes))
  BY <1>1, NewRuntimeFits
<1>3. Fits(log, remote, r, k)
  BY <1>1, <1>2
<1>4. UNCHANGED <<log, remote>> /\ runtime' = [runtime EXCEPT ![r] = y]
  BY DEF ResumeTurn
<1>5. faults' \in Nat
  BY FaultTyped DEF ResumeTurn
<1> HIDE DEF k
<1>6. /\ k \in Runtime /\ n \in Nat /\ k.rev \in Nat /\ k.rev <= Len(log) /\ k.safe \in Nat
      /\ k.turn # None => SafeOK(log, remote[k.turn].frames, k.turn, k.rev, k.safe)
  BY <1>3 DEF Fits, RuntimeOK, Runtime
<1>7. /\ log \in Seq(Event) /\ remote \in [Turns -> Remote] /\ RemoteOK(remote)
      /\ EventsOK(log, remote) /\ t # None
  BY NoneAssumption DEF IInv, Typed
<1>8. safe \in Nat /\ SafeOK(log, remote[t].frames, t, k.rev, safe)
  <2>1. CASE k.turn = t
    BY <1>6, <1>7, <2>1
  <2>2. CASE k.turn # t
    <3> DEFINE p == Prefix(k)
               v == SafeSequence(p, t)
               F == remote[t].frames
    <3>1. p \in Seq(Event) /\ Len(p) = k.rev /\ \A i \in 1..k.rev : p[i] = log[i]
      BY <1>6, <1>7, PrefixIs
    <3>2. F \in Seq(Kinds \cup Terminals) /\ Len(F) \in Nat
      BY <1>7, LenProperties DEF Remote
    <3>3. \A i \in 1..k.rev : i \in 1..Len(log)
      BY <1>1, <1>6
    <3>4. \A i \in 1..k.rev : log[i].turn = t => log[i].seq <= Len(F)
      BY <1>7, <3>3 DEF EventsOK, EventOK
    <3> HIDE DEF p, F
    <3>5. /\ v \in Nat
          /\ v = 0 \/ \E i \in 1..k.rev : p[i].turn = t /\ p[i].safe /\ v = p[i].seq
      <4>1. \A i \in 1..Len(p) : p[i].turn = t => p[i].seq <= Len(F)
        BY <3>1, <3>4
      <4>2. /\ v \in Nat
            /\ v = 0 \/ \E i \in 1..Len(p) : p[i].turn = t /\ p[i].safe /\ v = p[i].seq
        BY <3>1, <3>2, <4>1, SafeSequenceIs
      <4> QED BY <3>1, <4>2
    <3> HIDE DEF v
    <3>6. CASE v = 0
      <4>1. SafeOK(log, F, t, k.rev, v)
        BY <3>2, <3>6, SafeZero
      <4>2. safe = v
        BY <2>2 DEF v, p
      <4> HIDE DEF safe
      <4> QED BY <3>5, <4>1, <4>2 DEF F
    <3>7. ASSUME NEW i \in 1..k.rev, p[i].turn = t, p[i].safe, v = p[i].seq
          PROVE  safe \in Nat /\ SafeOK(log, remote[t].frames, t, k.rev, safe)
      <4>1. log[i].turn = t /\ log[i].safe /\ v = log[i].seq
        BY <3>1, <3>7
      <4>2. SafeOK(log, remote[log[i].turn].frames, log[i].turn, k.rev, log[i].seq)
        BY <1>6, <1>7, <4>1, SafeEvent
      <4>3. safe = v
        BY <2>2 DEF v, p
      <4> HIDE DEF safe
      <4> QED BY <3>5, <4>1, <4>2, <4>3
    <3> QED BY <3>5, <3>6, <3>7
  <2> QED BY <2>1, <2>2
<1> HIDE DEF safe, n
<1>9. /\ new \in Runtime /\ new.rev = k.rev /\ new.told = None
  BY <1>6, NewRuntimeTyped
<1>10. cancel \in {"none", "saved", "sent"} /\ cancelling \in BOOLEAN
  <2> HIDE DEF new
  <2> QED BY <1>6, <1>9 DEF Runtime
<1> HIDE DEF new, cancel, cancelling
<1>11. z \in Runtime /\ z.rev = new.rev /\ z.told = new.told
  BY <1>9, ZenonT(40) DEF Runtime
<1>12. z.pc = "attempt" /\ z.turn = t /\ z.attempt = 1
  BY <1>9 DEF Runtime
<1> HIDE DEF z
<1>13. y \in Runtime
  BY <1>8, <1>10, <1>11 DEF Runtime
<1>14. y.rev = z.rev /\ y.told = z.told /\ y.pc = z.pc /\ y.turn = z.turn /\ y.attempt = z.attempt
  BY <1>11 DEF Runtime
<1>15. y.safe = safe
  BY <1>11 DEF Runtime
<1> HIDE DEF y
<1>16. None \notin {"completed", "cancelled"}
  BY NoneAssumption DEF Terminals
<1>17. RuntimeOK(log, remote, y)
  BY <1>6, <1>7, <1>8, <1>9, <1>11, <1>12, <1>14, <1>15, <1>16 DEF RuntimeOK
<1>18. AttemptsOK(r, y)
  BY <1>12, <1>14, MaximumAttemptsTyped DEF AttemptsOK
<1>19. Fits(log, remote, r, y)
  BY <1>13, <1>17, <1>18 DEF Fits
<1> QED BY <1>4, <1>5, <1>19, QuietStepKeeps

LEMMA EndStreamKeeps ==
  ASSUME IInv, NEW r \in Runtimes, EndStream(r)
  PROVE  IInv'
<1> DEFINE k == runtime[r]
           F == remote[k.turn].frames
<1>1. /\ k \in Runtime /\ Fits(log, remote, r, k) /\ k.pc = "observe" /\ k.turn \in Turns
      /\ k.batch = <<>>
  BY RuntimeIs DEF EndStream
<1>2. PICK result \in Terminals \cup {"disconnected", "waiting"} :
        /\ runtime' = [runtime EXCEPT ![r].pc = "result", ![r].result = result]
        /\ \/ /\ k.expected > Len(F) /\ F # <<>> /\ Last(F) = result /\ NoFault
           \/ result = "waiting" /\ NoFault
           \/ result = "disconnected" /\ NoFault
           \/ result \in {"disconnected", "failed"} /\ Fault
  BY DEF EndStream
<1> DEFINE y == [k EXCEPT !.pc = "result", !.result = result]
<1>3. runtime' = [runtime EXCEPT ![r] = y]
  <2>1. runtime \in [Runtimes -> Runtime]
    BY DEF IInv, Typed
  <2> QED BY <1>1, <1>2, <2>1 DEF Runtime
<1>4. UNCHANGED <<log, remote>>
  BY DEF EndStream
<1>5. faults' \in Nat
  BY <1>2, FaultTyped
<1>6. y \in Runtime /\ y.pc = "result" /\ y.result = result
  BY <1>1 DEF Runtime, Terminals
<1>7. /\ y.turn = k.turn /\ y.rev = k.rev /\ y.safe = k.safe /\ y.base = k.base
      /\ y.expected = k.expected /\ y.unsafe = k.unsafe /\ y.batch = k.batch
  BY <1>1 DEF Runtime
<1>8. /\ y.terminal = k.terminal /\ y.failed = k.failed /\ y.told = k.told
      /\ y.attempt = k.attempt
  BY <1>1 DEF Runtime
<1> HIDE DEF y
<1>9. F \in Seq(Kinds \cup Terminals) /\ Len(F) \in Nat
  BY <1>1, LenProperties DEF IInv, Typed, Remote
<1>10. k.turn # None /\ Observation(log, F, k) /\ k.expected \in Nat
  BY <1>1, NoneAssumption DEF Fits, RuntimeOK, Runtime
<1>11. result = "completed" => Over(F, k.expected - 1) /\ F[Len(F)] = "completed"
  <2> HIDE DEF F
  <2> SUFFICES ASSUME result = "completed"
               PROVE  Over(F, k.expected - 1) /\ F[Len(F)] = "completed"
    OBVIOUS
  <2>1. k.expected > Len(F) /\ F # <<>> /\ F[Len(F)] = "completed"
    BY <1>2 DEF Last
  <2>2. k.expected <= Len(F) + 1
    BY <1>10 DEF Observation
  <2>3. Len(F) # 0
    BY <1>9, <2>1, EmptySeq
  <2> QED BY <1>9, <1>10, <2>1, <2>2, <2>3 DEF Over, Terminals
<1> HIDE DEF F
<1>12. BatchOK(F, y)
  BY <1>7, <1>10 DEF Observation, BatchOK
<1>13. \A s : Has(log, y, s) <=> Has(log, k, s)
  BY <1>7 DEF Has
<1>14. Complete(log, F, y)
  BY <1>7, <1>8, <1>10, <1>13 DEF Observation, Complete
<1>15. Observation(log, F, y)
  BY <1>1, <1>6, <1>7, <1>8, <1>10, <1>11, <1>12, <1>13, <1>14 DEF Observation
<1>16. RuntimeOK(log, remote, y)
  BY <1>1, <1>6, <1>7, <1>8, <1>10, <1>15 DEF RuntimeOK, Fits, F
<1>17. Fits(log, remote, r, y)
  BY <1>1, <1>6, <1>8, <1>16 DEF Fits, AttemptsOK
<1> QED BY <1>3, <1>4, <1>5, <1>17, QuietStepKeeps

-----------------------------------------------------------------------------
(* Events without a frame *)

LEMMA CancelTurnKeeps ==
  ASSUME IInv, NEW r \in Runtimes, CancelTurn(r)
  PROVE  IInv'
<1> DEFINE x == CaughtUp(runtime[r])
           k == [x EXCEPT !.cancelling = TRUE]
           d == <<Plain("stopping", k.turn)>>
           y == [k EXCEPT !.rev = k.rev + 1, !.cancel = "saved"]
<1>1. /\ runtime[r] \in Runtime /\ Fits(log, remote, r, runtime[r]) /\ log \in Seq(Event)
      /\ Len(log) \in Nat /\ runtime[r].turn \in Turns \cup {None} /\ remote \in [Turns -> Remote]
  BY RuntimeIs DEF IInv, Typed
<1>2. x \in Runtime /\ Fits(log, remote, r, x) /\ x.rev = Len(log) /\ x.turn = runtime[r].turn
  <2>1. x.turn = runtime[r].turn
    BY <1>1 DEF CaughtUp, Runtime
  <2> QED BY <1>1, <2>1, CaughtUpIs
<1>3. /\ runtime[r].turn # None /\ UNCHANGED remote
      /\ \/ log' = log \o d /\ runtime' = [runtime EXCEPT ![r] = y]
         \/ runtime' = [runtime EXCEPT ![r] = k] /\ UNCHANGED log
  BY DEF CancelTurn
<1>4. faults' \in Nat
  BY FaultTyped DEF CancelTurn
<1> HIDE DEF x
<1>5. k \in Runtime /\ Same(x, k)
  BY <1>2 DEF Runtime, Same
<1> HIDE DEF k
<1>6. /\ Fits(log, remote, r, k) /\ k.rev = Len(log) /\ k.turn \in Turns /\ k.turn # None
      /\ k.safe \in Nat
  <2>1. Fits(log, remote, r, k)
    BY <1>2, <1>5, SameFits
  <2> QED BY <1>1, <1>2, <1>3, <1>5, <2>1 DEF Same, Runtime
<1>7. CASE runtime' = [runtime EXCEPT ![r] = k] /\ UNCHANGED log
  BY <1>3, <1>4, <1>6, <1>7, QuietStepKeeps
<1>8. CASE log' = log \o d /\ runtime' = [runtime EXCEPT ![r] = y]
  <2>1. d \in Seq(Event) /\ Len(d) = 1 /\ EventsOK(log \o d, remote)
    BY <1>6, PlainOK
  <2> DEFINE lg == log \o d
             n == k.rev + 1
  <2>2. lg \in Seq(Event) /\ Len(lg) = Len(log) + 1 /\ \A i \in 1..Len(log) : lg[i] = log[i]
    <3> HIDE DEF d
    <3>1. /\ lg \in Seq(Event) /\ Len(lg) = Len(log) + Len(d)
          /\ \A i \in 1..Len(log) : lg[i] = log[i]
      BY <1>1, <2>1, JoinedIs
    <3> QED BY <2>1, <3>1
  <2> HIDE DEF lg, d
  <2>3. n \in Nat /\ n = Len(lg) /\ Len(log) <= Len(lg)
    BY <1>1, <1>6, <2>2
  <2>4. y = [k EXCEPT !.rev = n, !.cancel = "saved"]
    OBVIOUS
  <2> HIDE DEF n, y
  <2>5. y \in Runtime /\ y.rev = n /\ y.turn = k.turn /\ y.safe = k.safe
    BY <1>5, <2>3, <2>4, ZenonT(40) DEF Runtime
  <2>6. Same([k EXCEPT !.rev = y.rev, !.safe = y.safe], y)
    BY <1>5, <2>4, <2>5 DEF Runtime, Same
  <2>7. Fits(lg, remote, r, k)
    BY <1>1, <1>5, <1>6, <2>2, <2>3, RuntimeKept DEF Fits
  <2>8. SafeOK(lg, remote[k.turn].frames, k.turn, k.rev, k.safe)
    BY <1>6, <2>7 DEF Fits, RuntimeOK
  <2>9. SafeOK(lg, remote[y.turn].frames, y.turn, y.rev, y.safe)
    BY <1>1, <1>6, <2>3, <2>5, <2>8, SafeAdvances
  <2>10. k.rev <= y.rev /\ y.rev <= Len(lg)
    BY <1>1, <1>6, <2>3, <2>5
  <2>11. Fits(lg, remote, r, y)
    BY <1>5, <2>2, <2>5, <2>6, <2>7, <2>9, <2>10, AdvanceFits
  <2>12. EventsOK(lg, remote)
    BY <2>1 DEF lg
  <2>13. log' = lg
    BY <1>8 DEF lg
  <2> QED BY <1>1, <1>3, <1>4, <1>8, <2>2, <2>3, <2>11, <2>12, <2>13, StepKeeps
<1> QED BY <1>3, <1>7, <1>8

LEMMA WaitKeeps ==
  ASSUME IInv, NEW r \in Runtimes, Wait(r)
  PROVE  IInv'
<1> DEFINE k == runtime[r]
           recorded == Waiting(Prefix(k), k.turn) \/ Canonical(Prefix(k), k.turn) # None
           d == IF recorded THEN <<>> ELSE <<Plain("waiting", k.turn)>>
<1>1. k \in Runtime /\ Fits(log, remote, r, k) /\ k.pc = "wait" /\ k.turn \in Turns
  BY RuntimeIs DEF Wait
<1>2. UNCHANGED remote
  BY DEF Wait
<1>3. Fits(log, remote, r, Throws(k))
  BY <1>1, ThrowsFits
<1>4. CASE Persist(r, d, Returns(k, "waiting"), Throws(k))
  <2>1. "waiting" \in Told
    BY DEF Told
  <2>2. Fits(log, remote, r, Returns(k, "waiting"))
    BY <1>1, <2>1, ReturnsFits
  <2>3. Returns(k, "waiting").turn = k.turn
    BY <1>1, <2>1, ReturnsTyped
  <2>4. d = <<>> \/ d = <<Plain("waiting", k.turn)>>
    OBVIOUS
  <2> HIDE DEF d
  <2> QED BY <1>1, <1>2, <1>3, <1>4, <2>2, <2>3, <2>4, PlainPersistKeeps
<1>5. CASE /\ runtime' = [runtime EXCEPT ![r] = [Throws(k) EXCEPT !.retries = 0]]
           /\ UNCHANGED log /\ NoFault
  <2>1. 0 \in 0..MaximumRebases
    BY BoundsAssumption
  <2>2. Fits(log, remote, r, [Throws(k) EXCEPT !.retries = 0])
    BY <1>3, <2>1, RetriesFits
  <2>3. faults' \in Nat
    BY <1>5, FaultTyped
  <2> QED BY <1>2, <1>5, <2>2, <2>3, QuietStepKeeps
<1> QED BY <1>4, <1>5 DEF Wait

-----------------------------------------------------------------------------
(* The transport and the server *)

\* One event more, and no runtime changes.
LEMMA AppendKeeps ==
  ASSUME IInv, NEW t \in Turns, NEW type \in {"bound", "resumed"}, NEW rm2 \in [Turns -> Remote],
         log' = Append(log, Plain(type, t)), remote' = rm2, UNCHANGED <<runtime, faults>>,
         \A u \in Turns : rm2[u].frames = remote[u].frames
  PROVE  IInv'
<1> DEFINE d == <<Plain(type, t)>>
           lg == log \o d
<1>1. /\ log \in Seq(Event) /\ Len(log) \in Nat /\ remote \in [Turns -> Remote] /\ RemoteOK(remote)
      /\ runtime \in [Runtimes -> Runtime] /\ faults \in Nat
      /\ \A q \in Runtimes : RuntimeOK(log, remote, runtime[q]) /\ AttemptsOK(q, runtime[q])
  BY LenProperties DEF IInv, Typed
<1>2. d \in Seq(Event) /\ Len(d) = 1 /\ EventsOK(lg, remote)
  BY PlainOK
<1>3. log' = lg
  <2>1. Plain(type, t) \in Event
    BY PlainTyped
  <2> QED BY <1>1, <2>1, AppendIsConcat
<1>4. lg \in Seq(Event) /\ Len(log) <= Len(lg) /\ \A i \in 1..Len(log) : lg[i] = log[i]
  <2> HIDE DEF d
  <2> QED BY <1>1, <1>2, LenProperties, ConcatProperties
<1> HIDE DEF lg
<1>5. \A u \in Turns : Grown(remote[u].frames, rm2[u].frames)
  BY <1>1, GrownReflexive
<1>6. RemoteOK(rm2)
  BY <1>1 DEF RemoteOK
<1>7. EventsOK(lg, rm2)
  BY <1>2, <1>4, <1>5, EventsGrown
<1>8. \A q \in Runtimes : RuntimeOK(lg, rm2, runtime[q])
  <2> SUFFICES ASSUME NEW q \in Runtimes
               PROVE  RuntimeOK(lg, rm2, runtime[q])
    OBVIOUS
  <2>1. runtime[q] \in Runtime
    BY <1>1
  <2>2. RuntimeOK(lg, remote, runtime[q])
    BY <1>1, <1>4, <2>1, RuntimeKept
  <2> QED BY <1>5, <2>1, <2>2, RuntimeGrown
<1> QED BY <1>1, <1>3, <1>4, <1>6, <1>7, <1>8, Zenon DEF IInv, Typed

LEMMA BindTurnKeeps ==
  ASSUME IInv, NEW t \in Turns, BindTurn(t)
  PROVE  IInv'
<1>1. remote \in [Turns -> Remote] /\ \A u \in Turns : remote[u].frames = remote[u].frames
  BY DEF IInv, Typed
<1>2. /\ log' = Append(log, Plain("bound", t)) /\ remote' = remote
      /\ UNCHANGED <<runtime, faults>>
  BY DEF BindTurn, NoFault
<1>3. "bound" \in {"bound", "resumed"}
  OBVIOUS
<1> QED BY <1>1, <1>2, <1>3, AppendKeeps, Zenon

LEMMA ApproveKeeps ==
  ASSUME IInv, NEW t \in Turns, Approve(t)
  PROVE  IInv'
<1> DEFINE rm2 == [remote EXCEPT ![t].approved = TRUE]
<1>1. remote \in [Turns -> Remote]
  BY DEF IInv, Typed
<1>2. rm2 \in [Turns -> Remote] /\ \A u \in Turns : rm2[u].frames = remote[u].frames
  BY <1>1 DEF Remote
<1>3. /\ log' = Append(log, Plain("resumed", t)) /\ remote' = rm2
      /\ UNCHANGED <<runtime, faults>>
  BY DEF Approve, NoFault
<1>4. "resumed" \in {"bound", "resumed"}
  OBVIOUS
<1> HIDE DEF rm2
<1> QED BY <1>2, <1>3, <1>4, AppendKeeps, Zenon

\* What a turn that has not ended produces next.
LEMMA NextFrame ==
  ASSUME IInv, NEW t \in Turns, ~Ended(t)
  PROVE  LET F == remote[t].frames IN
         /\ F \in Seq(Kinds \cup Terminals) /\ Len(F) \in Nat
         /\ \A s \in 1..Len(F) :
              F[s] \notin Terminals /\ s <= Len(Response[t]) /\ F[s] = Response[t][s]
         /\ Len(F) + 1 \in 1..Len(Response[t])
         /\ Response[t][Len(F) + 1] \in Kinds \cup Terminals
<1> DEFINE F == remote[t].frames
           R == Response[t]
<1>1. F \in Seq(Kinds \cup Terminals) /\ Len(F) \in Nat
  BY LenProperties DEF IInv, Typed, Remote
<1>2. /\ \A s \in 1..(Len(F) - 1) : F[s] \notin Terminals
      /\ \A s \in 1..Len(F) : \/ s <= Len(R) /\ F[s] = R[s]
                              \/ s = Len(F) /\ F[s] = "cancelled"
  <2>1. RemoteOK(remote)
    BY DEF IInv
  <2> QED BY <2>1, Zenon DEF RemoteOK
<1>3. /\ R \in Seq(Kinds \cup Terminals) /\ Len(R) \in Nat /\ Len(R) > 0
      /\ R[Len(R)] \in Terminals /\ \A s \in 1..Len(R) : R[s] \in Kinds \cup Terminals
  <2>1. R \in Seq(Kinds \cup Terminals) /\ R # <<>> /\ Last(R) \in Terminals
    BY ResponseAssumption
  <2> HIDE DEF R
  <2> QED BY <2>1, LenProperties, EmptySeq, ElementOfSeq DEF Last
<1>4. F # <<>> => F[Len(F)] \notin Terminals
  BY DEF Ended, Last
<1>5. Len(F) > 0 => F # <<>>
  BY <1>1, EmptySeq
<1> HIDE DEF F, R
<1>6. \A s \in 1..Len(F) : F[s] \notin Terminals
  BY <1>1, <1>2, <1>4, <1>5
<1>7. \A s \in 1..Len(F) : s <= Len(R) /\ F[s] = R[s]
  BY <1>2, <1>6 DEF Terminals
<1>8. Len(F) + 1 \in 1..Len(R)
  <2>1. CASE Len(F) = 0
    BY <1>3, <2>1
  <2>2. CASE Len(F) > 0
    <3>1. Len(F) <= Len(R) /\ F[Len(F)] = R[Len(F)] /\ F[Len(F)] \notin Terminals
      BY <1>1, <1>6, <1>7, <2>2
    <3> QED BY <1>1, <1>3, <3>1
  <2> QED BY <1>1, <2>1, <2>2
<1> QED BY <1>1, <1>3, <1>6, <1>7, <1>8 DEF F, R

LEMMA ProduceKeeps ==
  ASSUME IInv, NEW t \in Turns, Produce(t)
  PROVE  IInv'
<1> DEFINE F == remote[t].frames
<1>1. /\ remote \in [Turns -> Remote] /\ RemoteOK(remote) /\ log \in Seq(Event)
      /\ EventsOK(log, remote) /\ runtime \in [Runtimes -> Runtime] /\ faults \in Nat
      /\ \A q \in Runtimes : RuntimeOK(log, remote, runtime[q]) /\ AttemptsOK(q, runtime[q])
  BY DEF IInv, Typed
<1>2. ~Ended(t)
  BY DEF Produce
<1>3. /\ F \in Seq(Kinds \cup Terminals) /\ Len(F) \in Nat
      /\ \A s \in 1..Len(F) :
           F[s] \notin Terminals /\ s <= Len(Response[t]) /\ F[s] = Response[t][s]
      /\ Len(F) + 1 \in 1..Len(Response[t])
      /\ Response[t][Len(F) + 1] \in Kinds \cup Terminals
  BY <1>2, NextFrame
<1>4. PICK x \in Kinds \cup Terminals :
        /\ remote' = [remote EXCEPT ![t].frames = Append(F, x)]
        /\ x = Response[t][Len(F) + 1] \/ x = "cancelled"
  <2>1. "cancelled" \in Kinds \cup Terminals
    BY DEF Terminals
  <2> QED BY <1>3, <2>1 DEF Produce
<1> DEFINE F2 == Append(F, x)
           rm2 == [remote EXCEPT ![t].frames = F2]
<1> HIDE DEF F
<1>5. /\ F2 \in Seq(Kinds \cup Terminals) /\ Len(F2) = Len(F) + 1 /\ F2[Len(F) + 1] = x
      /\ \A s \in 1..Len(F) : F2[s] = F[s]
  BY <1>3, AppendProperties
<1> HIDE DEF F2
<1>6. /\ rm2 \in [Turns -> Remote] /\ rm2[t].frames = F2
      /\ \A u \in Turns \ {t} : rm2[u] = remote[u]
  BY <1>1, <1>5 DEF Remote
<1>7. remote' = rm2
  BY <1>4 DEF F2
<1> HIDE DEF rm2
<1>8. ~Over(F, Len(F))
  BY <1>3 DEF Over
<1>9. Grown(F, F2)
  BY <1>3, <1>5, <1>8 DEF Grown
<1>10. \A u \in Turns : Grown(remote[u].frames, rm2[u].frames)
  <2>1. \A u \in Turns : Grown(remote[u].frames, remote[u].frames)
    BY <1>1, GrownReflexive
  <2> QED BY <1>6, <1>9, <2>1 DEF F
<1>11. /\ \A s \in 1..(Len(F2) - 1) : F2[s] \notin Terminals
       /\ \A s \in 1..Len(F2) :
            \/ s <= Len(Response[t]) /\ F2[s] = Response[t][s]
            \/ s = Len(F2) /\ F2[s] = "cancelled"
  <2>1. \A s \in 1..(Len(F2) - 1) : s \in 1..Len(F)
    BY <1>3, <1>5
  <2>2. \A s \in 1..Len(F2) : s \in 1..Len(F) \/ s = Len(F) + 1
    BY <1>3, <1>5
  <2>3. Len(F) + 1 <= Len(Response[t])
    BY <1>3
  <2> QED BY <1>3, <1>4, <1>5, <2>1, <2>2, <2>3
<1>12. RemoteOK(rm2)
  BY <1>1, <1>6, <1>11 DEF RemoteOK
<1>13. EventsOK(log, rm2)
  BY <1>1, <1>10, EventsGrown
<1>14. \A q \in Runtimes : RuntimeOK(log, rm2, runtime[q])
  BY <1>1, <1>10, RuntimeGrown
<1>15. UNCHANGED <<log, runtime, faults>>
  BY DEF Produce, NoFault
<1> QED BY <1>1, <1>6, <1>7, <1>12, <1>13, <1>14, <1>15, Zenon DEF IInv, Typed

-----------------------------------------------------------------------------
(* The end of an observation *)

LEMMA ConcludeKeeps ==
  ASSUME IInv, NEW r \in Runtimes, Conclude(r)
  PROVE  IInv'
<1> DEFINE k == IF runtime[r].failed THEN CaughtUp(runtime[r]) ELSE runtime[r]
           canonical == Canonical(Prefix(k), k.turn)
<1>1. runtime[r] \in Runtime /\ Fits(log, remote, r, runtime[r])
  BY RuntimeIs
<1>2. Fits(log, remote, r, CaughtUp(runtime[r]))
  BY <1>1, CaughtUpIs
<1>3. Fits(log, remote, r, k)
  BY <1>1, <1>2
<1>4. UNCHANGED <<log, remote>> /\ k.pc = "result"
  BY DEF Conclude
<1>5. faults' \in Nat
  BY FaultTyped DEF Conclude
<1>6. \/ canonical # None /\ runtime' = [runtime EXCEPT ![r] = Returns(k, canonical)]
      \/ \E retryable \in BOOLEAN : \E next \in Observed(r, k, retryable) :
           runtime' = [runtime EXCEPT ![r] = next]
      \/ runtime' = [runtime EXCEPT ![r] = [k EXCEPT !.pc = "wait"]]
      \/ runtime' = [runtime EXCEPT ![r] = Returns(k, "interrupted")]
      \/ /\ ~k.failed /\ k.terminal # None /\ k.terminal = k.result
         /\ runtime' = [runtime EXCEPT ![r] = [k EXCEPT !.pc = "finish"]]
  <2> HIDE DEF k, canonical
  <2>1. \/ /\ canonical # None
           /\ runtime' = [runtime EXCEPT ![r] = Returns(k, canonical)]
        \/ \E next \in Observed(r, k, FALSE) : runtime' = [runtime EXCEPT ![r] = next]
        \/ runtime' = [runtime EXCEPT ![r] =
             IF k.terminal = None THEN [k EXCEPT !.pc = "wait"] ELSE Returns(k, "interrupted")]
        \/ \E retryable \in IF k.result = "failed" THEN BOOLEAN ELSE {TRUE} :
           \E next \in Observed(r, k, retryable) : runtime' = [runtime EXCEPT ![r] = next]
        \/ /\ ~k.failed /\ k.terminal # None
           /\ runtime' = [runtime EXCEPT ![r] =
                IF k.terminal = k.result THEN [k EXCEPT !.pc = "finish"] ELSE Returns(k, "interrupted")]
    BY Zenon DEF Conclude, k, canonical
  <2> QED BY <2>1
<1> HIDE DEF k
<1>7. k \in Runtime /\ k.turn \in Turns /\ k.turn # None /\ k.pc # "idle"
  BY <1>3, <1>4 DEF Fits, RuntimeOK, Runtime
<1>8. CASE canonical # None /\ runtime' = [runtime EXCEPT ![r] = Returns(k, canonical)]
  <2>1. Fits(log, remote, r, Returns(k, canonical))
    BY <1>3, <1>7, <1>8, TellsFits
  <2> QED BY <1>4, <1>5, <1>8, <2>1, QuietStepKeeps
<1> HIDE DEF canonical
<1>9. ASSUME NEW retryable \in BOOLEAN, NEW next \in Observed(r, k, retryable),
             runtime' = [runtime EXCEPT ![r] = next]
      PROVE  IInv'
  <2>1. Fits(log, remote, r, next)
    BY <1>3, <1>7, ObservedFits
  <2> QED BY <1>4, <1>5, <1>9, <2>1, QuietStepKeeps
<1>10. CASE runtime' = [runtime EXCEPT ![r] = [k EXCEPT !.pc = "wait"]]
  <2>1. Fits(log, remote, r, [k EXCEPT !.pc = "wait"])
    BY <1>3, <1>7, PcFits
  <2> QED BY <1>4, <1>5, <1>10, <2>1, QuietStepKeeps
<1>11. CASE runtime' = [runtime EXCEPT ![r] = Returns(k, "interrupted")]
  <2>1. "interrupted" \in Told
    BY DEF Told
  <2>2. Fits(log, remote, r, Returns(k, "interrupted"))
    BY <1>3, <2>1, ReturnsFits
  <2> QED BY <1>4, <1>5, <1>11, <2>2, QuietStepKeeps
<1>12. CASE /\ ~k.failed /\ k.terminal # None /\ k.terminal = k.result
            /\ runtime' = [runtime EXCEPT ![r] = [k EXCEPT !.pc = "finish"]]
  <2> DEFINE y == [k EXCEPT !.pc = "finish"]
             F == remote[k.turn].frames
  <2>1. y \in Runtime /\ y.pc = "finish"
    BY <1>7 DEF Runtime
  <2>2. /\ y.turn = k.turn /\ y.rev = k.rev /\ y.safe = k.safe /\ y.base = k.base
        /\ y.expected = k.expected /\ y.unsafe = k.unsafe /\ y.batch = k.batch
    BY <1>7 DEF Runtime
  <2>3. /\ y.terminal = k.terminal /\ y.failed = k.failed /\ y.told = k.told
        /\ y.attempt = k.attempt /\ y.result = k.result
    BY <1>7 DEF Runtime
  <2> HIDE DEF y
  <2>4. Observation(log, F, k)
    BY <1>3, <1>4, <1>7 DEF Fits, RuntimeOK
  <2> HIDE DEF F
  <2>5. BatchOK(F, y)
    BY <2>2, <2>4 DEF Observation, BatchOK
  <2>6. \A s : Has(log, y, s) <=> Has(log, k, s)
    BY <2>2 DEF Has
  <2>7. Complete(log, F, y)
    BY <2>2, <2>3, <2>4, <2>6 DEF Observation, Complete
  <2>8. /\ k.batch = <<>>
        /\ k.result = "completed" => Over(F, k.expected - 1) /\ F[Len(F)] = "completed"
    BY <1>4, <2>4 DEF Observation
  <2>9. Observation(log, F, y)
    BY <1>12, <2>1, <2>2, <2>3, <2>4, <2>5, <2>6, <2>7, <2>8 DEF Observation
  <2>10. RuntimeOK(log, remote, y)
    BY <1>3, <1>4, <1>7, <2>1, <2>2, <2>3, <2>9 DEF RuntimeOK, Fits, F
  <2>11. Fits(log, remote, r, y)
    BY <1>3, <2>1, <2>3, <2>10 DEF Fits, AttemptsOK
  <2> QED BY <1>4, <1>5, <1>12, <2>11, QuietStepKeeps DEF y
<1> QED BY <1>6, <1>8, <1>9, <1>10, <1>11, <1>12

\* The end of a turn, recorded at the end of the log by a runtime that has all of it.
LEMMA TerminalOK ==
  ASSUME IInv, NEW r \in Runtimes, runtime[r].pc = "finish", runtime[r].rev = Len(log)
  PROVE  LET k == runtime[r]
             e == [Plain(k.terminal, k.turn) EXCEPT !.seq = k.expected - 1, !.safe = TRUE]
             lg == log \o <<e>> IN
         /\ <<e>> \in Seq(Event) /\ EventsOK(lg, remote)
         /\ Len(lg) = Len(log) + 1 /\ lg[Len(log) + 1].turn = k.turn
         /\ lg[Len(log) + 1].type = k.terminal /\ k.terminal \in Terminals
<1> DEFINE k == runtime[r]
           F == remote[k.turn].frames
           n == k.expected - 1
           e == [Plain(k.terminal, k.turn) EXCEPT !.seq = k.expected - 1, !.safe = TRUE]
           d == <<e>>
           lg == log \o d
<1>1. /\ k \in Runtime /\ Fits(log, remote, r, k) /\ k.turn \in Turns /\ k.turn # None
      /\ k.rev = Len(log)
  BY RuntimeIs, NoneAssumption
<1>2. log \in Seq(Event) /\ Len(log) \in Nat /\ F \in Seq(Kinds \cup Terminals) /\ Len(F) \in Nat
  BY <1>1, LenProperties DEF IInv, Typed, Remote
<1>3. Observation(log, F, k)
  BY <1>1 DEF Fits, RuntimeOK
<1> HIDE DEF F
<1>4. /\ k.batch = <<>> /\ k.terminal # None /\ k.terminal = k.result /\ ~k.failed
      /\ Over(F, n) /\ k.terminal \in Terminals
  BY <1>1, <1>3 DEF Observation, Runtime
<1>5. n = Len(F) /\ n > 0 /\ n \in Nat /\ F[n] \in Terminals
  BY <1>2, <1>4 DEF Over
<1>6. /\ e.type = k.terminal /\ e.turn = k.turn /\ e.seq = n /\ e.safe = TRUE /\ e.message = None
      /\ e \in Event
  <2> HIDE DEF n
  <2>1. e = [Plain(k.terminal, k.turn) EXCEPT !.seq = n, !.safe = TRUE]
    BY DEF n
  <2> QED BY <1>1, <1>4, <1>5, <2>1 DEF Plain, Event
<1> HIDE DEF e, n, k
<1>7. d \in Seq(Event) /\ Len(d) = 1 /\ d[1] = e
  BY <1>6
<1>8. /\ Len(lg) = Len(log) + 1 /\ lg[Len(log) + 1] = e
      /\ \A i \in 1..Len(log) : lg[i] = log[i]
  <2> HIDE DEF d
  <2>1. /\ Len(lg) = Len(log) + Len(d) /\ \A i \in 1..Len(log) : lg[i] = log[i]
        /\ \A i \in 1..Len(d) : lg[Len(log) + i] = d[i]
    BY <1>2, <1>7, JoinedIs
  <2> HIDE DEF lg
  <2> QED BY <1>7, <2>1
<1>9. \A t, s : Saved(log, t, s, Len(log)) => Saved(lg, t, s, Len(log) + 1 - 1)
  <2>1. Len(log) + 1 - 1 = Len(log)
    BY <1>2
  <2> HIDE DEF lg
  <2>2. \A t, s : Saved(lg, t, s, Len(log)) <=> Saved(log, t, s, Len(log))
    BY <1>2, <1>8, SavedSame
  <2> QED BY <2>1, <2>2
<1>10. \A s \in 1..(n - 1) : Written(F[s]) => Saved(lg, k.turn, s, Len(log) + 1 - 1)
  <2>1. \A s \in 1..n : Written(F[s]) => Has(log, k, s)
    BY <1>3, <1>4 DEF Observation, Complete, n
  <2>2. \A s : Has(log, k, s) => Saved(log, k.turn, s, Len(log))
    BY <1>1, <1>4, EmptySeq DEF Has
  <2>3. \A s \in 1..(n - 1) : s \in 1..n
    BY <1>5
  <2> HIDE DEF lg
  <2> QED BY <1>9, <2>1, <2>2, <2>3
<1>11. ~Written(F[n])
  BY <1>5 DEF Written, Terminals
<1>12. \A s \in 1..Len(F) : Written(F[s]) => Saved(lg, k.turn, s, Len(log) + 1 - 1)
  <2>1. \A s \in 1..Len(F) : s \in 1..(n - 1) \/ s = n
    BY <1>2, <1>5
  <2> HIDE DEF lg
  <2> QED BY <1>10, <1>11, <2>1
<1>13. EventOK(lg, remote, Len(log) + 1)
  <2> HIDE DEF lg
  <2>1. k.terminal # "frame"
    BY <1>4 DEF Terminals
  <2>2. Over(F, Len(F))
    BY <1>4, <1>5
  <2>3. remote[e.turn].frames = F
    BY <1>6 DEF F
  <2>4. n <= Len(F) /\ n > 0 /\ F[n] \in Terminals
    BY <1>2, <1>5
  <2> QED BY <1>4, <1>6, <1>8, <1>10, <1>12, <2>1, <2>2, <2>3, <2>4 DEF EventOK
<1>14. EventsOK(lg, remote)
  <2>1. \A i \in 1..Len(d) : i = 1
    BY <1>7
  <2> HIDE DEF d
  <2> QED BY <1>7, <1>13, <2>1, AppendOK
<1> HIDE DEF lg
<1> QED BY <1>4, <1>6, <1>7, <1>8, <1>14 DEF lg, e, k

LEMMA FinishKeeps ==
  ASSUME IInv, NEW r \in Runtimes, Finish(r)
  PROVE  IInv'
<1> DEFINE k == runtime[r]
           canonical == Canonical(Prefix(k), k.turn)
           e == [Plain(k.terminal, k.turn) EXCEPT !.seq = k.expected - 1, !.safe = TRUE]
           d == IF canonical # None THEN <<>> ELSE <<e>>
           status == IF canonical # None THEN canonical ELSE k.terminal
<1>1. /\ k \in Runtime /\ Fits(log, remote, r, k) /\ k.pc = "finish" /\ k.turn \in Turns
      /\ k.turn # None
  BY RuntimeIs, NoneAssumption DEF Finish
<1>2. Persist(r, d, Returns(k, status), Throws(k)) /\ UNCHANGED remote
  BY DEF Finish
<1>3. Fits(log, remote, r, Throws(k))
  BY <1>1, ThrowsFits
<1>4. CASE canonical # None
  <2>1. Fits(log, remote, r, Returns(k, canonical))
    BY <1>1, <1>4, TellsFits
  <2>2. d = <<>> /\ status = canonical
    BY <1>4
  <2> HIDE DEF d, status, canonical
  <2>3. d \in Seq(Event) /\ Persist(r, d, Returns(k, canonical), Throws(k))
    BY <1>2, <2>2, EmptySeq
  <2> QED BY <1>2, <1>3, <2>1, <2>2, <2>3, PersistKeeps
<1>5. CASE canonical = None
  <2>1. Persist(r, <<e>>, Returns(k, k.terminal), Throws(k))
    BY <1>2, <1>5
  <2>2. \A i \in 1..k.rev : log[i].turn = k.turn => log[i].type \notin Terminals
    BY <1>1, <1>5, PrefixCanonical
  <2>3. /\ k.rev = Len(log) =>
             /\ <<e>> \in Seq(Event) /\ EventsOK(log \o <<e>>, remote)
             /\ Len(log \o <<e>>) = Len(log) + 1 /\ (log \o <<e>>)[Len(log) + 1].turn = k.turn
             /\ (log \o <<e>>)[Len(log) + 1].type = k.terminal
        /\ k.terminal \in Terminals /\ e \in Event
    <3>1. Observation(log, remote[k.turn].frames, k) /\ k.expected \in Nat
      BY <1>1 DEF Fits, RuntimeOK, Runtime
    <3>2. k.terminal \in Terminals /\ k.expected - 1 \in Nat
      BY <1>1, <3>1 DEF Observation, Runtime
    <3>3. e \in Event
      BY <1>1, <3>2 DEF Plain, Event
    <3> QED BY <1>1, <3>2, <3>3, TerminalOK
  <2> DEFINE x == <<e>>
             lg == log \o x
  <2> HIDE DEF e
  <2>4. x \in Seq(Event) /\ Len(x) = 1
    BY <2>3
  <2> HIDE DEF x
  <2>5. /\ log \in Seq(Event) /\ Len(log) \in Nat /\ lg \in Seq(Event) /\ Len(log) <= Len(lg)
        /\ \A i \in 1..Len(log) : lg[i] = log[i]
    <3>1. log \in Seq(Event)
      BY DEF IInv, Typed
    <3> QED BY <2>4, <3>1, JoinedIs
  <2>6. x # <<>>
    BY <2>4, EmptySeq
  <2>7. ASSUME k.rev = Len(log)
        PROVE  /\ EventsOK(lg, remote)
               /\ Fits(lg, remote, r,
                       [Returns(k, k.terminal) EXCEPT !.rev = Len(log) + Len(x), !.retries = 0,
                          !.safe = Max({Returns(k, k.terminal).safe, SafeSequence(x, k.turn)})])
    <3>1. /\ EventsOK(lg, remote) /\ Len(lg) = Len(log) + 1 /\ lg[Len(log) + 1].turn = k.turn
          /\ lg[Len(log) + 1].type = k.terminal
      BY <2>3, <2>7 DEF x
    <3> DEFINE a == Returns(k, "interrupted")
               b == Returns(k, k.terminal)
               m == Max({k.safe, SafeSequence(x, k.turn)})
               n == Len(log) + Len(x)
               y == [a EXCEPT !.rev = n, !.retries = 0, !.safe = m]
               z == [b EXCEPT !.rev = n, !.retries = 0, !.safe = m]
    <3>2. "interrupted" \in Told /\ k.terminal \in Told
      BY <2>3 DEF Told
    <3>3. /\ a \in Runtime /\ a.pc = "idle" /\ a.turn = k.turn /\ a.safe = k.safe
          /\ a.told = "interrupted" /\ a.attempt = 0
      BY <1>1, <3>2, ReturnsTyped
    <3>4. /\ b \in Runtime /\ b.pc = "idle" /\ b.turn = k.turn /\ b.safe = k.safe
          /\ b.told = k.terminal /\ b.attempt = 0
      BY <1>1, <3>2, ReturnsTyped
    <3>5. Fits(log, remote, r, a)
      BY <1>1, <3>2, ReturnsFits
    <3> HIDE DEF a, b, lg
    <3>6. Fits(lg, remote, r, a)
      BY <2>5, <3>3, <3>5, RuntimeKept DEF Fits
    <3>7. Fits(lg, remote, r, [a EXCEPT !.rev = Len(log) + Len(x), !.retries = 0,
                                        !.safe = Max({a.safe, SafeSequence(x, k.turn)})])
      BY <1>1, <2>4, <3>1, <3>3, <3>6, SavedFits DEF lg
    <3>8. Fits(lg, remote, r, y)
      BY <3>3, <3>7
    <3>9. n \in Nat /\ n = Len(lg) /\ n = Len(log) + 1 /\ 0 \in 0..MaximumRebases
      BY <2>4, <2>5, <3>1, BoundsAssumption
    <3> HIDE DEF n, m
    <3>10. y.safe = m /\ y.rev = n /\ y.turn = k.turn /\ y.pc = "idle" /\ y \in Runtime
      <4>1. y.safe = m /\ y.rev = n /\ y.turn = a.turn /\ y.pc = a.pc
        BY <3>3 DEF Runtime
      <4> QED BY <3>3, <3>8, <4>1 DEF Fits
    <3>11. m \in Nat
      <4>1. y.safe \in Nat
        BY <3>10 DEF Runtime
      <4> QED BY <3>10, <4>1
    <3> HIDE DEF y
    <3>12. z \in Runtime
      BY <3>4, <3>9, <3>11, ZenonT(40) DEF Runtime
    <3>13. /\ z.safe = m /\ z.rev = n /\ z.turn = b.turn /\ z.pc = b.pc /\ z.told = b.told
           /\ z.attempt = b.attempt
      BY <3>4 DEF Runtime
    <3> HIDE DEF z
    <3>14. AttemptsOK(r, z)
      BY <3>4, <3>13, MaximumAttemptsTyped DEF AttemptsOK
    <3>15. Outcome(lg, k.turn, k.terminal, n)
      <4>1. \A j \in 1..(n - 1) : lg[j].turn = k.turn => lg[j].type \notin Terminals
        BY <2>2, <2>5, <2>7, <3>9
      <4>2. n \in 1..n
        BY <2>5, <3>9
      <4> QED BY <3>1, <3>9, <4>1, <4>2 DEF Outcome
    <3>16. Fits(lg, remote, r, z)
      BY <1>1, <3>4, <3>8, <3>10, <3>12, <3>13, <3>14, <3>15, MoveFits
    <3> QED BY <3>1, <3>4, <3>16 DEF z, m, n, b
  <2>8. Persist(r, x, Returns(k, k.terminal), Throws(k))
    BY <2>1 DEF x
  <2> QED BY <1>2, <1>3, <2>4, <2>6, <2>7, <2>8, PersistKeeps
<1> QED BY <1>4, <1>5

-----------------------------------------------------------------------------
(* Frames that arrive *)

\* The frames that the projection has are saved ones, and the end.
LEMMA KeysAre ==
  ASSUME IInv, NEW r, NEW k, Fits(log, remote, r, k), k.turn \in Turns, NEW s
  PROVE  LET F == remote[k.turn].frames IN
         /\ s \in FrameKeys(Prefix(k), k.turn) =>
              \/ Saved(log, k.turn, s, k.rev)
              \/ s \in 1..Len(F) /\ F[s] \in Terminals
         /\ s > 0 /\ Saved(log, k.turn, s, k.rev) => s \in FrameKeys(Prefix(k), k.turn)
<1> DEFINE p == Prefix(k)
           t == k.turn
           F == remote[t].frames
<1>1. /\ log \in Seq(Event) /\ k.rev \in Nat /\ k.rev <= Len(log) /\ Len(log) \in Nat
      /\ EventsOK(log, remote)
  BY LenProperties DEF IInv, Typed, Fits, RuntimeOK, Runtime
<1>2. p \in Seq(Event) /\ Len(p) = k.rev /\ \A i \in 1..k.rev : p[i] = log[i]
  BY <1>1, PrefixIs
<1> HIDE DEF p
<1>3. s \in FrameKeys(p, t) <=> \E i \in 1..k.rev : p[i].turn = t /\ p[i].seq > 0 /\ p[i].seq = s
  BY <1>2, FrameKeysAre
<1>4. s \in FrameKeys(p, t) <=> \E i \in 1..k.rev : log[i].turn = t /\ log[i].seq > 0 /\ log[i].seq = s
  BY <1>2, <1>3
<1>5. ASSUME NEW i \in 1..k.rev, log[i].turn = t, log[i].seq > 0, log[i].seq = s
      PROVE  Saved(log, t, s, k.rev) \/ (s \in 1..Len(F) /\ F[s] \in Terminals)
  <2>1. i \in 1..Len(log)
    BY <1>1
  <2>2. EventOK(log, remote, i) /\ log[i] \in Event
    BY <1>1, <2>1, ElementOfSeq DEF EventsOK
  <2>3. CASE log[i].type = "frame"
    BY <1>5, <2>3 DEF Saved
  <2>4. CASE log[i].type # "frame"
    <3>1. s <= Len(F) /\ F[s] \in Terminals /\ s \in Nat
      BY <1>5, <2>2, <2>4, EventTyped DEF EventOK
    <3>2. Len(F) \in Nat
      BY LenProperties DEF IInv, Typed, Remote
    <3> HIDE DEF F
    <3> QED BY <1>5, <3>1, <3>2
  <2> QED BY <2>3, <2>4
<1>6. s > 0 /\ Saved(log, t, s, k.rev) =>
        \E i \in 1..k.rev : log[i].turn = t /\ log[i].seq > 0 /\ log[i].seq = s
  BY DEF Saved
<1> QED BY <1>4, <1>5, <1>6 DEF p

\* An observation that has one frame more.
LEMMA AcceptFits ==
  ASSUME IInv, NEW r, NEW k, Fits(log, remote, r, k), k.turn \in Turns, k.pc = "observe",
         ~k.failed, NEW F, F = remote[k.turn].frames, NEW n, n = k.expected, n \in 1..Len(F),
         NEW y \in Runtime, y.expected = n + 1, y.pc = k.pc, y.turn = k.turn, y.rev = k.rev,
         y.safe = k.safe, y.base = k.base, y.told = k.told, y.attempt = k.attempt,
         \/ y.batch = k.batch
         \/ y.batch = Append(k.batch, [seq |-> n, safe |-> ~k.unsafe]) /\ Written(F[n]),
         Written(F[n]) => Has(log, y, n),
         NoEmptyText /\ ~y.unsafe => ~k.unsafe /\ (Over(F, n) \/ Has(log, y, n)),
         y.terminal # None => y.terminal = k.terminal \/ F[n] \in Terminals
  PROVE  Fits(log, remote, r, y)
<1>1. k \in Runtime /\ RuntimeOK(log, remote, k) /\ AttemptsOK(r, k) /\ k.turn # None
  BY NoneAssumption DEF Fits
<1>2. F \in Seq(Kinds \cup Terminals) /\ Len(F) \in Nat /\ n \in Nat
  BY LenProperties DEF IInv, Typed, Remote
<1>3. Observation(log, F, k)
  BY <1>1 DEF RuntimeOK
<1>4. \A s \in 1..(Len(F) - 1) : F[s] \notin Terminals
  BY DEF IInv, RemoteOK
<1>5. F[n] \in Terminals => Over(F, n)
  BY <1>2, <1>4 DEF Over
<1>6. ~Over(F, n - 1)
  BY <1>2 DEF Over
<1>7. k.terminal = None
  BY <1>3, <1>6 DEF Observation
<1> DEFINE B == [seq : Nat, safe : BOOLEAN]
           b == [seq |-> n, safe |-> ~k.unsafe]
<1>8. k.batch \in Seq(B) /\ b \in B /\ b.seq = n /\ b.safe = ~k.unsafe /\ k.base \in Nat
  BY <1>1, <1>2 DEF Runtime
<1> HIDE DEF b, B
<1>9. /\ Len(k.batch) \in Nat /\ Len(y.batch) \in Nat
      /\ \A j \in 1..Len(k.batch) : j \in 1..Len(y.batch) /\ y.batch[j] = k.batch[j]
      /\ \A j \in 1..Len(y.batch) :
           \/ j \in 1..Len(k.batch) /\ y.batch[j] = k.batch[j]
           \/ j = Len(k.batch) + 1 /\ y.batch[j] = b /\ Written(F[n])
  <2>1. Len(k.batch) \in Nat
    BY <1>8, LenProperties
  <2>2. CASE y.batch = k.batch
    BY <2>1, <2>2
  <2>3. CASE y.batch = Append(k.batch, b) /\ Written(F[n])
    <3>1. /\ Len(y.batch) = Len(k.batch) + 1 /\ y.batch[Len(k.batch) + 1] = b
          /\ \A j \in 1..Len(k.batch) : y.batch[j] = k.batch[j]
      BY <1>8, <2>3, AppendProperties
    <3>2. \A j \in 1..(Len(k.batch) + 1) : j \in 1..Len(k.batch) \/ j = Len(k.batch) + 1
      BY <2>1
    <3> QED BY <2>1, <2>3, <3>1, <3>2
  <2> QED BY <2>2, <2>3 DEF b
<1>10. \A s : Has(log, k, s) => Has(log, y, s)
  BY <1>9 DEF Has
<1>11. \A s \in 1..n : s \in 1..(n - 1) \/ s = n
  BY <1>2
<1>12. BatchOK(F, k) /\ \A j \in 1..Len(k.batch) : k.batch[j].seq \in Nat
  <2>1. \A j \in 1..Len(k.batch) : k.batch[j] \in B
    BY <1>8, ElementOfSeq
  <2> QED BY <1>3, <2>1 DEF Observation, B
<1>13. BatchOK(F, y)
  <2> SUFFICES ASSUME NEW j \in 1..Len(y.batch)
               PROVE  /\ 0 < y.batch[j].seq /\ y.batch[j].seq < y.expected
                      /\ Written(F[y.batch[j].seq])
                      /\ \A i \in 1..(j - 1) : y.batch[i].seq < y.batch[j].seq
    BY DEF BatchOK
  <2>1. CASE j \in 1..Len(k.batch) /\ y.batch[j] = k.batch[j]
    <3>1. \A i \in 1..(j - 1) : y.batch[i] = k.batch[i]
      BY <1>9, <2>1
    <3>2. /\ 0 < k.batch[j].seq /\ k.batch[j].seq < n /\ Written(F[k.batch[j].seq])
          /\ \A i \in 1..(j - 1) : k.batch[i].seq < k.batch[j].seq
      BY <1>12, <2>1 DEF BatchOK
    <3>3. k.batch[j].seq < y.expected
      BY <1>2, <1>12, <2>1, <3>2
    <3>4. \A i \in 1..(j - 1) : y.batch[i].seq < y.batch[j].seq
      BY <2>1, <3>1, <3>2
    <3> QED BY <2>1, <3>2, <3>3, <3>4
  <2>2. CASE j = Len(k.batch) + 1 /\ y.batch[j] = b /\ Written(F[n])
    <3>1. \A i \in 1..(j - 1) : i \in 1..Len(k.batch) /\ y.batch[i] = k.batch[i]
      BY <1>9, <2>2
    <3>2. \A i \in 1..Len(k.batch) : k.batch[i].seq < n
      BY <1>12 DEF BatchOK
    <3>3. 0 < n /\ n < y.expected
      BY <1>2
    <3> QED BY <1>8, <2>2, <3>1, <3>2, <3>3
  <2> QED BY <1>9, <2>1, <2>2
<1>14. /\ \A s \in 1..(n - 1) : Written(F[s]) => Has(log, k, s)
       /\ NoEmptyText /\ ~k.unsafe => \A s \in 1..(n - 1) : Has(log, k, s)
  BY <1>3, <1>6 DEF Observation, Complete
<1>15. y.expected - 1 = n
  BY <1>2
<1>16. Complete(log, F, y)
  <2>1. \A s \in 1..n : Written(F[s]) => Has(log, y, s)
    BY <1>10, <1>11, <1>14
  <2>2. NoEmptyText /\ ~y.unsafe => Over(F, n) \/ \A s \in 1..n : Has(log, y, s)
    BY <1>10, <1>11, <1>14
  <2> QED BY <1>15, <2>1, <2>2 DEF Complete
<1>17. NoEmptyText => \A j \in 1..Len(y.batch) : y.batch[j].safe =>
         \A s \in 1..y.batch[j].seq : Has(log, y, s)
  <2> SUFFICES ASSUME NoEmptyText, NEW j \in 1..Len(y.batch), y.batch[j].safe,
                      NEW s \in 1..y.batch[j].seq
               PROVE  Has(log, y, s)
    OBVIOUS
  <2>1. CASE j \in 1..Len(k.batch) /\ y.batch[j] = k.batch[j]
    BY <1>3, <1>10, <2>1 DEF Observation
  <2>2. CASE j = Len(k.batch) + 1 /\ y.batch[j] = b
    <3>1. Has(log, y, n)
      BY <1>8, <2>2 DEF Has
    <3> QED BY <1>8, <1>10, <1>11, <1>14, <2>2, <3>1
  <2> QED BY <1>9, <2>1, <2>2
<1>18. Observation(log, F, y)
  <2>1. 1 <= y.base /\ y.base <= y.expected /\ y.expected <= Len(F) + 1
    BY <1>2, <1>3, <1>8 DEF Observation
  <2>2. NoEmptyText => Continues(log, F, y.turn, y.rev, y.base - 1)
    BY <1>3 DEF Observation
  <2>3. y.terminal # None => Over(F, y.expected - 1)
    BY <1>5, <1>7, <1>15
  <2> QED BY <1>13, <1>16, <1>17, <2>1, <2>2, <2>3 DEF Observation
<1>19. RuntimeOK(log, remote, y)
  BY <1>1, <1>18 DEF RuntimeOK
<1> QED BY <1>1, <1>19 DEF Fits, AttemptsOK

\* acceptFrame()
LEMMA AcceptedFits ==
  ASSUME IInv, NEW r, NEW k, Fits(log, remote, r, k), k.turn \in Turns, k.pc = "observe",
         ~k.failed, NEW kind, k.expected \in DOMAIN remote[k.turn].frames,
         kind = remote[k.turn].frames[k.expected]
  PROVE  Fits(log, remote, r, Accepted(k, kind))
<1> DEFINE F == remote[k.turn].frames
           n == k.expected
           m == n + 1
           b == [seq |-> n, safe |-> ~k.unsafe]
           next == [k EXCEPT !.expected = m]
           y == Accepted(k, kind)
<1>1. k \in Runtime /\ k.unsafe \in BOOLEAN /\ k.batch \in Seq([seq : Nat, safe : BOOLEAN])
  BY DEF Fits, Runtime
<1>2. F \in Seq(Kinds \cup Terminals) /\ Len(F) \in Nat /\ DOMAIN F = 1..Len(F)
  BY LenProperties DEF IInv, Typed, Remote
<1>3. n \in 1..Len(F) /\ n \in Nat /\ m \in Nat /\ kind = F[n] /\ kind \in Kinds \cup Terminals
  BY <1>2, ElementOfSeq
<1>4. y = IF KnownFrame(k, n) THEN next
          ELSE CASE kind = "usage" -> [next EXCEPT !.unsafe = TRUE]
                 [] kind = "empty" -> next
                 [] kind \in Terminals -> [next EXCEPT !.terminal = kind]
                 [] OTHER -> [next EXCEPT !.batch = Append(next.batch, b)]
  BY DEF Accepted
<1>5. /\ \A s \in 1..(Len(F) - 1) : F[s] \notin Terminals
      /\ \A s \in 1..Len(F) : \/ s <= Len(Response[k.turn]) /\ F[s] = Response[k.turn][s]
                              \/ s = Len(F) /\ F[s] = "cancelled"
  <2>1. RemoteOK(remote)
    BY DEF IInv
  <2> QED BY <2>1, Zenon DEF RemoteOK
<1> HIDE DEF F, m, b, y
<1>6. F[n] \in Terminals => Over(F, n)
  <2>1. n \in 1..(Len(F) - 1) \/ (n = Len(F) /\ Len(F) > 0)
    BY <1>2, <1>3
  <2>2. n \in 1..(Len(F) - 1) => F[n] \notin Terminals
    BY <1>5
  <2> QED BY <2>1, <2>2 DEF Over
<1>7. next \in Runtime /\ next.expected = m /\ next.pc = k.pc /\ next.turn = k.turn
  BY <1>1, <1>3 DEF Runtime
<1>8. /\ next.rev = k.rev /\ next.safe = k.safe /\ next.base = k.base /\ next.told = k.told
      /\ next.attempt = k.attempt
  BY <1>1 DEF Runtime
<1>9. next.batch = k.batch /\ next.unsafe = k.unsafe /\ next.terminal = k.terminal
  BY <1>1 DEF Runtime
<1> HIDE DEF next
<1>10. F = remote[k.turn].frames /\ m = n + 1
  BY DEF F, m
<1>11. ASSUME y = next, Written(F[n]) => Has(log, next, n),
              NoEmptyText => Over(F, n) \/ Has(log, next, n)
       PROVE  Fits(log, remote, r, y)
  BY <1>3, <1>7, <1>8, <1>9, <1>10, <1>11, AcceptFits
<1>12. CASE KnownFrame(k, n)
  <2>1. n \in FrameKeys(Prefix(k), k.turn)
    BY <1>3, <1>12 DEF KnownFrame
  <2>2. Saved(log, k.turn, n, k.rev) \/ F[n] \in Terminals
    BY <2>1, KeysAre DEF F
  <2>3. Saved(log, k.turn, n, k.rev) => Has(log, next, n)
    BY <1>7, <1>8 DEF Has
  <2>4. F[n] \in Terminals => ~Written(F[n])
    BY DEF Written, Terminals
  <2>5. y = next
    BY <1>4, <1>12
  <2>6. Fits(log, remote, r, y)
    BY <1>6, <1>11, <2>2, <2>3, <2>4, <2>5
  <2> QED BY <2>6 DEF y
<1>13. CASE ~KnownFrame(k, n) /\ kind = "usage"
  <2> DEFINE z == [next EXCEPT !.unsafe = TRUE]
  <2>1. z \in Runtime /\ z.expected = next.expected /\ z.pc = next.pc /\ z.turn = next.turn
    BY <1>7 DEF Runtime
  <2>2. /\ z.rev = next.rev /\ z.safe = next.safe /\ z.base = next.base /\ z.told = next.told
        /\ z.attempt = next.attempt
    BY <1>7 DEF Runtime
  <2>3. z.batch = next.batch /\ z.terminal = next.terminal
    BY <1>7 DEF Runtime
  <2>4. z.unsafe
    BY <1>7 DEF Runtime
  <2> HIDE DEF z
  <2>5. ~Written(F[n])
    BY <1>3, <1>13 DEF Written
  <2>6. Fits(log, remote, r, z)
    <3>1. NoEmptyText /\ ~z.unsafe => ~k.unsafe /\ (Over(F, n) \/ Has(log, z, n))
      BY <2>4, Zenon
    <3>2. /\ z.expected = n + 1 /\ z.pc = k.pc /\ z.turn = k.turn /\ z.rev = k.rev
          /\ z.safe = k.safe /\ z.base = k.base /\ z.told = k.told /\ z.attempt = k.attempt
          /\ z.batch = k.batch /\ z.terminal = k.terminal
      BY <1>7, <1>8, <1>9, <1>10, <2>1, <2>2, <2>3
    <3> QED BY <1>3, <1>10, <2>1, <2>5, <3>1, <3>2, AcceptFits
  <2>7. y = z
    <3>1. kind # "empty" /\ kind \notin Terminals
      BY <1>13 DEF Terminals
    <3> QED BY <1>4, <1>13, <3>1 DEF z
  <2> QED BY <2>6, <2>7 DEF y
<1>14. CASE ~KnownFrame(k, n) /\ kind = "empty"
  <2>1. ~Written(F[n])
    BY <1>3, <1>14 DEF Written
  <2>2. ~NoEmptyText
    <3>1. n <= Len(Response[k.turn]) /\ Response[k.turn][n] = "empty"
      BY <1>3, <1>5, <1>14
    <3>2. Response[k.turn] \in Seq(Kinds \cup Terminals)
      BY ResponseAssumption
    <3>3. n \in DOMAIN Response[k.turn]
      BY <1>3, <3>1, <3>2, LenProperties
    <3> QED BY <3>1, <3>3 DEF NoEmptyText
  <2>3. y = next
    <3>1. kind # "usage" /\ kind \notin Terminals
      BY <1>14 DEF Terminals
    <3> QED BY <1>4, <1>14, <3>1
  <2>4. Fits(log, remote, r, y)
    BY <1>11, <2>1, <2>2, <2>3
  <2> QED BY <2>4 DEF y
<1>15. CASE ~KnownFrame(k, n) /\ kind \in Terminals
  <2> DEFINE z == [next EXCEPT !.terminal = kind]
  <2>1. z \in Runtime /\ z.expected = next.expected /\ z.pc = next.pc /\ z.turn = next.turn
    BY <1>7, <1>15 DEF Runtime
  <2>2. /\ z.rev = next.rev /\ z.safe = next.safe /\ z.base = next.base /\ z.told = next.told
        /\ z.attempt = next.attempt
    BY <1>7 DEF Runtime
  <2>3. z.batch = next.batch /\ z.unsafe = next.unsafe /\ z.terminal = kind
    BY <1>7 DEF Runtime
  <2> HIDE DEF z
  <2>4. ~Written(F[n]) /\ Over(F, n) /\ F[n] \in Terminals
    BY <1>3, <1>6, <1>15 DEF Written, Terminals
  <2>5. Fits(log, remote, r, z)
    <3>1. /\ z.expected = n + 1 /\ z.pc = k.pc /\ z.turn = k.turn /\ z.rev = k.rev
          /\ z.safe = k.safe /\ z.base = k.base /\ z.told = k.told /\ z.attempt = k.attempt
          /\ z.batch = k.batch
      BY <1>7, <1>8, <1>9, <1>10, <2>1, <2>2, <2>3
    <3>2. NoEmptyText /\ ~z.unsafe => ~k.unsafe /\ (Over(F, n) \/ Has(log, z, n))
      BY <1>9, <2>3, <2>4, Zenon
    <3> QED BY <1>3, <1>10, <2>1, <2>4, <3>1, <3>2, AcceptFits
  <2>6. y = z
    <3>1. kind # "usage" /\ kind # "empty"
      BY <1>15 DEF Terminals
    <3> QED BY <1>4, <1>15, <3>1 DEF z
  <2> QED BY <2>5, <2>6 DEF y
<1>16. CASE ~KnownFrame(k, n) /\ kind \notin Terminals \cup {"usage", "empty"}
  <2> DEFINE a == Append(k.batch, b)
             z == [next EXCEPT !.batch = a]
  <2>1. b \in [seq : Nat, safe : BOOLEAN] /\ b.seq = n
    BY <1>1, <1>3 DEF b
  <2>2. a \in Seq([seq : Nat, safe : BOOLEAN]) /\ Len(a) = Len(k.batch) + 1 /\ a[Len(k.batch) + 1] = b
    BY <1>1, <2>1, AppendProperties
  <2>3. a = Append(k.batch, [seq |-> n, safe |-> ~k.unsafe])
    BY DEF b
  <2> HIDE DEF a
  <2>4. z \in Runtime /\ z.expected = next.expected /\ z.pc = next.pc /\ z.turn = next.turn
    BY <1>7, <2>2 DEF Runtime
  <2>5. /\ z.rev = next.rev /\ z.safe = next.safe /\ z.base = next.base /\ z.told = next.told
        /\ z.attempt = next.attempt
    BY <1>7 DEF Runtime
  <2>6. z.batch = a /\ z.unsafe = next.unsafe /\ z.terminal = next.terminal
    BY <1>7 DEF Runtime
  <2> HIDE DEF z
  <2>7. Written(F[n])
    BY <1>3, <1>16 DEF Written, Kinds
  <2>8. Has(log, z, n)
    <3>1. Len(k.batch) \in Nat
      BY <1>1, LenProperties
    <3>2. Len(k.batch) + 1 \in 1..Len(a) /\ a[Len(k.batch) + 1].seq = n
      BY <2>1, <2>2, <3>1
    <3> QED BY <2>6, <3>2 DEF Has
  <2>9. Fits(log, remote, r, z)
    <3>1. /\ z.expected = n + 1 /\ z.pc = k.pc /\ z.turn = k.turn /\ z.rev = k.rev
          /\ z.safe = k.safe /\ z.base = k.base /\ z.told = k.told /\ z.attempt = k.attempt
      BY <1>7, <1>8, <1>10, <2>4, <2>5
    <3>2. NoEmptyText /\ ~z.unsafe => ~k.unsafe /\ (Over(F, n) \/ Has(log, z, n))
      BY <1>9, <2>6, <2>8, Zenon
    <3>3. z.terminal # None => z.terminal = k.terminal \/ F[n] \in Terminals
      BY <1>9, <2>6
    <3>4. z.batch = Append(k.batch, [seq |-> n, safe |-> ~k.unsafe])
      BY <2>3, <2>6
    <3> QED BY <1>3, <1>10, <2>4, <2>7, <2>8, <3>1, <3>2, <3>3, <3>4, AcceptFits
  <2>10. y = z
    BY <1>4, <1>9, <1>16 DEF z, a
  <2> QED BY <2>9, <2>10 DEF y
<1> QED BY <1>12, <1>13, <1>14, <1>15, <1>16 DEF y

\* A frame that is refused.
LEMMA RefusedFits ==
  ASSUME NEW r, NEW k, Fits(log, remote, r, k), k.turn # None, k.pc = "observe", ~k.failed
  PROVE  Fits(log, remote, r, [k EXCEPT !.failed = TRUE])
<1> DEFINE y == [k EXCEPT !.failed = TRUE]
           F == remote[k.turn].frames
<1>1. k \in Runtime /\ RuntimeOK(log, remote, k) /\ AttemptsOK(r, k)
  BY DEF Fits
<1>2. y \in Runtime /\ y.pc = k.pc /\ y.turn = k.turn
  BY <1>1 DEF Runtime
<1>3. /\ y.rev = k.rev /\ y.safe = k.safe /\ y.base = k.base
      /\ y.expected = k.expected /\ y.unsafe = k.unsafe /\ y.batch = k.batch
  BY <1>1 DEF Runtime
<1>4. y.terminal = k.terminal /\ y.told = k.told /\ y.attempt = k.attempt /\ y.failed
  BY <1>1 DEF Runtime
<1> HIDE DEF y
<1>5. Observation(log, F, k)
  BY <1>1 DEF RuntimeOK
<1>6. BatchOK(F, y)
  BY <1>3, <1>5 DEF Observation, BatchOK
<1>7. \A s : Has(log, y, s) <=> Has(log, k, s)
  BY <1>2, <1>3 DEF Has
<1>8. Complete(log, F, y)
  BY <1>2, <1>3, <1>4, <1>5, <1>7 DEF Observation, Complete
<1>9. Observation(log, F, y)
  BY <1>2, <1>3, <1>4, <1>5, <1>6, <1>7, <1>8 DEF Observation
<1>10. RuntimeOK(log, remote, y)
  BY <1>1, <1>2, <1>3, <1>4, <1>9 DEF RuntimeOK
<1>11. Fits(log, remote, r, y)
  BY <1>1, <1>2, <1>4, <1>10 DEF Fits, AttemptsOK
<1> QED BY <1>11 DEF y

LEMMA DeliverKeeps ==
  ASSUME IInv, NEW r \in Runtimes, Deliver(r)
  PROVE  IInv'
<1> DEFINE k == runtime[r]
           F == remote[k.turn].frames
<1>1. /\ k \in Runtime /\ Fits(log, remote, r, k) /\ k.pc = "observe" /\ k.turn \in Turns
      /\ ~k.failed /\ k.turn # None
  BY RuntimeIs, NoneAssumption DEF Deliver
<1>2. UNCHANGED <<log, remote>>
  BY DEF Deliver
<1>3. faults' \in Nat
  BY FaultTyped DEF Deliver
<1>4. PICK i \in DOMAIN F :
        \/ i = k.expected /\ runtime' = [runtime EXCEPT ![r] = Accepted(k, F[i])]
        \/ runtime' = [runtime EXCEPT ![r] = [k EXCEPT !.failed = TRUE]]
  BY DEF Deliver
<1>5. CASE i = k.expected /\ runtime' = [runtime EXCEPT ![r] = Accepted(k, F[i])]
  <2>1. Fits(log, remote, r, Accepted(k, F[i]))
    BY <1>1, <1>5, AcceptedFits
  <2> QED BY <1>2, <1>3, <1>5, <2>1, QuietStepKeeps
<1>6. CASE runtime' = [runtime EXCEPT ![r] = [k EXCEPT !.failed = TRUE]]
  <2>1. Fits(log, remote, r, [k EXCEPT !.failed = TRUE])
    BY <1>1, RefusedFits
  <2> QED BY <1>2, <1>3, <1>6, <2>1, QuietStepKeeps
<1> QED BY <1>4, <1>5, <1>6

-----------------------------------------------------------------------------
(* Frames that are saved *)

\* The fresh frames of a batch, in order.
LEMMA FreshIs ==
  ASSUME NEW k \in Runtime, NEW at \in InOrder(Fresh(k))
  PROVE  \E c \in Nat :
           /\ DOMAIN at = 1..c /\ \A i \in 1..c : at[i] \in Fresh(k)
           /\ \A j \in Fresh(k) : \E i \in 1..c : at[i] = j
           /\ \A i, j \in 1..c : i < j => at[i] < at[j]
<1> DEFINE S == Fresh(k)
           c == Cardinality(S)
<1>1. k.batch \in Seq([seq : Nat, safe : BOOLEAN])
  BY DEF Runtime
<1>2. Len(k.batch) \in Nat /\ DOMAIN k.batch = 1..Len(k.batch)
  BY <1>1, LenProperties
<1>3. IsFiniteSet(1..Len(k.batch))
  BY <1>2, FS_Interval
<1>4. S \subseteq 1..Len(k.batch)
  BY <1>2 DEF Fresh
<1> HIDE DEF S
<1>5. IsFiniteSet(S)
  BY <1>3, <1>4, FS_Subset
<1>6. c \in Nat
  BY <1>5, FS_CardinalityType
<1>7. at \in Bijection(1..c, S) /\ \A i, j \in DOMAIN at : i < j => at[i] < at[j]
  BY DEF InOrder, S
<1> HIDE DEF c
<1>8. at \in [1..c -> S] /\ \A j \in S : \E i \in 1..c : at[i] = j
  BY <1>7, Zenon DEF Bijection, Surjection, Injection
<1>9. DOMAIN at = 1..c /\ \A i \in 1..c : at[i] \in S
  BY <1>8
<1> QED BY <1>6, <1>7, <1>8, <1>9 DEF S

\* What the drafts of a batch are.
LEMMA DraftsAre ==
  ASSUME IInv, NEW r \in Runtimes, runtime[r].turn \in Turns,
         NEW at, NEW c \in Nat, DOMAIN at = 1..c,
         \A i \in 1..c : at[i] \in DOMAIN runtime[r].batch
  PROVE  LET k == runtime[r]
             d == FrameDrafts(r, at) IN
         /\ d \in Seq(Event) /\ Len(d) = c
         /\ \A i \in 1..c : /\ d[i].type = "frame" /\ d[i].turn = k.turn
                            /\ d[i].seq = k.batch[at[i]].seq /\ d[i].safe = k.batch[at[i]].safe
         /\ \E m \in Runtimes :
              /\ \A i \in 1..c : d[i].message \in {m, None}
              /\ \A i \in 1..k.rev : log[i].turn = k.turn /\ log[i].message # None => log[i].message = m
<1> DEFINE k == runtime[r]
           d == FrameDrafts(r, at)
           p == Prefix(k)
           m0 == MessageOf(p, k.turn)
           m == IF m0 = None THEN r ELSE m0
           B == [seq : Nat, safe : BOOLEAN]
           F == remote[k.turn].frames
<1>1. k \in Runtime /\ Fits(log, remote, r, k) /\ k.rev \in Nat /\ k.rev <= Len(log) /\ Len(log) \in Nat
  BY RuntimeIs
<1>2. log \in Seq(Event) /\ EventsOK(log, remote)
  BY DEF IInv, Typed
<1>3. p \in Seq(Event) /\ Len(p) = k.rev /\ \A i \in 1..k.rev : p[i] = log[i]
  BY <1>1, <1>2, PrefixIs
<1>4. d = [i \in DOMAIN at |->
            [type |-> "frame", turn |-> k.turn, seq |-> k.batch[at[i]].seq,
             safe |-> k.batch[at[i]].safe,
             message |-> IF F[k.batch[at[i]].seq] = "text" THEN m ELSE None]]
  BY DEF FrameDrafts
<1> HIDE DEF p, F, d
<1>5. /\ m0 = None => \A i \in 1..k.rev : p[i].turn = k.turn => p[i].message = None
      /\ m0 # None => \E i \in 1..k.rev : p[i].turn = k.turn /\ p[i].message = m0
  BY <1>3, MessageIs
<1> HIDE DEF m0
<1>6. \A i \in 1..k.rev : i \in 1..Len(log) /\ log[i] \in Event
  <2>1. \A i \in 1..k.rev : i \in 1..Len(log)
    BY <1>1
  <2> QED BY <1>2, <2>1, ElementOfSeq
<1>7. m \in Runtimes
  <2>1. CASE m0 = None
    BY <2>1
  <2>2. CASE m0 # None
    <3>1. PICK i \in 1..k.rev : p[i].message = m0
      BY <1>5, <2>2
    <3>2. m0 \in Runtimes \cup {None}
      BY <1>3, <1>6, <3>1, EventTyped
    <3> QED BY <2>2, <3>2
  <2> QED BY <2>1, <2>2
<1>8. ASSUME NEW i \in 1..k.rev, log[i].turn = k.turn, log[i].message # None
      PROVE  log[i].message = m
  <2>1. m0 # None /\ m = m0
    BY <1>3, <1>5, <1>8
  <2>2. PICK j \in 1..k.rev : log[j].turn = k.turn /\ log[j].message = m0
    BY <1>3, <1>5, <2>1
  <2>3. EventOK(log, remote, i) /\ EventOK(log, remote, j)
    BY <1>2, <1>6 DEF EventsOK
  <2>4. i = j \/ i \in 1..(j - 1) \/ j \in 1..(i - 1)
    BY <1>1
  <2>5. i \in 1..(j - 1) => log[i].message = log[j].message
    BY <1>8, <2>1, <2>2, <2>3 DEF EventOK
  <2>6. j \in 1..(i - 1) => log[j].message = log[i].message
    BY <1>8, <2>1, <2>2, <2>3 DEF EventOK
  <2> HIDE DEF m
  <2> QED BY <2>1, <2>2, <2>4, <2>5, <2>6
<1> HIDE DEF m
<1>9. ASSUME NEW i \in 1..c
      PROVE  k.batch[at[i]].seq \in Nat /\ k.batch[at[i]].safe \in BOOLEAN
  <2>1. k.batch \in Seq(B)
    BY <1>1 DEF Runtime
  <2>2. at[i] \in 1..Len(k.batch)
    BY <1>9, <2>1, LenProperties
  <2>3. k.batch[at[i]] \in B
    BY <2>1, <2>2, ElementOfSeq
  <2> QED BY <2>3
<1>10. /\ DOMAIN d = 1..c
       /\ \A i \in 1..c :
            d[i] = [type |-> "frame", turn |-> k.turn, seq |-> k.batch[at[i]].seq,
                    safe |-> k.batch[at[i]].safe,
                    message |-> IF F[k.batch[at[i]].seq] = "text" THEN m ELSE None]
  BY <1>4
<1>11. ASSUME NEW i \in 1..c
       PROVE  /\ d[i] \in Event /\ d[i].type = "frame" /\ d[i].turn = k.turn
              /\ d[i].seq = k.batch[at[i]].seq /\ d[i].safe = k.batch[at[i]].safe
              /\ d[i].message \in {m, None}
  <2> DEFINE q == k.batch[at[i]].seq
             b == k.batch[at[i]].safe
             x == IF F[q] = "text" THEN m ELSE None
  <2>1. d[i] = [type |-> "frame", turn |-> k.turn, seq |-> q, safe |-> b, message |-> x]
    BY <1>10, <1>11
  <2>2. q \in Nat /\ b \in BOOLEAN /\ x \in {m, None}
    BY <1>9, <1>11
  <2> HIDE DEF q, b, x
  <2>3. /\ d[i].type = "frame" /\ d[i].turn = k.turn /\ d[i].seq = q /\ d[i].safe = b
        /\ d[i].message = x
    BY <2>1
  <2>4. d[i] \in Event
    BY <1>7, <2>1, <2>2 DEF Event
  <2> QED BY <2>2, <2>3, <2>4 DEF q, b
<1>12. d \in Seq(Event) /\ Len(d) = c
  <2>1. d \in [1..c -> Event]
    BY <1>4, <1>10, <1>11
  <2> QED BY <2>1, LenProperties
<1> QED BY <1>7, <1>8, <1>11, <1>12 DEF d

\* A draft stands for a frame behind those that the log has, and those of the drafts
\* before it.
LEMMA DraftsOK ==
  ASSUME IInv, NEW r \in Runtimes, runtime[r].pc = "observe", runtime[r].batch # <<>>,
         runtime[r].rev = Len(log), NEW at \in InOrder(Fresh(runtime[r]))
  PROVE  LET k == runtime[r]
             lg == log \o FrameDrafts(r, at) IN
         /\ FrameDrafts(r, at) \in Seq(Event) /\ EventsOK(lg, remote)
         /\ \A j \in 1..Len(k.batch) : Saved(lg, k.turn, k.batch[j].seq, Len(lg))
<1> DEFINE k == runtime[r]
           t == k.turn
           F == remote[t].frames
           d == FrameDrafts(r, at)
           lg == log \o d
<1>1. /\ k \in Runtime /\ Fits(log, remote, r, k) /\ t \in Turns /\ t # None
      /\ log \in Seq(Event) /\ Len(log) \in Nat /\ k.rev = Len(log) /\ EventsOK(log, remote)
  BY RuntimeIs, NoneAssumption DEF IInv, Typed
<1>2. F \in Seq(Kinds \cup Terminals) /\ Len(F) \in Nat
  BY <1>1, LenProperties DEF IInv, Typed, Remote
<1>3. Observation(log, F, k)
  BY <1>1 DEF Fits, RuntimeOK
<1>4. /\ DOMAIN k.batch = 1..Len(k.batch) /\ Len(k.batch) \in Nat /\ k.expected \in Nat
      /\ \A j \in 1..Len(k.batch) : k.batch[j].seq \in Nat
  <2>1. k.batch \in Seq([seq : Nat, safe : BOOLEAN]) /\ k.expected \in Nat
    BY <1>1 DEF Runtime
  <2>2. \A j \in 1..Len(k.batch) : k.batch[j] \in [seq : Nat, safe : BOOLEAN]
    BY <2>1, ElementOfSeq
  <2> QED BY <2>1, <2>2, LenProperties
<1>5. PICK c \in Nat :
        /\ DOMAIN at = 1..c /\ \A i \in 1..c : at[i] \in Fresh(k)
        /\ \A j \in Fresh(k) : \E i \in 1..c : at[i] = j
        /\ \A i, j \in 1..c : i < j => at[i] < at[j]
  BY <1>1, FreshIs
<1>6. \A j : j \in Fresh(k) <=> j \in 1..Len(k.batch) /\ k.batch[j].seq \notin FrameKeys(Prefix(k), t)
  BY <1>4 DEF Fresh
<1>7. \A i \in 1..c : at[i] \in DOMAIN k.batch
  BY <1>4, <1>5, <1>6
<1>8. /\ d \in Seq(Event) /\ Len(d) = c
      /\ \A i \in 1..c : /\ d[i].type = "frame" /\ d[i].turn = t
                         /\ d[i].seq = k.batch[at[i]].seq /\ d[i].safe = k.batch[at[i]].safe
      /\ \E m \in Runtimes :
           /\ \A i \in 1..c : d[i].message \in {m, None}
           /\ \A i \in 1..k.rev : log[i].turn = t /\ log[i].message # None => log[i].message = m
  BY <1>1, <1>5, <1>7, DraftsAre
<1> HIDE DEF d
<1>9. /\ Len(lg) = Len(log) + c /\ \A i \in 1..Len(log) : lg[i] = log[i]
      /\ \A i \in 1..c : lg[Len(log) + i] = d[i]
  BY <1>1, <1>8, JoinedIs
<1> HIDE DEF lg, F, t, k
<1>10. \A j \in 1..Len(k.batch) :
         /\ 0 < k.batch[j].seq /\ k.batch[j].seq < k.expected /\ k.batch[j].seq \in 1..Len(F)
         /\ Written(F[k.batch[j].seq]) /\ \A i \in 1..(j - 1) : k.batch[i].seq < k.batch[j].seq
  BY <1>2, <1>3, <1>4 DEF Observation, BatchOK
<1>11. \A s : s \in FrameKeys(Prefix(k), t) =>
         Saved(log, t, s, Len(log)) \/ (s \in 1..Len(F) /\ F[s] \in Terminals)
  BY <1>1, KeysAre DEF F, t
<1>12. \A s : s > 0 /\ Saved(log, t, s, Len(log)) => s \in FrameKeys(Prefix(k), t)
  BY <1>1, KeysAre DEF t
\* Later drafts stand for later frames.
<1>13. \A i, j \in 1..c : i < j => k.batch[at[i]].seq < k.batch[at[j]].seq
  <2> SUFFICES ASSUME NEW i \in 1..c, NEW j \in 1..c, i < j
               PROVE  k.batch[at[i]].seq < k.batch[at[j]].seq
    OBVIOUS
  <2>1. at[i] \in 1..Len(k.batch) /\ at[j] \in 1..Len(k.batch) /\ at[i] < at[j]
    BY <1>4, <1>5, <1>7
  <2>2. at[i] \in 1..(at[j] - 1)
    BY <1>4, <2>1
  <2> QED BY <1>10, <2>1, <2>2
\* A frame of the batch is in the log, or a draft stands for it.
<1>14. \A j \in 1..Len(k.batch) :
         \/ Saved(log, t, k.batch[j].seq, Len(log))
         \/ \E i \in 1..c : at[i] = j
  <2> SUFFICES ASSUME NEW j \in 1..Len(k.batch)
               PROVE  \/ Saved(log, t, k.batch[j].seq, Len(log))
                      \/ \E i \in 1..c : at[i] = j
    OBVIOUS
  <2>1. F[k.batch[j].seq] \notin Terminals
    BY <1>10 DEF Written, Terminals
  <2> QED BY <1>5, <1>6, <1>11, <2>1
\* What is in the log, or in a draft before.
<1>15. ASSUME NEW n \in Nat, NEW s, Saved(log, t, s, Len(log))
       PROVE  Saved(lg, t, s, Len(log) + n)
  <2>1. Len(log) + n \in Nat /\ Len(log) <= Len(log) + n
    BY <1>1
  <2> QED BY <1>1, <1>9, <1>15, <2>1, SavedKept
<1>16. ASSUME NEW n \in 0..c, NEW i \in 1..n
       PROVE  Saved(lg, t, k.batch[at[i]].seq, Len(log) + n)
  <2>1. i \in 1..c /\ Len(log) + i \in 1..(Len(log) + n)
    BY <1>1
  <2>2. lg[Len(log) + i].type = "frame" /\ lg[Len(log) + i].turn = t
        /\ lg[Len(log) + i].seq = k.batch[at[i]].seq
    BY <1>8, <1>9, <2>1
  <2> QED BY <2>1, <2>2 DEF Saved
<1>17. \A j \in 1..Len(k.batch) : Saved(lg, t, k.batch[j].seq, Len(lg))
  <2> SUFFICES ASSUME NEW j \in 1..Len(k.batch)
               PROVE  Saved(lg, t, k.batch[j].seq, Len(lg))
    OBVIOUS
  <2>1. c \in 0..c
    OBVIOUS
  <2> QED BY <1>9, <1>14, <1>15, <1>16, <2>1
<1>18. ASSUME NEW i \in 1..c
       PROVE  EventOK(lg, remote, Len(log) + i)
  <2> DEFINE e == lg[Len(log) + i]
             q == k.batch[at[i]].seq
             n == i - 1
  <2>1. /\ e.type = "frame" /\ e.turn = t /\ e.seq = q /\ e.safe = k.batch[at[i]].safe
        /\ e.message = d[i].message
    BY <1>8, <1>9
  <2>2. /\ at[i] \in 1..Len(k.batch) /\ q \in 1..Len(F) /\ 0 < q /\ q < k.expected
        /\ q \in Nat /\ Written(F[q]) /\ q \notin FrameKeys(Prefix(k), t)
    BY <1>4, <1>5, <1>6, <1>10
  <2>3. n \in 0..c /\ n \in Nat /\ Len(log) + i - 1 = Len(log) + n
    BY <1>1
  <2> HIDE DEF e, q, n
  \* Frames before it that the observation has are saved before it.
  <2>4. ASSUME NEW s \in 1..(q - 1), Has(log, k, s)
        PROVE  Saved(lg, t, s, Len(log) + n)
    <3>1. CASE Saved(log, t, s, Len(log))
      BY <1>15, <2>3, <3>1
    <3>2. ASSUME NEW j \in 1..Len(k.batch), k.batch[j].seq = s, NEW h \in 1..c, at[h] = j
          PROVE  Saved(lg, t, s, Len(log) + n)
      <4>1. s < q /\ s \in Nat
        BY <2>2
      <4>2. ~(i < h) /\ i # h
        <5>1. i < h => q < s
          BY <1>13, <3>2 DEF q
        <5>2. i = h => q = s
          BY <3>2 DEF q
        <5> QED BY <2>2, <4>1, <5>1, <5>2
      <4>3. h \in 1..n
        BY <4>2 DEF n
      <4> QED BY <1>16, <2>3, <3>2, <4>3
    <3>3. Saved(log, t, s, Len(log)) \/ \E j \in 1..Len(k.batch) : k.batch[j].seq = s
      BY <1>1, <2>4 DEF Has, t
    <3> QED BY <1>14, <3>1, <3>2, <3>3
  \* Frames that are saved before it are frames before it.
  <2>5. ASSUME NEW s \in 1..Len(F), Saved(lg, t, s, Len(log) + n)
        PROVE  s < q
    <3>1. PICK j \in 1..(Len(log) + n) : lg[j].turn = t /\ lg[j].type = "frame" /\ lg[j].seq = s
      BY <2>5 DEF Saved
    <3>2. CASE j > Len(log)
      <4> DEFINE h == j - Len(log)
      <4>1. h \in 1..n /\ h \in 1..c /\ j = Len(log) + h /\ h < i
        BY <1>1, <2>3, <3>1, <3>2 DEF n
      <4> HIDE DEF h
      <4>2. lg[j] = d[h] /\ s = k.batch[at[h]].seq
        BY <1>8, <1>9, <3>1, <4>1
      <4> QED BY <1>13, <4>1, <4>2 DEF q
    <3>3. CASE j <= Len(log)
      <4>1. j \in 1..Len(log) /\ lg[j] = log[j]
        BY <1>1, <1>9, <2>3, <3>1, <3>3
      <4>2. EventOK(log, remote, j) /\ log[j].turn = t /\ log[j].type = "frame" /\ log[j].seq = s
        BY <1>1, <3>1, <4>1 DEF EventsOK
      <4>3. ~Saved(log, t, q, Len(log))
        BY <1>12, <2>2
      <4>4. ~Saved(log, t, q, j - 1)
        <5>1. j - 1 \in Nat /\ j - 1 <= Len(log) /\ \A i2 \in 1..(j - 1) : log[i2] = log[i2]
          BY <1>1, <4>1
        <5> QED BY <1>1, <4>3, <5>1, SavedKept
      <4>5. q < s <=> Saved(log, t, q, j - 1)
        BY <2>2, <4>2 DEF EventOK, F
      <4>6. q # s
        BY <4>1, <4>2, <4>3 DEF Saved
      <4> QED BY <1>2, <2>2, <4>4, <4>5, <4>6
    <3> QED BY <1>1, <2>3, <3>1, <3>2, <3>3
  <2>6. \A s \in 1..(q - 1) : Written(F[s]) => Saved(lg, t, s, Len(log) + n)
    <3>1. \A s \in 1..(q - 1) : s \in 1..(k.expected - 1)
      BY <1>4, <2>2
    <3>2. \A s \in 1..(k.expected - 1) : Written(F[s]) => Has(log, k, s)
      BY <1>3 DEF Observation, Complete, k
    <3> QED BY <2>4, <3>1, <3>2
  <2>7. \A s \in 1..Len(F) : Written(F[s]) => (s < q <=> Saved(lg, t, s, Len(log) + n))
    <3>1. \A s \in 1..Len(F) : s < q => s \in 1..(q - 1)
      BY <1>2, <2>2
    <3> QED BY <2>5, <2>6, <3>1
  <2>8. NoEmptyText /\ e.safe => \A s \in 1..(q - 1) : Saved(lg, t, s, Len(log) + n)
    <3> SUFFICES ASSUME NoEmptyText, e.safe, NEW s \in 1..(q - 1)
                 PROVE  Saved(lg, t, s, Len(log) + n)
      OBVIOUS
    <3>1. \A u \in 1..q : Has(log, k, u)
      BY <1>3, <2>1, <2>2 DEF Observation, q
    <3>2. s \in 1..q
      BY <2>2
    <3> QED BY <2>4, <3>1, <3>2
  <2>9. \A j \in 1..(Len(log) + n) :
          lg[j].turn = t /\ lg[j].message # None /\ e.message # None => lg[j].message = e.message
    <3>1. PICK m \in Runtimes :
            /\ \A h \in 1..c : d[h].message \in {m, None}
            /\ \A h \in 1..k.rev : log[h].turn = t /\ log[h].message # None => log[h].message = m
      BY <1>8
    <3> SUFFICES ASSUME NEW j \in 1..(Len(log) + n),
                        lg[j].turn = t, lg[j].message # None, e.message # None
                 PROVE  lg[j].message = e.message
      OBVIOUS
    <3>2. e.message = m
      BY <2>1, <3>1
    <3>3. CASE j > Len(log)
      <4> DEFINE h == j - Len(log)
      <4>1. h \in 1..c /\ j = Len(log) + h
        BY <1>1, <2>3, <3>3
      <4> HIDE DEF h
      <4>2. lg[j] = d[h]
        BY <1>9, <4>1
      <4> QED BY <3>1, <3>2, <4>1, <4>2
    <3>4. CASE j <= Len(log)
      <4>1. j \in 1..Len(log) /\ lg[j] = log[j]
        BY <1>1, <1>9, <2>3, <3>4
      <4> QED BY <1>1, <3>1, <3>2, <4>1
    <3> QED BY <1>1, <2>3, <3>3, <3>4
  <2>10. F = remote[e.turn].frames
    BY <2>1 DEF F
  <2>11. q <= Len(F) /\ q > 0
    BY <1>2, <2>2
  <2> DEFINE h == Len(log) + i
  <2>12. lg[h] = e /\ h - 1 = Len(log) + n
    BY <2>3 DEF e
  <2> HIDE DEF h
  <2>13. /\ \A s \in 1..(q - 1) : Written(F[s]) => Saved(lg, t, s, h - 1)
         /\ \A s \in 1..Len(F) : Written(F[s]) => (s < q <=> Saved(lg, t, s, h - 1))
         /\ NoEmptyText /\ e.safe => \A s \in 1..(q - 1) : Saved(lg, t, s, h - 1)
         /\ \A j \in 1..(h - 1) :
              lg[j].turn = t /\ lg[j].message # None /\ e.message # None => lg[j].message = e.message
    BY <2>6, <2>7, <2>8, <2>9, <2>12
  <2>14. EventOK(lg, remote, h)
    BY <2>1, <2>2, <2>10, <2>11, <2>12, <2>13 DEF EventOK
  <2> QED BY <2>14 DEF h
<1>19. EventsOK(lg, remote)
  BY <1>8, <1>18, AppendOK DEF lg
<1> QED BY <1>8, <1>17, <1>19 DEF d, lg, t, k

\* A batch whose frames are all in the log is done with.
LEMMA SavesFits ==
  ASSUME NEW lg, NEW rm, NEW r, NEW k, Fits(lg, rm, r, k), k.pc = "observe", k.turn # None,
         k.batch # <<>>,
         \A j \in 1..Len(k.batch) : Saved(lg, k.turn, k.batch[j].seq, k.rev),
         rm \in [Turns -> Remote], NEW m,
         m = k.safe \/ \E j \in 1..Len(k.batch) : k.batch[j].safe /\ m = k.batch[j].seq
  PROVE  Fits(lg, rm, r, [k EXCEPT !.batch = <<>>, !.safe = m])
<1> DEFINE y == [k EXCEPT !.batch = <<>>, !.safe = m]
           t == k.turn
           F == rm[t].frames
<1>1. k \in Runtime /\ RuntimeOK(lg, rm, k) /\ AttemptsOK(r, k) /\ t \in Turns /\ k.safe \in Nat
      /\ k.expected \in Nat
  BY DEF Fits, Runtime
<1>2. F \in Seq(Kinds \cup Terminals) /\ Len(F) \in Nat
  BY <1>1, LenProperties DEF Remote
<1>3. Observation(lg, F, k) /\ SafeOK(lg, F, t, k.rev, k.safe)
  BY <1>1 DEF RuntimeOK
<1>4. \A j \in 1..Len(k.batch) : k.batch[j].seq \in Nat
  <2>1. k.batch \in Seq([seq : Nat, safe : BOOLEAN])
    BY <1>1 DEF Runtime
  <2>2. \A j \in 1..Len(k.batch) : k.batch[j] \in [seq : Nat, safe : BOOLEAN]
    BY <2>1, ElementOfSeq
  <2> QED BY <2>2
<1>5. m \in Nat
  BY <1>1, <1>4
<1>6. <<>> \in Seq([seq : Nat, safe : BOOLEAN]) /\ Len(<<>>) = 0
  BY EmptySeq
<1>7. y \in Runtime /\ y.pc = k.pc /\ y.turn = t /\ y.rev = k.rev
  BY <1>1, <1>5, <1>6 DEF Runtime
<1>8. /\ y.safe = m /\ y.base = k.base /\ y.expected = k.expected /\ y.unsafe = k.unsafe
      /\ y.batch = <<>>
  BY <1>1 DEF Runtime
<1>9. /\ y.terminal = k.terminal /\ y.told = k.told /\ y.attempt = k.attempt
      /\ y.failed = k.failed
  BY <1>1 DEF Runtime
<1> HIDE DEF y, F
<1>10. \A s : Has(lg, k, s) => Saved(lg, t, s, k.rev) /\ Has(lg, y, s)
  BY <1>7, <1>8 DEF Has
<1>11. \A j \in 1..Len(y.batch) : FALSE
  BY <1>6, <1>8
<1>12. BatchOK(F, y)
  BY <1>11 DEF BatchOK
<1>13. /\ \A s \in 1..(k.expected - 1) : Written(F[s]) => Has(lg, k, s)
       /\ NoEmptyText /\ ~k.unsafe =>
            Over(F, k.expected - 1) \/ \A s \in 1..(k.expected - 1) : Has(lg, k, s)
  BY <1>3 DEF Observation, Complete
<1>14. Complete(lg, F, y)
  BY <1>8, <1>10, <1>13 DEF Complete
<1>15. Observation(lg, F, y)
  <2>1. 1 <= y.base /\ y.base <= y.expected /\ y.expected <= Len(F) + 1
    BY <1>3, <1>8 DEF Observation
  <2>2. NoEmptyText => Continues(lg, F, y.turn, y.rev, y.base - 1)
    BY <1>3, <1>7, <1>8 DEF Observation
  <2>3. y.terminal # None => Over(F, y.expected - 1)
    BY <1>3, <1>8, <1>9 DEF Observation
  <2>4. y.pc \notin {"result", "finish"}
    BY <1>7
  <2> QED BY <1>11, <1>12, <1>14, <2>1, <2>2, <2>3, <2>4 DEF Observation
<1>16. SafeOK(lg, F, t, k.rev, m)
  <2>1. CASE m = k.safe
    BY <1>3, <2>1
  <2>2. ASSUME NEW j \in 1..Len(k.batch), k.batch[j].safe, m = k.batch[j].seq
        PROVE  SafeOK(lg, F, t, k.rev, m)
    <3>1. m < k.expected /\ k.expected <= Len(F) + 1
      BY <1>3, <2>2 DEF Observation, BatchOK
    <3>2. m <= Len(F) /\ \A s \in 1..m : s \in 1..(k.expected - 1)
      BY <1>1, <1>2, <1>5, <3>1
    <3>3. \A s \in 1..m : Written(F[s]) => Saved(lg, t, s, k.rev)
      BY <1>10, <1>13, <3>2
    <3>4. NoEmptyText => \A s \in 1..m : Saved(lg, t, s, k.rev)
      BY <1>3, <1>10, <2>2 DEF Observation
    <3> QED BY <3>2, <3>3, <3>4 DEF SafeOK, Continues
  <2> QED BY <2>1, <2>2
<1>17. RuntimeOK(lg, rm, y)
  BY <1>1, <1>7, <1>8, <1>9, <1>15, <1>16 DEF RuntimeOK, F
<1>18. Fits(lg, rm, r, y)
  BY <1>1, <1>7, <1>9, <1>17 DEF Fits, AttemptsOK
<1> QED BY <1>18 DEF y

\* A batch that could not be saved is lost to this observation, which then fails.
LEMMA LostFits ==
  ASSUME IInv, NEW r \in Runtimes, NEW k, Fits(log, remote, r, k), k.pc = "observe", k.turn # None
  PROVE  Fits(log, remote, r, [k EXCEPT !.batch = <<>>, !.failed = TRUE])
<1> DEFINE y == [k EXCEPT !.batch = <<>>, !.failed = TRUE]
           F == remote[k.turn].frames
<1>1. k \in Runtime /\ RuntimeOK(log, remote, k) /\ AttemptsOK(r, k)
  BY DEF Fits
<1>2. Observation(log, F, k)
  BY <1>1 DEF RuntimeOK
<1>3. <<>> \in Seq([seq : Nat, safe : BOOLEAN]) /\ Len(<<>>) = 0
  BY EmptySeq
<1>4. y \in Runtime /\ y.pc = k.pc /\ y.turn = k.turn /\ y.rev = k.rev
  BY <1>1, <1>3 DEF Runtime
<1>5. y.safe = k.safe /\ y.base = k.base /\ y.expected = k.expected /\ y.batch = <<>>
  BY <1>1 DEF Runtime
<1>6. y.terminal = k.terminal /\ y.told = k.told /\ y.attempt = k.attempt /\ y.failed
  BY <1>1 DEF Runtime
<1> HIDE DEF y, F
<1>7. \A j \in 1..Len(y.batch) : FALSE
  BY <1>3, <1>5
<1>8. BatchOK(F, y) /\ Complete(log, F, y)
  BY <1>5, <1>6, <1>7 DEF BatchOK, Complete
<1>9. Observation(log, F, y)
  BY <1>2, <1>4, <1>5, <1>6, <1>7, <1>8 DEF Observation
<1>10. RuntimeOK(log, remote, y)
  BY <1>1, <1>4, <1>5, <1>6, <1>9 DEF RuntimeOK, F
<1>11. Fits(log, remote, r, y)
  BY <1>1, <1>4, <1>6, <1>10 DEF Fits, AttemptsOK
<1> QED BY <1>11 DEF y

LEMMA SaveFramesKeeps ==
  ASSUME IInv, NEW r \in Runtimes, SaveFrames(r)
  PROVE  IInv'
<1> DEFINE k == runtime[r]
           t == k.turn
           F == remote[t].frames
           safe == {k.batch[i].seq : i \in {j \in DOMAIN k.batch : k.batch[j].safe}}
           m == IF safe = {} THEN k.safe ELSE Max(safe)
           next == [k EXCEPT !.batch = <<>>, !.safe = m]
           thrown == [k EXCEPT !.batch = <<>>, !.failed = TRUE]
<1>1. /\ k \in Runtime /\ Fits(log, remote, r, k) /\ t \in Turns /\ t # None /\ k.pc = "observe"
      /\ k.batch # <<>> /\ Len(log) \in Nat /\ k.rev \in Nat /\ k.rev <= Len(log) /\ k.safe \in Nat
  BY RuntimeIs, NoneAssumption DEF SaveFrames
<1>2. log \in Seq(Event) /\ remote \in [Turns -> Remote]
  BY DEF IInv, Typed
<1>3. PICK at \in InOrder(Fresh(k)) : Persist(r, FrameDrafts(r, at), next, thrown)
  BY DEF SaveFrames
<1>4. UNCHANGED remote
  BY DEF SaveFrames
<1>5. /\ DOMAIN k.batch = 1..Len(k.batch) /\ k.expected \in Nat
      /\ \A j \in 1..Len(k.batch) : k.batch[j].seq \in Nat
  <2>1. k.batch \in Seq([seq : Nat, safe : BOOLEAN]) /\ k.expected \in Nat
    BY <1>1 DEF Runtime
  <2>2. \A j \in 1..Len(k.batch) : k.batch[j] \in [seq : Nat, safe : BOOLEAN]
    BY <2>1, ElementOfSeq
  <2> QED BY <2>1, <2>2, LenProperties
<1>6. Observation(log, F, k)
  BY <1>1 DEF Fits, RuntimeOK
<1>7. \A j \in 1..Len(k.batch) : k.batch[j].seq < k.expected /\ Written(F[k.batch[j].seq])
  BY <1>6 DEF Observation, BatchOK
<1>8. m = k.safe \/ \E j \in 1..Len(k.batch) : k.batch[j].safe /\ m = k.batch[j].seq
  <2>1. CASE safe = {}
    BY <2>1
  <2>2. CASE safe # {}
    <3>1. safe \subseteq 0..k.expected
      BY <1>5, <1>7
    <3>2. Max(safe) \in safe
      <4> HIDE DEF safe
      <4> QED BY <1>5, <2>2, <3>1, Largest
    <3>3. m = Max(safe)
      BY <2>2
    <3> HIDE DEF m
    <3>4. m \in safe
      BY <3>2, <3>3
    <3> QED BY <1>5, <3>4
  <2> QED BY <2>1, <2>2
<1> HIDE DEF m, F
<1> DEFINE d == FrameDrafts(r, at)
<1>9. PICK c \in Nat :
        /\ DOMAIN at = 1..c /\ \A i \in 1..c : at[i] \in Fresh(k)
        /\ \A j \in Fresh(k) : \E i \in 1..c : at[i] = j
  BY <1>1, FreshIs
<1>10. d \in Seq(Event) /\ Len(d) = c
  <2>1. \A i \in 1..c : at[i] \in DOMAIN k.batch
    BY <1>9 DEF Fresh
  <2> QED BY <1>1, <1>9, <2>1, DraftsAre
<1> HIDE DEF d
<1>11. ASSUME d = <<>>
       PROVE  Fits(log, remote, r, next)
  <2>1. c = 0
    BY <1>10, <1>11, EmptySeq
  <2>2. Fresh(k) = {}
    BY <1>9, <2>1
  <2>3. \A j \in 1..Len(k.batch) : Saved(log, t, k.batch[j].seq, k.rev)
    <3> SUFFICES ASSUME NEW j \in 1..Len(k.batch)
                 PROVE  Saved(log, t, k.batch[j].seq, k.rev)
      OBVIOUS
    <3>1. k.batch[j].seq \in FrameKeys(Prefix(k), t)
      BY <1>5, <2>2 DEF Fresh
    <3>2. F[k.batch[j].seq] \notin Terminals
      BY <1>7 DEF Written, Terminals
    <3> QED BY <1>1, <3>1, <3>2, KeysAre DEF F
  <2> QED BY <1>1, <1>2, <1>8, <2>3, SavesFits
<1>12. ASSUME k.rev = Len(log)
       PROVE  /\ EventsOK(log \o d, remote)
              /\ Fits(log \o d, remote, r,
                      [next EXCEPT !.rev = Len(log) + Len(d), !.retries = 0,
                                   !.safe = Max({next.safe, SafeSequence(d, t)})])
  <2> DEFINE lg == log \o d
             x == [k EXCEPT !.rev = Len(lg)]
             y == [x EXCEPT !.batch = <<>>, !.safe = m]
             n == Len(log) + Len(d)
             v == Max({m, SafeSequence(d, t)})
  <2>1. EventsOK(lg, remote) /\ \A j \in 1..Len(k.batch) : Saved(lg, t, k.batch[j].seq, Len(lg))
    BY <1>1, <1>12, DraftsOK DEF d
  <2>2. /\ lg \in Seq(Event) /\ Len(lg) = n /\ n \in Nat /\ Len(log) <= Len(lg)
        /\ \A i \in 1..Len(log) : lg[i] = log[i]
    <3>1. /\ lg \in Seq(Event) /\ Len(log) \in Nat /\ Len(d) \in Nat
          /\ Len(lg) = Len(log) + Len(d) /\ Len(log) <= Len(lg)
      BY <1>2, <1>10, JoinedIs
    <3>2. \A i \in 1..Len(log) : lg[i] = log[i]
      BY <1>2, <1>10, JoinedIs
    <3> HIDE DEF lg
    <3> QED BY <3>1, <3>2
  <2> HIDE DEF lg
  <2>3. Fits(lg, remote, r, k)
    BY <1>1, <1>2, <2>2, RuntimeKept DEF Fits
  <2>4. x \in Runtime /\ x.rev = Len(lg) /\ x.turn = t /\ x.pc = "observe"
    BY <1>1, <2>2 DEF Runtime
  <2>5. x.batch = k.batch /\ x.safe = k.safe
    BY <1>1 DEF Runtime
  <2>6. Same([k EXCEPT !.rev = x.rev, !.safe = x.safe], x)
    BY <1>1, <2>4, <2>5 DEF Runtime, Same
  <2>7. y = [x EXCEPT !.batch = <<>>, !.safe = m] /\ x = [k EXCEPT !.rev = Len(lg)]
    OBVIOUS
  <2> HIDE DEF x
  <2>8. Fits(lg, remote, r, x)
    <3>1. SafeOK(lg, remote[t].frames, t, k.rev, k.safe)
      BY <1>1, <2>3 DEF Fits, RuntimeOK
    <3>2. SafeOK(lg, remote[t].frames, t, Len(lg), k.safe)
      BY <1>1, <1>12, <2>2, <3>1, SafeAdvances
    <3>3. k.rev <= x.rev /\ x.rev <= Len(lg)
      BY <1>12, <2>2, <2>4
    <3>4. x.turn # None => SafeOK(lg, remote[x.turn].frames, x.turn, x.rev, x.safe)
      BY <2>4, <2>5, <3>2
    <3> QED BY <1>1, <2>2, <2>3, <2>4, <2>6, <3>3, <3>4, AdvanceFits
  <2>9. Fits(lg, remote, r, y)
    <3>1. \A j \in 1..Len(x.batch) : Saved(lg, x.turn, x.batch[j].seq, x.rev)
      BY <2>1, <2>4, <2>5
    <3>2. m = x.safe \/ \E j \in 1..Len(x.batch) : x.batch[j].safe /\ m = x.batch[j].seq
      BY <1>8, <2>5
    <3>3. x.turn # None /\ x.batch # <<>>
      BY <1>1, <2>4, <2>5
    <3> QED BY <1>2, <2>4, <2>8, <3>1, <3>2, <3>3, SavesFits
  <2>10. y.turn = t /\ y.safe = m
    BY <2>4 DEF Runtime
  <2> HIDE DEF y
  <2>11. Fits(lg, remote, r, [y EXCEPT !.rev = Len(log) + Len(d), !.retries = 0,
                                       !.safe = Max({y.safe, SafeSequence(d, t)})])
    BY <1>1, <1>10, <2>1, <2>9, <2>10, SavedFits DEF lg
  <2>12. Fits(lg, remote, r, [y EXCEPT !.rev = n, !.retries = 0, !.safe = v])
    BY <2>10, <2>11
  <2>13. next.safe = m
    BY <1>1 DEF Runtime
  <2> HIDE DEF n, v
  <2>14. [y EXCEPT !.rev = n, !.retries = 0, !.safe = v]
           = [next EXCEPT !.rev = n, !.retries = 0, !.safe = v]
    BY <1>1, <2>7 DEF Runtime
  <2> HIDE DEF next
  <2>15. Fits(lg, remote, r, [next EXCEPT !.rev = n, !.retries = 0, !.safe = v])
    BY <2>12, <2>14
  <2> QED BY <2>1, <2>13, <2>15 DEF lg, n, v
<1>13. Fits(log, remote, r, thrown)
  BY <1>1, LostFits
<1>14. Persist(r, d, next, thrown)
  BY <1>3 DEF d
<1> HIDE DEF next, thrown
<1> QED BY <1>4, <1>10, <1>11, <1>12, <1>13, <1>14, PersistKeeps

-----------------------------------------------------------------------------
(* The invariant *)

LEMMA InitInvariant ==
  ASSUME Init
  PROVE  IInv
<1>1. log = <<>> /\ log \in Seq(Event) /\ Len(log) = 0
  BY EmptySeq DEF Init
<1>2. /\ remote \in [Turns -> Remote]
      /\ \A t \in Turns : remote[t].frames = <<>>
  <2>1. <<>> \in Seq(Kinds \cup Terminals)
    BY EmptySeq
  <2> QED BY <2>1 DEF Init, Remote
<1>3. RemoteOK(remote)
  BY <1>2, EmptySeq DEF RemoteOK
<1>4. EventsOK(log, remote)
  BY <1>1 DEF EventsOK
<1> DEFINE y == NewRuntime(0, 0)
<1>5. /\ y \in Runtime /\ y.pc = "idle" /\ y.turn = None /\ y.rev = 0 /\ y.told = None
      /\ y.attempt = 0
  BY NewRuntimeTyped
<1>6. runtime = [r \in Runtimes |-> y]
  BY DEF Init
<1> HIDE DEF y
<1>7. None \notin {"completed", "cancelled"}
  BY NoneAssumption DEF Terminals
<1>8. RuntimeOK(log, remote, y)
  BY <1>1, <1>5, <1>7 DEF RuntimeOK
<1>9. \A r \in Runtimes : runtime[r] = y /\ AttemptsOK(r, y)
  BY <1>5, <1>6, MaximumAttemptsTyped DEF AttemptsOK
<1>10. runtime \in [Runtimes -> Runtime] /\ faults \in Nat
  BY <1>5, <1>6 DEF Init
<1> QED BY <1>1, <1>2, <1>3, <1>4, <1>8, <1>9, <1>10 DEF IInv, Typed

LEMMA StutterKeeps ==
  ASSUME IInv, UNCHANGED vars
  PROVE  IInv'
<1>1. log' = log /\ remote' = remote /\ runtime' = runtime /\ faults' = faults
  BY DEF vars
<1> QED BY <1>1, Zenon DEF IInv, Typed

LEMMA NextKeeps ==
  ASSUME IInv, [Next]_vars
  PROVE  IInv'
<1>1. ASSUME NEW r \in Runtimes, Step(r)
      PROVE  IInv'
  <2>1. CASE Admit(r) \/ Attempt(r) \/ Call(r) \/ Bind(r) \/ Deliver(r) \/ SaveFrames(r)
    BY <2>1, AdmitKeeps, AttemptKeeps, CallKeeps, BindKeeps, DeliverKeeps, SaveFramesKeeps
  <2>2. CASE EndStream(r) \/ Conclude(r) \/ Wait(r) \/ Finish(r)
    BY <2>2, EndStreamKeeps, ConcludeKeeps, WaitKeeps, FinishKeeps
  <2>3. CASE Retry(r) \/ Exhausted(r) \/ Fail(r) \/ Settle(r)
    BY <2>3, RetryKeeps, ExhaustedKeeps, FailKeeps, SettleKeeps
  <2> QED BY <1>1, <2>1, <2>2, <2>3 DEF Step
<1>2. ASSUME NEW r \in Runtimes,
             CancelTurn(r) \/ CancelSend(r) \/ StopObserving(r) \/ Synchronize(r) \/ Crash(r)
      PROVE  IInv'
  BY <1>2, CancelTurnKeeps, CancelSendKeeps, StopObservingKeeps, SynchronizeKeeps, CrashKeeps
<1>3. ASSUME NEW r \in Runtimes, NEW t \in Turns, SendMessage(r, t) \/ ResumeTurn(r, t)
      PROVE  IInv'
  BY <1>3, SendMessageKeeps, ResumeTurnKeeps
<1>4. ASSUME NEW t \in Turns, Produce(t) \/ BindTurn(t) \/ Approve(t)
      PROVE  IInv'
  BY <1>4, ProduceKeeps, BindTurnKeeps, ApproveKeeps
<1>5. CASE UNCHANGED vars
  BY <1>5, StutterKeeps
<1> QED BY <1>1, <1>2, <1>3, <1>4, <1>5 DEF Next

-----------------------------------------------------------------------------
(* What the invariant says *)

LEMMA InvariantTyped ==
  ASSUME IInv
  PROVE  TypeOK
  BY DEF IInv, Typed, TypeOK, RuntimeOK, AttemptsOK

LEMMA InvariantTold ==
  ASSUME IInv
  PROVE  ToldIsCanonical
<1> SUFFICES ASSUME NEW r \in Runtimes, runtime[r].told \in {"completed", "cancelled"}
             PROVE  Canonical(log, runtime[r].turn) = runtime[r].told
  BY DEF ToldIsCanonical
<1> DEFINE k == runtime[r]
<1>1. /\ k.rev \in Nat /\ k.rev <= Len(log) /\ k.turn \in Turns \cup {None}
      /\ RuntimeOK(log, remote, k)
  BY RuntimeIs DEF Fits
<1> HIDE DEF k
<1>2. k.told \in {"completed", "cancelled"} /\ log \in Seq(Event)
  BY DEF k, IInv, Typed
<1>3. k.turn # None /\ Outcome(log, k.turn, k.told, k.rev)
  BY <1>1, <1>2 DEF RuntimeOK
<1>4. k.turn \in Turns /\ k.told \in Terminals
  BY <1>1, <1>2, <1>3 DEF Terminals
<1>5. Canonical(log, k.turn) = k.told
  BY <1>1, <1>2, <1>3, <1>4, OutcomeIsCanonical
<1> QED BY <1>5 DEF k

LEMMA InvariantReplay ==
  ASSUME IInv, NoEmptyText
  PROVE  ReplayIsKnown
<1> SUFFICES ASSUME NEW r \in Runtimes, runtime[r].pc = "observe",
                    Canonical(Prefix(runtime[r]), runtime[r].turn) = None,
                    NEW i \in 1..(runtime[r].expected - 1)
             PROVE  KnownFrame(runtime[r], i)
  BY DEF ReplayIsKnown
<1> DEFINE k == runtime[r]
           F == remote[k.turn].frames
<1>1. /\ k \in Runtime /\ Fits(log, remote, r, k) /\ k.turn \in Turns /\ k.turn # None
      /\ k.base \in Nat /\ k.expected \in Nat
  BY RuntimeIs, NoneAssumption DEF Runtime
<1>2. Continues(log, F, k.turn, k.rev, k.base - 1) /\ 1 <= k.base
  BY <1>1 DEF Fits, RuntimeOK, Observation
<1>3. \A j \in 1..k.rev : log[j].turn = k.turn => log[j].type \notin Terminals
  BY <1>1, PrefixCanonical
<1>4. \A s \in 1..(k.base - 1) : Saved(log, k.turn, s, k.rev)
  BY <1>2, <1>3 DEF Continues
<1>5. CASE k.base <= i
  BY <1>1, <1>5 DEF KnownFrame
<1>6. CASE i < k.base
  <2>1. i \in 1..(k.base - 1) /\ i > 0
    BY <1>1, <1>6
  <2>2. i \in FrameKeys(Prefix(k), k.turn)
    BY <1>1, <1>4, <2>1, KeysAre
  <2> QED BY <2>2 DEF KnownFrame
<1> QED BY <1>1, <1>5, <1>6

LEMMA InvariantWhole ==
  ASSUME IInv
  PROVE  ResponseIsWhole
<1>1. /\ log \in Seq(Event) /\ Len(log) \in Nat /\ DOMAIN log = 1..Len(log)
      /\ \A i \in 1..Len(log) : log[i] \in Event
  BY LenProperties, ElementOfSeq DEF IInv, Typed
<1>2. \A i \in 1..Len(log) : EventOK(log, remote, i)
  BY DEF IInv, EventsOK
<1> SUFFICES ASSUME NEW t \in Turns
             PROVE  LET frames == remote[t].frames
                        at == {i \in DOMAIN log : log[i].turn = t /\ log[i].type = "frame"} IN
                    /\ \A i \in at : \A s \in DOMAIN frames :
                         Written(frames[s]) =>
                           (s < log[i].seq <=> \E j \in at : j < i /\ log[j].seq = s)
                    /\ \A i, j \in at : {log[i].message, log[j].message} \subseteq Runtimes =>
                                          log[i].message = log[j].message
                    /\ Canonical(log, t) = "completed" =>
                         \A s \in DOMAIN frames : Written(frames[s]) =>
                           \E j \in at : j < Min(Terminal(log, t)) /\ log[j].seq = s
  BY DEF ResponseIsWhole
<1> DEFINE F == remote[t].frames
           at == {i \in DOMAIN log : log[i].turn = t /\ log[i].type = "frame"}
<1>3. Len(F) \in Nat /\ DOMAIN F = 1..Len(F)
  BY LenProperties DEF IInv, Typed, Remote
<1>4. \A i : i \in at <=> i \in 1..Len(log) /\ log[i].turn = t /\ log[i].type = "frame"
  BY <1>1
<1> HIDE DEF at
<1>5. ASSUME NEW n \in 1..Len(log), NEW s
      PROVE  Saved(log, t, s, n - 1) <=> \E j \in at : j < n /\ log[j].seq = s
  <2>1. \A j : j \in 1..(n - 1) <=> j \in 1..Len(log) /\ j < n
    BY <1>1
  <2> QED BY <1>4, <2>1 DEF Saved
<1>6. ASSUME NEW i \in at, NEW s \in DOMAIN F, Written(F[s])
      PROVE  s < log[i].seq <=> \E j \in at : j < i /\ log[j].seq = s
  <2>1. i \in 1..Len(log) /\ log[i].turn = t /\ log[i].type = "frame"
    BY <1>4, <1>6
  <2>2. s < log[i].seq <=> Saved(log, t, s, i - 1)
    BY <1>2, <1>3, <1>6, <2>1 DEF EventOK
  <2> QED BY <1>5, <2>1, <2>2
<1>7. ASSUME NEW i \in at, NEW j \in at, {log[i].message, log[j].message} \subseteq Runtimes
      PROVE  log[i].message = log[j].message
  <2>1. i \in 1..Len(log) /\ log[i].turn = t /\ j \in 1..Len(log) /\ log[j].turn = t
    BY <1>4, <1>7
  <2>2. log[i].message # None /\ log[j].message # None
    BY <1>7, NoneAssumption
  <2>3. i = j \/ i \in 1..(j - 1) \/ j \in 1..(i - 1)
    BY <1>1, <2>1
  <2>4. EventOK(log, remote, i) /\ EventOK(log, remote, j)
    BY <1>2, <2>1
  <2>5. i \in 1..(j - 1) => log[i].message = log[j].message
    BY <2>1, <2>2, <2>4 DEF EventOK
  <2>6. j \in 1..(i - 1) => log[j].message = log[i].message
    BY <2>1, <2>2, <2>4 DEF EventOK
  <2> QED BY <2>3, <2>5, <2>6
<1>8. ASSUME Canonical(log, t) = "completed", NEW s \in DOMAIN F, Written(F[s])
      PROVE  \E j \in at : j < Min(Terminal(log, t)) /\ log[j].seq = s
  <2> DEFINE m == Min(Terminal(log, t))
  <2>1. Terminal(log, t) # {}
    <3>1. "completed" # None
      BY NoneAssumption DEF Terminals
    <3> QED BY <1>8, <3>1 DEF Canonical
  <2>2. Terminal(log, t) \subseteq Nat
    BY <1>1 DEF Terminal
  <2>3. m \in Terminal(log, t)
    BY <2>1, <2>2, Smallest
  <2>4. log[m].type = "completed"
    BY <1>8, <2>1 DEF Canonical
  <2> HIDE DEF m
  <2>5. m \in 1..Len(log) /\ log[m].turn = t
    BY <1>1, <2>3 DEF Terminal
  <2>6. Saved(log, t, s, m - 1)
    BY <1>2, <1>3, <1>8, <2>4, <2>5 DEF EventOK
  <2>7. \E j \in at : j < m /\ log[j].seq = s
    BY <1>5, <2>5, <2>6
  <2> QED BY <2>7 DEF m
<1> QED BY <1>6, <1>7, <1>8 DEF at

-----------------------------------------------------------------------------
(* Theorems *)

\* Every reachable state satisfies the invariant.
THEOREM Invariance == Spec => []IInv
<1>1. Init => IInv
  BY InitInvariant
<1>2. IInv /\ [Next]_vars => IInv'
  BY NextKeeps
<1> QED BY <1>1, <1>2, PTL DEF Spec

\* Every variable stays within its type: no projection is ahead of the log
\* (persistGenerated(), catchUpRuntimeStore()) and no turn is attempted more often than
\* its retry policy says (executeWithRetry()).
THEOREM RuntimeTypes == Spec => []TypeOK
<1>1. IInv => TypeOK
  BY InvariantTyped
<1> QED BY <1>1, Invariance, PTL

\* Whatever runtimes write the frames that they observe, and whatever of it fails or is
\* made again, the log has a turn's frames once each, in order and without a gap, its
\* texts in one message, and all of them before a completion (acceptFrame(),
\* persistFrameDrafts(), and the end of observeTransport()).
THEOREM ResponsesAreWhole == Spec => []ResponseIsWhole
<1>1. IInv => ResponseIsWhole
  BY InvariantWhole
<1> QED BY <1>1, Invariance, PTL

\* A host that is told that its turn was completed or cancelled is told what the log
\* says, also by a runtime whose own append came too late
\* (refreshCanonicalTerminalResult()).
THEOREM TellingIsCanonical == Spec => []ToldIsCanonical
<1>1. IInv => ToldIsCanonical
  BY InvariantTold
<1> QED BY <1>1, Invariance, PTL

\* A transport that replays a turn from its start is understood while the turn runs, if
\* no text of the turn is empty: such a frame is written nowhere, and a runtime that
\* observes from behind it does not know it (acceptFrame(), durableFrameKeys).
THEOREM ReplaysAreKnown ==
  ASSUME NoEmptyText
  PROVE  Spec => []ReplayIsKnown
<1>1. IInv => ReplayIsKnown
  BY InvariantReplay
<1> QED BY <1>1, Invariance, PTL

-----------------------------------------------------------------------------
(* One active turn: what makes a turn the active one *)

\* A turn has no terminal event.
Going(lg, t) == \A i \in 1..Len(lg) : lg[i].turn = t => lg[i].type \notin Terminals

\* Its last status, if it has not ended, is the pause.
Resting(lg, t) ==
  \E i \in 1..Len(lg) :
    /\ lg[i].turn = t /\ lg[i].type = "waiting"
    /\ \A j \in (i + 1)..Len(lg) : lg[j].turn = t => ~Opening(lg[j])

Opened(lg, t) == \E i \in 1..Len(lg) : lg[i].turn = t /\ lg[i].type = "admitted"

\* Event j comes before any terminal of its turn.
Counts(lg, j) == \A m \in 1..(j - 1) : lg[m].turn = lg[j].turn => lg[m].type \notin Terminals

\* A turn is the active one.
Holds(lg, t) ==
  /\ Going(lg, t)
  /\ \E i \in 1..Len(lg) :
       /\ lg[i].turn = t /\ Opening(lg[i])
       /\ \A j \in (i + 1)..Len(lg) :
            /\ lg[j].turn = t => lg[j].type # "waiting"
            /\ Opening(lg[j]) /\ Counts(lg, j) => lg[j].turn = t

Free(lg) == \A u \in Turns : ~Holds(lg, u)

\* Drafts that leave one turn active.
Proper(lg, d) ==
  /\ \A i, j \in 1..Len(d) : d[i].turn = d[j].turn
  /\ Len(d) = 1 \/ \A i \in 1..Len(d) : d[i].type = "frame"
  /\ \A i \in 1..Len(d) : Opening(d[i]) =>
       \/ Len(d) = 1 /\ Free(lg)
       \/ d[i].type # "admitted" /\ (Holds(lg, d[i].turn) \/ ~Going(lg, d[i].turn))

\* Everything that is to be written of what a turn produced is in the log.
AllSaved(lg, rm, t) ==
  \A s \in 1..Len(rm[t].frames) : Written(rm[t].frames[s]) => Saved(lg, t, s, Len(lg))

\* A turn that waits for its approval produces nothing but its cancellation.
Stuck(rm, t) ==
  /\ PauseAfter[t] > 0 /\ ~rm[t].approved
  /\ Len(rm[t].frames) = PauseAfter[t] \/ Over(rm[t].frames, Len(rm[t].frames))

\* A runtime that may have to bind the turn it has sent.
Starts(lg, k) ==
  \/ k.pc = "bind"
  \/ k.pc \notin {"idle", "admit"}
     /\ ~\E i \in 1..k.rev : lg[i].turn = k.turn /\ lg[i].type = "bound"

\* A runtime that has seen the pause.
SeesPause(k) == k.pc = "wait" \/ (k.pc = "result" /\ k.result = "waiting" /\ ~k.failed)

Fine(lg, rm, r, k) ==
  /\ k.pc \notin {"idle", "admit"} => Opened(lg, k.turn)
  /\ k.pc = "admit" \/ Starts(lg, k) => r \in Senders
  /\ Starts(lg, k) /\ Going(lg, k.turn) => \A u \in Turns : Holds(lg, u) => u = k.turn
  /\ SeesPause(k) /\ ~rm[k.turn].approved => Stuck(rm, k.turn) /\ AllSaved(lg, rm, k.turn)

TurnOK(lg, rm, t) ==
  /\ rm[t].running => Opened(lg, t)
  /\ Opened(lg, t) /\ Going(lg, t) => Resting(lg, t) \/ Holds(lg, t)
  /\ Going(lg, t) /\ Resting(lg, t) => Stuck(rm, t) /\ AllSaved(lg, rm, t)

OneInv ==
  /\ \A t \in Turns : TurnOK(log, remote, t)
  /\ \A i \in 1..Len(log) : log[i].type = "bound" => Opened(log, log[i].turn)
  /\ \A r \in Runtimes : Fine(log, remote, r, runtime[r])

-----------------------------------------------------------------------------
(* What the reducer says of statuses *)

LEMMA GoingIs ==
  ASSUME NEW lg \in Seq(Event), NEW t \in Turns
  PROVE  Canonical(lg, t) = None <=> Going(lg, t)
  BY CanonicalIs DEF Going

LEMMA StatusIs ==
  ASSUME NEW lg \in Seq(Event), NEW i
  PROVE  i \in Statuses(lg) <=> /\ i \in 1..Len(lg) /\ Counts(lg, i)
                                /\ Opening(lg[i]) \/ lg[i].type = "waiting"
<1>1. Len(lg) \in Nat /\ DOMAIN lg = 1..Len(lg)
  BY LenProperties
<1> SUFFICES ASSUME i \in 1..Len(lg), Opening(lg[i]) \/ lg[i].type = "waiting"
             PROVE  (\A j \in Terminal(lg, lg[i].turn) : j > i) <=> Counts(lg, i)
  BY <1>1 DEF Statuses
<1>2. lg[i].type \notin Terminals
  BY DEF Opening, Terminals
<1>3. ASSUME Counts(lg, i), NEW j \in Terminal(lg, lg[i].turn)
      PROVE  j > i
  <2>1. j \in 1..Len(lg) /\ lg[j].turn = lg[i].turn /\ lg[j].type \in Terminals
    BY <1>1 DEF Terminal
  <2>2. ~(j < i) /\ j # i
    BY <1>1, <1>2, <1>3, <2>1 DEF Counts
  <2> QED BY <1>1, <2>1, <2>2
<1>4. ASSUME \A j \in Terminal(lg, lg[i].turn) : j > i, ~Counts(lg, i)
      PROVE  FALSE
  <2>1. PICK m \in 1..(i - 1) : lg[m].turn = lg[i].turn /\ lg[m].type \in Terminals
    BY <1>4 DEF Counts
  <2>2. m \in Terminal(lg, lg[i].turn)
    BY <1>1, <2>1 DEF Terminal
  <2> QED BY <1>1, <1>4, <2>1, <2>2
<1> QED BY <1>3, <1>4

LEMMA ActiveIs ==
  ASSUME NEW lg \in Seq(Event)
  PROVE  /\ Active(lg) \in Turns \cup {None}
         /\ \A t \in Turns : Active(lg) = t <=> Holds(lg, t)
<1>1. Len(lg) \in Nat /\ DOMAIN lg = 1..Len(lg) /\ \A i \in 1..Len(lg) : lg[i] \in Event
  BY LenProperties, ElementOfSeq
<1> DEFINE opened == {i \in Statuses(lg) : Opening(lg[i])}
           m == Max(opened)
           u == lg[m].turn
           rests == \E i \in Statuses(lg) : i > m /\ lg[i].turn = u /\ lg[i].type = "waiting"
<1>2. Active(lg) = IF opened = {} THEN None
                   ELSE IF Terminal(lg, u) # {} \/ rests THEN None ELSE u
  BY DEF Active
<1>3. opened \subseteq 0..Len(lg)
  BY <1>1, StatusIs
<1>4. opened # {} => m \in opened /\ \A x \in opened : m >= x
  <2> HIDE DEF opened
  <2> QED BY <1>1, <1>3, Largest
<1>5. \A i : i \in opened <=> i \in 1..Len(lg) /\ Counts(lg, i) /\ Opening(lg[i])
  BY StatusIs
<1>6. opened # {} => m \in 1..Len(lg) /\ u \in Turns
  <2>1. opened # {} => m \in 1..Len(lg)
    <3> HIDE DEF opened, m
    <3> QED BY <1>4, <1>5
  <2> HIDE DEF opened, m
  <2> QED BY <1>1, <2>1, EventTyped
<1>7. None \notin Turns
  BY NoneAssumption
<1>8. rests <=> \E i \in 1..Len(lg) : /\ Counts(lg, i) /\ i > m /\ lg[i].turn = u
                                      /\ lg[i].type = "waiting"
  <2> HIDE DEF m, u
  <2> QED BY StatusIs
<1> HIDE DEF opened, m, rests
<1>9. ASSUME NEW t \in Turns, Active(lg) = t
      PROVE  Holds(lg, t)
  <2>1. opened # {} /\ Terminal(lg, u) = {} /\ ~rests /\ u = t
    BY <1>2, <1>7, <1>9
  <2>2. Going(lg, t)
    BY <1>1, <2>1 DEF Going, Terminal
  <2>3. m \in 1..Len(lg) /\ lg[m].turn = t /\ Opening(lg[m])
    BY <1>4, <1>5, <2>1
  <2>4. ASSUME NEW j \in (m + 1)..Len(lg)
        PROVE  /\ lg[j].turn = t => lg[j].type # "waiting"
               /\ Opening(lg[j]) /\ Counts(lg, j) => lg[j].turn = t
    <3>1. j \in 1..Len(lg) /\ j > m
      BY <1>1, <2>3
    <3>2. lg[j].turn = t => Counts(lg, j)
      BY <1>1, <2>2, <3>1 DEF Going, Counts
    <3>3. ~(Opening(lg[j]) /\ Counts(lg, j))
      BY <1>1, <1>4, <1>5, <2>1, <2>3, <3>1
    <3> QED BY <1>8, <2>1, <3>1, <3>2, <3>3
  <2> QED BY <2>2, <2>3, <2>4 DEF Holds
<1>10. ASSUME NEW t \in Turns, Holds(lg, t)
       PROVE  Active(lg) = t
  <2>1. Going(lg, t)
    BY <1>10 DEF Holds
  <2>2. PICK i \in 1..Len(lg) :
          /\ lg[i].turn = t /\ Opening(lg[i])
          /\ \A j \in (i + 1)..Len(lg) :
               /\ lg[j].turn = t => lg[j].type # "waiting"
               /\ Opening(lg[j]) /\ Counts(lg, j) => lg[j].turn = t
    BY <1>10 DEF Holds
  <2>3. i \in opened
    BY <1>1, <1>5, <2>1, <2>2 DEF Going, Counts
  <2>4. m \in 1..Len(lg) /\ m >= i /\ Opening(lg[m]) /\ Counts(lg, m)
    BY <1>4, <1>5, <2>3
  <2>5. u = t
    BY <1>1, <2>2, <2>4
  <2>6. Terminal(lg, t) = {}
    BY <1>1, <2>1 DEF Going, Terminal
  <2>7. ~rests
    BY <1>1, <1>8, <2>2, <2>4, <2>5
  <2> QED BY <1>2, <2>3, <2>5, <2>6, <2>7
<1> QED BY <1>2, <1>6, <1>9, <1>10

LEMMA WaitingIs ==
  ASSUME NEW lg \in Seq(Event), NEW t \in Turns, Going(lg, t)
  PROVE  Waiting(lg, t) <=> Resting(lg, t)
<1>1. Len(lg) \in Nat
  BY LenProperties
<1> DEFINE own == {i \in Statuses(lg) : lg[i].turn = t}
           m == Max(own)
<1>2. Waiting(lg, t) <=> own # {} /\ lg[m].type = "waiting"
  BY DEF Waiting
<1>3. \A i : i \in own <=> /\ i \in 1..Len(lg) /\ lg[i].turn = t
                           /\ Opening(lg[i]) \/ lg[i].type = "waiting"
  <2> SUFFICES ASSUME NEW i \in 1..Len(lg), lg[i].turn = t
               PROVE  Counts(lg, i)
    BY StatusIs
  <2> QED BY <1>1 DEF Going, Counts
<1> HIDE DEF own
<1>4. own \subseteq 0..Len(lg)
  BY <1>1, <1>3
<1>5. own # {} => m \in own /\ \A x \in own : m >= x
  BY <1>1, <1>4, Largest
<1> HIDE DEF m
<1>6. ASSUME own # {}, lg[m].type = "waiting"
      PROVE  Resting(lg, t)
  <2>1. m \in 1..Len(lg) /\ lg[m].turn = t
    BY <1>3, <1>5, <1>6
  <2>2. \A j \in (m + 1)..Len(lg) : lg[j].turn = t => ~Opening(lg[j])
    BY <1>1, <1>3, <1>5, <1>6, <2>1
  <2> QED BY <1>6, <2>1, <2>2 DEF Resting
<1>7. ASSUME Resting(lg, t)
      PROVE  own # {} /\ lg[m].type = "waiting"
  <2>1. PICK i \in 1..Len(lg) : /\ lg[i].turn = t /\ lg[i].type = "waiting"
                                /\ \A j \in (i + 1)..Len(lg) : lg[j].turn = t => ~Opening(lg[j])
    BY <1>7 DEF Resting
  <2>2. i \in own
    BY <1>3, <2>1
  <2>3. m \in 1..Len(lg) /\ lg[m].turn = t /\ m >= i /\ (Opening(lg[m]) \/ lg[m].type = "waiting")
    BY <1>3, <1>5, <2>2
  <2> QED BY <1>1, <2>1, <2>2, <2>3
<1> QED BY <1>2, <1>6, <1>7

-----------------------------------------------------------------------------
(* What a longer log says *)

\* The log lg2 goes on from lg with the events d.
GoesOn(lg, d, lg2) ==
  /\ lg \in Seq(Event) /\ d \in Seq(Event) /\ lg2 \in Seq(Event)
  /\ Len(lg) \in Nat /\ Len(d) \in Nat /\ Len(lg2) = Len(lg) + Len(d)
  /\ \A i \in 1..Len(lg) : lg2[i] = lg[i]
  /\ \A i \in 1..Len(d) : lg2[Len(lg) + i] = d[i]

LEMMA AppendGoesOn ==
  ASSUME NEW lg \in Seq(Event), NEW d \in Seq(Event)
  PROVE  GoesOn(lg, d, lg \o d)
  BY LenProperties, ConcatProperties DEF GoesOn

\* Where an event of the longer log comes from.
LEMMA EventFrom ==
  ASSUME NEW lg, NEW d, NEW lg2, GoesOn(lg, d, lg2), NEW i \in 1..Len(lg2)
  PROVE  \/ i \in 1..Len(lg) /\ lg2[i] = lg[i]
         \/ i > Len(lg) /\ i - Len(lg) \in 1..Len(d) /\ lg2[i] = d[i - Len(lg)]
<1>1. Len(lg) \in Nat /\ Len(d) \in Nat /\ Len(lg2) = Len(lg) + Len(d)
  BY DEF GoesOn
<1>2. CASE i <= Len(lg)
  BY <1>1, <1>2 DEF GoesOn
<1>3. CASE i > Len(lg)
  <2> DEFINE n == i - Len(lg)
  <2>1. n \in 1..Len(d) /\ i = Len(lg) + n
    BY <1>1, <1>3
  <2> HIDE DEF n
  <2>2. lg2[i] = d[n]
    BY <2>1 DEF GoesOn
  <2> QED BY <1>3, <2>1, <2>2 DEF n
<1> QED BY <1>1, <1>2, <1>3

LEMMA GoingBack ==
  ASSUME NEW lg, NEW d, NEW lg2, GoesOn(lg, d, lg2), NEW t, Going(lg2, t)
  PROVE  Going(lg, t)
<1>1. \A i \in 1..Len(lg) : i \in 1..Len(lg2) /\ lg2[i] = lg[i]
  BY DEF GoesOn
<1> QED BY <1>1 DEF Going

LEMMA GoingKept ==
  ASSUME NEW lg, NEW d, NEW lg2, GoesOn(lg, d, lg2), NEW t, Going(lg, t),
         \A i \in 1..Len(d) : d[i].turn = t => d[i].type \notin Terminals
  PROVE  Going(lg2, t)
<1> SUFFICES ASSUME NEW i \in 1..Len(lg2), lg2[i].turn = t
             PROVE  lg2[i].type \notin Terminals
  BY DEF Going
<1> QED BY EventFrom DEF Going

LEMMA OpenedKept ==
  ASSUME NEW lg, NEW d, NEW lg2, GoesOn(lg, d, lg2), NEW t, Opened(lg, t)
  PROVE  Opened(lg2, t)
<1>1. \A i \in 1..Len(lg) : i \in 1..Len(lg2) /\ lg2[i] = lg[i]
  BY DEF GoesOn
<1> QED BY <1>1 DEF Opened

LEMMA OpenedBack ==
  ASSUME NEW lg, NEW d, NEW lg2, GoesOn(lg, d, lg2), NEW t, Opened(lg2, t)
  PROVE  Opened(lg, t) \/ \E i \in 1..Len(d) : d[i].turn = t /\ d[i].type = "admitted"
<1>1. PICK i \in 1..Len(lg2) : lg2[i].turn = t /\ lg2[i].type = "admitted"
  BY DEF Opened
<1> QED BY <1>1, EventFrom DEF Opened

LEMMA RestingKept ==
  ASSUME NEW lg, NEW d, NEW lg2, GoesOn(lg, d, lg2), NEW t, Resting(lg, t),
         \A i \in 1..Len(d) : d[i].turn = t => ~Opening(d[i])
  PROVE  Resting(lg2, t)
<1>1. PICK i \in 1..Len(lg) : /\ lg[i].turn = t /\ lg[i].type = "waiting"
                              /\ \A j \in (i + 1)..Len(lg) : lg[j].turn = t => ~Opening(lg[j])
  BY DEF Resting
<1>2. i \in 1..Len(lg2) /\ lg2[i] = lg[i]
  BY DEF GoesOn
<1>3. ASSUME NEW j \in (i + 1)..Len(lg2), lg2[j].turn = t
      PROVE  ~Opening(lg2[j])
  <2>1. j \in 1..Len(lg2) /\ (j \in 1..Len(lg) => j \in (i + 1)..Len(lg))
    BY <1>2 DEF GoesOn
  <2> QED BY <1>1, <1>3, <2>1, EventFrom
<1> QED BY <1>1, <1>2, <1>3 DEF Resting

LEMMA RestingBack ==
  ASSUME NEW lg, NEW d, NEW lg2, GoesOn(lg, d, lg2), NEW t, Resting(lg2, t)
  PROVE  \/ \E i \in 1..Len(d) : d[i].turn = t /\ d[i].type = "waiting"
         \/ Resting(lg, t) /\ \A i \in 1..Len(d) : d[i].turn = t => ~Opening(d[i])
<1>1. PICK i \in 1..Len(lg2) : /\ lg2[i].turn = t /\ lg2[i].type = "waiting"
                               /\ \A j \in (i + 1)..Len(lg2) : lg2[j].turn = t => ~Opening(lg2[j])
  BY DEF Resting
<1>2. CASE i \in 1..Len(lg) /\ lg2[i] = lg[i]
  <2>1. \A j \in (i + 1)..Len(lg) : j \in (i + 1)..Len(lg2) /\ lg2[j] = lg[j]
    BY <1>2 DEF GoesOn
  <2>2. \A j \in 1..Len(d) : Len(lg) + j \in (i + 1)..Len(lg2) /\ lg2[Len(lg) + j] = d[j]
    BY <1>2 DEF GoesOn
  <2> QED BY <1>1, <1>2, <2>1, <2>2 DEF Resting
<1> QED BY <1>1, <1>2, EventFrom

-----------------------------------------------------------------------------
(* The active turn of a longer log *)

\* Only one turn is active.
LEMMA HoldsOnce ==
  ASSUME NEW lg \in Seq(Event), NEW t \in Turns, NEW u \in Turns, Holds(lg, t), Holds(lg, u)
  PROVE  t = u
  BY ActiveIs

LEMMA FreeIs ==
  ASSUME NEW lg \in Seq(Event)
  PROVE  Free(lg) <=> Active(lg) = None
  BY ActiveIs, NoneAssumption DEF Free

LEMMA CountsSame ==
  ASSUME NEW lg, NEW lg2, NEW j \in Nat \ {0}, \A i \in 1..j : lg2[i] = lg[i]
  PROVE  Counts(lg2, j) <=> Counts(lg, j)
  BY DEF Counts

LEMMA HoldsKept ==
  ASSUME NEW lg, NEW d, NEW lg2, GoesOn(lg, d, lg2), NEW t, Holds(lg, t), Going(lg2, t),
         \A i \in 1..Len(d) :
           /\ d[i].turn = t => d[i].type # "waiting"
           /\ Opening(d[i]) => d[i].turn = t \/ ~Going(lg, d[i].turn)
  PROVE  Holds(lg2, t)
<1>1. /\ Len(lg) \in Nat /\ Len(d) \in Nat /\ Len(lg2) = Len(lg) + Len(d)
      /\ \A i \in 1..Len(lg) : lg2[i] = lg[i]
  BY DEF GoesOn
<1>2. PICK i \in 1..Len(lg) :
        /\ lg[i].turn = t /\ Opening(lg[i])
        /\ \A j \in (i + 1)..Len(lg) :
             /\ lg[j].turn = t => lg[j].type # "waiting"
             /\ Opening(lg[j]) /\ Counts(lg, j) => lg[j].turn = t
  BY DEF Holds
<1>3. i \in 1..Len(lg2) /\ lg2[i] = lg[i]
  BY <1>1
<1>4. ASSUME NEW j \in (i + 1)..Len(lg2)
      PROVE  /\ lg2[j].turn = t => lg2[j].type # "waiting"
             /\ Opening(lg2[j]) /\ Counts(lg2, j) => lg2[j].turn = t
  <2>1. j \in 1..Len(lg2)
    BY <1>1
  <2>2. CASE j \in 1..Len(lg) /\ lg2[j] = lg[j]
    <3>1. j \in Nat \ {0} /\ j \in (i + 1)..Len(lg) /\ \A m \in 1..j : lg2[m] = lg[m]
      BY <1>1, <2>2
    <3>2. Counts(lg2, j) <=> Counts(lg, j)
      BY <3>1, CountsSame
    <3> QED BY <1>2, <2>2, <3>1, <3>2
  <2>3. CASE j > Len(lg) /\ j - Len(lg) \in 1..Len(d) /\ lg2[j] = d[j - Len(lg)]
    <3> DEFINE e == d[j - Len(lg)]
    <3>1. /\ e.turn = t => e.type # "waiting"
          /\ Opening(e) => e.turn = t \/ ~Going(lg, e.turn)
      BY <2>3
    <3> HIDE DEF e
    <3>2. ASSUME ~Going(lg, e.turn)
          PROVE  ~Counts(lg2, j)
      <4>1. PICK m \in 1..Len(lg) : lg[m].turn = e.turn /\ lg[m].type \in Terminals
        BY <3>2 DEF Going
      <4>2. m \in 1..(j - 1) /\ lg2[m] = lg[m] /\ lg2[j].turn = e.turn
        BY <1>1, <2>1, <2>3 DEF e
      <4> QED BY <4>1, <4>2 DEF Counts
    <3> QED BY <2>3, <3>1, <3>2 DEF e
  <2> QED BY <2>1, <2>2, <2>3, EventFrom
<1> QED BY <1>2, <1>3, <1>4 DEF Holds

\* A turn becomes active by an event of its own.
LEMMA HoldsBack ==
  ASSUME NEW lg, NEW d, NEW lg2, GoesOn(lg, d, lg2), NEW t, Holds(lg2, t)
  PROVE  Holds(lg, t) \/ \E i \in 1..Len(d) : Opening(d[i]) /\ d[i].turn = t
<1>1. /\ Len(lg) \in Nat /\ Len(d) \in Nat /\ Len(lg2) = Len(lg) + Len(d)
      /\ \A i \in 1..Len(lg) : lg2[i] = lg[i]
  BY DEF GoesOn
<1>2. PICK i \in 1..Len(lg2) :
        /\ lg2[i].turn = t /\ Opening(lg2[i])
        /\ \A j \in (i + 1)..Len(lg2) :
             /\ lg2[j].turn = t => lg2[j].type # "waiting"
             /\ Opening(lg2[j]) /\ Counts(lg2, j) => lg2[j].turn = t
  BY DEF Holds
<1>3. CASE i \in 1..Len(lg) /\ lg2[i] = lg[i]
  <2>1. Going(lg, t)
    BY GoingBack DEF Holds
  <2>2. ASSUME NEW j \in (i + 1)..Len(lg)
        PROVE  /\ lg[j].turn = t => lg[j].type # "waiting"
               /\ Opening(lg[j]) /\ Counts(lg, j) => lg[j].turn = t
    <3>1. /\ j \in Nat \ {0} /\ j \in (i + 1)..Len(lg2) /\ lg2[j] = lg[j]
          /\ \A m \in 1..j : lg2[m] = lg[m]
      BY <1>1, <1>3
    <3>2. Counts(lg2, j) <=> Counts(lg, j)
      BY <3>1, CountsSame
    <3> QED BY <1>2, <3>1, <3>2
  <2> QED BY <1>2, <1>3, <2>1, <2>2 DEF Holds
<1> QED BY <1>2, <1>3, EventFrom

LEMMA HoldsNew ==
  ASSUME NEW lg, NEW d, NEW lg2, GoesOn(lg, d, lg2), Len(d) = 1, Opening(d[1]), Going(lg, d[1].turn)
  PROVE  Holds(lg2, d[1].turn)
<1>1. Len(lg) \in Nat /\ Len(lg2) = Len(lg) + 1 /\ lg2[Len(lg2)] = d[1]
  BY DEF GoesOn
<1>2. \A i \in 1..Len(d) : d[i].type \notin Terminals
  BY DEF Opening, Terminals
<1>3. Going(lg2, d[1].turn)
  BY <1>2, GoingKept
<1>4. Len(lg2) \in 1..Len(lg2) /\ \A j \in (Len(lg2) + 1)..Len(lg2) : FALSE
  BY <1>1
<1> QED BY <1>1, <1>3, <1>4 DEF Holds

\* Proper drafts leave a turn that has not ended waiting or active.
LEMMA ProperKeepsOne ==
  ASSUME NEW lg, NEW d, NEW lg2, GoesOn(lg, d, lg2), Proper(lg, d),
         \A t \in Turns : Opened(lg, t) /\ Going(lg, t) => Resting(lg, t) \/ Holds(lg, t),
         NEW t \in Turns, Opened(lg2, t), Going(lg2, t)
  PROVE  Resting(lg2, t) \/ Holds(lg2, t)
<1>1. /\ lg \in Seq(Event) /\ d \in Seq(Event) /\ Len(lg) \in Nat /\ Len(d) \in Nat
      /\ \A i \in 1..Len(d) : d[i] \in Event
  BY ElementOfSeq DEF GoesOn
<1>2. Going(lg, t)
  BY GoingBack
<1>3. CASE \E i \in 1..Len(d) : Opening(d[i]) /\ d[i].turn = t
  <2>1. PICK i \in 1..Len(d) : Opening(d[i]) /\ d[i].turn = t
    BY <1>3
  <2>2. CASE Len(d) = 1 /\ Free(lg)
    <3>1. i = 1
      BY <2>1, <2>2
    <3> QED BY <1>2, <2>1, <2>2, <3>1, HoldsNew
  <2>3. CASE Holds(lg, t)
    <3>1. d[i].type # "waiting"
      BY <2>1 DEF Opening
    <3>2. \A j \in 1..Len(d) : d[j].turn = t /\ d[j].type # "waiting"
      BY <2>1, <3>1 DEF Proper
    <3> QED BY <2>3, <3>2, HoldsKept
  <2> QED BY <1>2, <2>1, <2>2, <2>3 DEF Proper
<1>4. CASE ~\E i \in 1..Len(d) : Opening(d[i]) /\ d[i].turn = t
  <2>1. Opened(lg, t)
    BY <1>4, OpenedBack DEF Opening
  <2>2. CASE Resting(lg, t)
    BY <1>4, <2>2, RestingKept
  <2>3. CASE Holds(lg, t) /\ \E i \in 1..Len(d) : d[i].turn = t /\ d[i].type = "waiting"
    <3>1. Len(d) = 1 /\ d[1].turn = t /\ d[1].type = "waiting"
      BY <2>3 DEF Proper
    <3>2. Len(lg2) \in 1..Len(lg2) /\ lg2[Len(lg2)] = d[1] /\ \A j \in (Len(lg2) + 1)..Len(lg2) : FALSE
      BY <3>1 DEF GoesOn
    <3> QED BY <3>1, <3>2 DEF Resting
  <2>4. CASE Holds(lg, t) /\ ~\E i \in 1..Len(d) : d[i].turn = t /\ d[i].type = "waiting"
    <3>1. ASSUME NEW i \in 1..Len(d), Opening(d[i])
          PROVE  ~Going(lg, d[i].turn)
      <4>1. d[i].turn \in Turns /\ d[i].turn # t
        BY <1>1, <1>4, <3>1, EventTyped
      <4>2. ~Free(lg) /\ ~Holds(lg, d[i].turn)
        BY <1>1, <2>4, <4>1, HoldsOnce DEF Free
      <4> QED BY <3>1, <4>2 DEF Proper
    <3> QED BY <2>4, <3>1, HoldsKept
  <2> QED BY <1>2, <2>1, <2>2, <2>3, <2>4
<1> QED BY <1>3, <1>4

\* Proper drafts open no turn while another one is active.
LEMMA ProperIsOne ==
  ASSUME NEW lg, NEW d, NEW lg2, GoesOn(lg, d, lg2), Proper(lg, d),
         NEW i \in (Len(lg) + 1)..Len(lg2), Opening(lg2[i])
  PROVE  LET before == SubSeq(lg2, 1, i - 1) IN
         \/ Active(before) = None
         \/ lg2[i].type # "admitted" /\ (Active(before) = lg2[i].turn
                                         \/ Canonical(before, lg2[i].turn) # None)
<1>1. /\ lg \in Seq(Event) /\ d \in Seq(Event) /\ lg2 \in Seq(Event)
      /\ Len(lg) \in Nat /\ Len(d) \in Nat /\ Len(lg2) = Len(lg) + Len(d)
      /\ \A j \in 1..Len(d) : d[j] \in Event
  BY ElementOfSeq DEF GoesOn
<1> DEFINE n == i - Len(lg)
           part == SubSeq(d, 1, n - 1)
           before == SubSeq(lg2, 1, i - 1)
<1>2. n \in 1..Len(d) /\ lg2[i] = d[n] /\ n - 1 \in Nat /\ i - 1 \in Nat /\ i - 1 = Len(lg) + (n - 1)
  <2>1. i \in 1..Len(lg2) /\ ~(i \in 1..Len(lg))
    BY <1>1
  <2>2. n \in 1..Len(d) /\ lg2[i] = d[n]
    BY <2>1, EventFrom
  <2>3. i = Len(lg) + n
    BY <1>1
  <2> HIDE DEF n
  <2> QED BY <1>1, <2>2, <2>3
<1> HIDE DEF n
<1>3. /\ part \in Seq(Event) /\ Len(part) = n - 1
      /\ \A j \in 1..(n - 1) : j \in 1..Len(d) /\ part[j] = d[j]
  <2>1. \A j \in 1..(n - 1) : d[j] \in Event
    BY <1>1, <1>2
  <2> QED BY <1>1, <1>2, <2>1, SubSeqProperties
<1>4. /\ before \in Seq(Event) /\ Len(before) = i - 1
      /\ \A j \in 1..(i - 1) : before[j] = lg2[j]
  <2>1. \A j \in 1..(i - 1) : lg2[j] \in Event
    BY <1>1, <1>2, ElementOfSeq
  <2> QED BY <1>1, <1>2, <2>1, SubSeqProperties
<1> HIDE DEF part, before
<1>5. GoesOn(lg, part, before)
  <2>1. \A j \in 1..Len(lg) : before[j] = lg[j]
    BY <1>1, <1>2, <1>4 DEF GoesOn
  <2>2. \A j \in 1..Len(part) : before[Len(lg) + j] = part[j]
    <3> SUFFICES ASSUME NEW j \in 1..Len(part)
                 PROVE  before[Len(lg) + j] = part[j]
      OBVIOUS
    <3>1. Len(lg) + j \in 1..(i - 1) /\ j \in 1..Len(d) /\ part[j] = d[j]
      BY <1>1, <1>2, <1>3
    <3>2. lg2[Len(lg) + j] = d[j]
      BY <3>1 DEF GoesOn
    <3> QED BY <1>4, <3>1, <3>2
  <2> QED BY <1>1, <1>2, <1>3, <1>4, <2>1, <2>2 DEF GoesOn
<1> DEFINE t == d[n].turn
<1>6. t \in Turns /\ lg2[i].turn = t /\ Opening(d[n])
  BY <1>1, <1>2, EventTyped
<1>7. CASE Len(d) = 1 /\ Free(lg)
  <2>1. n = 1
    BY <1>2, <1>7
  <2>2. \A u \in Turns : ~Holds(before, u)
    BY <1>3, <1>5, <1>7, <2>1, HoldsBack DEF Free
  <2> QED BY <1>4, <2>2, FreeIs DEF Free, before
<1>8. CASE d[n].type # "admitted" /\ Holds(lg, t)
  <2>1. CASE Going(before, t)
    <3>1. \A j \in 1..Len(part) : part[j].turn = t /\ part[j].type # "waiting"
      <4>1. ASSUME NEW j \in 1..Len(part) PROVE Len(d) # 1
        BY <1>1, <1>2, <1>3, <4>1
      <4>2. \A j \in 1..Len(part) : d[j].turn = t
        BY <1>2, <1>3 DEF Proper
      <4> QED BY <1>3, <4>1, <4>2 DEF Proper
    <3>2. Holds(before, t)
      BY <1>5, <1>8, <2>1, <3>1, HoldsKept
    <3>3. Active(before) = t
      BY <1>4, <1>6, <3>2, ActiveIs
    <3> QED BY <1>2, <1>6, <1>8, <3>3 DEF before
  <2>2. CASE ~Going(before, t)
    <3>1. Canonical(before, t) # None
      BY <1>4, <1>6, <2>2, GoingIs
    <3> QED BY <1>2, <1>6, <1>8, <3>1 DEF before
  <2> QED BY <2>1, <2>2
<1>9. CASE d[n].type # "admitted" /\ ~Going(lg, t)
  <2>1. ~Going(before, t)
    BY <1>5, <1>9, GoingBack
  <2>2. Canonical(before, t) # None
    BY <1>4, <1>6, <2>1, GoingIs
  <2> QED BY <1>2, <1>6, <1>9, <2>2 DEF before
<1> QED BY <1>2, <1>6, <1>7, <1>8, <1>9 DEF Proper

-----------------------------------------------------------------------------
(* What a step keeps *)

\* A turn stays as it was approved or not, and as long as it waits for its approval it
\* produces nothing that is to be written.
Still(rm, rm2, t) ==
  /\ rm2[t].approved = rm[t].approved
  /\ Stuck(rm, t) =>
       /\ Stuck(rm2, t)
       /\ \A s \in 1..Len(rm2[t].frames) : Written(rm2[t].frames[s]) =>
            s \in 1..Len(rm[t].frames) /\ rm2[t].frames[s] = rm[t].frames[s]

LEMMA SameIsStill ==
  ASSUME NEW rm, NEW rm2, NEW t, rm2[t].approved = rm[t].approved, rm2[t].frames = rm[t].frames
  PROVE  Still(rm, rm2, t)
  BY DEF Still, Stuck

LEMMA AllSavedKept ==
  ASSUME NEW lg, NEW d, NEW lg2, GoesOn(lg, d, lg2), NEW rm, NEW rm2, NEW t,
         Still(rm, rm2, t), Stuck(rm, t), AllSaved(lg, rm, t)
  PROVE  Stuck(rm2, t) /\ AllSaved(lg2, rm2, t)
<1>1. /\ Len(lg) \in Nat /\ Len(lg2) \in Nat /\ Len(lg) <= Len(lg2)
      /\ \A i \in 1..Len(lg) : lg2[i] = lg[i]
  BY DEF GoesOn
<1>2. \A s : Saved(lg, t, s, Len(lg)) => Saved(lg2, t, s, Len(lg2))
  BY <1>1, SavedKept
<1> QED BY <1>2 DEF Still, AllSaved

\* The new events open no turn that a runtime would have to wait for.
Undisturbed(lg, d, k) ==
  Starts(lg, k) /\ Going(lg, k.turn) =>
    \A i \in 1..Len(d) :
      Opening(d[i]) => Holds(lg, d[i].turn) \/ ~Going(lg, d[i].turn) \/ d[i].turn = k.turn

LEMMA StartsSame ==
  ASSUME NEW lg, NEW d, NEW lg2, GoesOn(lg, d, lg2), NEW k, k.rev \in Nat, k.rev <= Len(lg)
  PROVE  Starts(lg2, k) <=> Starts(lg, k)
<1>1. \A i \in 1..k.rev : lg2[i] = lg[i]
  BY DEF GoesOn
<1> QED BY <1>1 DEF Starts

LEMMA FineKept ==
  ASSUME NEW lg, NEW d, NEW lg2, GoesOn(lg, d, lg2), NEW rm, NEW rm2, NEW r, NEW k,
         k.rev \in Nat, k.rev <= Len(lg), k.pc # "idle" => k.turn \in Turns,
         k.turn \in Turns => Still(rm, rm2, k.turn) \/ rm2[k.turn].approved,
         Undisturbed(lg, d, k), Fine(lg, rm, r, k)
  PROVE  Fine(lg2, rm2, r, k)
<1>1. Starts(lg2, k) <=> Starts(lg, k)
  BY StartsSame
<1>2. k.pc \notin {"idle", "admit"} => Opened(lg2, k.turn)
  BY OpenedKept DEF Fine
<1>3. k.pc = "admit" \/ Starts(lg2, k) => r \in Senders
  BY <1>1 DEF Fine
<1>4. ASSUME Starts(lg2, k), Going(lg2, k.turn), NEW u \in Turns, Holds(lg2, u)
      PROVE  u = k.turn
  <2>1. Starts(lg, k) /\ Going(lg, k.turn) /\ Going(lg, u)
    BY <1>1, <1>4, GoingBack DEF Holds
  <2>2. Holds(lg, u) => u = k.turn
    BY <2>1 DEF Fine
  <2>3. CASE \E i \in 1..Len(d) : Opening(d[i]) /\ d[i].turn = u
    BY <2>1, <2>2, <2>3 DEF Undisturbed
  <2> QED BY <1>4, <2>2, <2>3, HoldsBack
<1>5. ASSUME SeesPause(k), ~rm2[k.turn].approved
      PROVE  Stuck(rm2, k.turn) /\ AllSaved(lg2, rm2, k.turn)
  <2>1. Still(rm, rm2, k.turn)
    BY <1>5 DEF SeesPause
  <2>2. ~rm[k.turn].approved
    BY <1>5, <2>1 DEF Still
  <2>3. Stuck(rm, k.turn) /\ AllSaved(lg, rm, k.turn)
    BY <1>5, <2>2 DEF Fine
  <2> QED BY <2>1, <2>3, AllSavedKept
<1> QED BY <1>2, <1>3, <1>4, <1>5 DEF Fine

LEMMA TurnKept ==
  ASSUME NEW lg, NEW d, NEW lg2, GoesOn(lg, d, lg2), Proper(lg, d), NEW rm, NEW rm2,
         \A t \in Turns : TurnOK(lg, rm, t), NEW t \in Turns,
         rm2[t].running => rm[t].running \/ Opened(lg, t),
         \/ Still(rm, rm2, t)
         \/ \E i \in 1..Len(d) : d[i].turn = t /\ Opening(d[i]),
         \A i \in 1..Len(d) : d[i].turn = t /\ d[i].type = "waiting" =>
           Stuck(rm2, t) /\ AllSaved(lg2, rm2, t)
  PROVE  TurnOK(lg2, rm2, t)
<1>1. rm2[t].running => Opened(lg2, t)
  BY OpenedKept DEF TurnOK
<1>2. \A u \in Turns : Opened(lg, u) /\ Going(lg, u) => Resting(lg, u) \/ Holds(lg, u)
  BY DEF TurnOK
<1>3. Opened(lg2, t) /\ Going(lg2, t) => Resting(lg2, t) \/ Holds(lg2, t)
  BY <1>2, ProperKeepsOne
<1>4. ASSUME Going(lg2, t), Resting(lg2, t)
      PROVE  Stuck(rm2, t) /\ AllSaved(lg2, rm2, t)
  <2>1. Going(lg, t)
    BY <1>4, GoingBack
  <2>2. CASE \E i \in 1..Len(d) : d[i].turn = t /\ d[i].type = "waiting"
    BY <2>2
  <2>3. CASE Resting(lg, t) /\ \A i \in 1..Len(d) : d[i].turn = t => ~Opening(d[i])
    <3>1. Still(rm, rm2, t)
      BY <2>3
    <3>2. Stuck(rm, t) /\ AllSaved(lg, rm, t)
      BY <2>1, <2>3 DEF TurnOK
    <3> QED BY <3>1, <3>2, AllSavedKept
  <2> QED BY <1>4, <2>2, <2>3, RestingBack
<1> QED BY <1>1, <1>3, <1>4 DEF TurnOK

\* What a step writes leaves one turn active.
Lawful == \E d : GoesOn(log, d, log') /\ Proper(log, d)

LEMMA OneStepKeeps ==
  ASSUME IInv, OneInv, NEW d, GoesOn(log, d, log'), Proper(log, d),
         \A i \in 1..Len(d) : d[i].type = "bound" => Opened(log, d[i].turn),
         \A t \in Turns :
           /\ remote'[t].running => remote[t].running \/ Opened(log, t)
           /\ \/ Still(remote, remote', t)
              \/ remote'[t].approved /\ \E i \in 1..Len(d) : d[i].turn = t /\ Opening(d[i])
           /\ \A i \in 1..Len(d) : d[i].turn = t /\ d[i].type = "waiting" =>
                Stuck(remote', t) /\ AllSaved(log', remote', t),
         \A q \in Runtimes :
           /\ Undisturbed(log, d, runtime[q])
           /\ Fine(log', remote', q, runtime[q]) => Fine(log', remote', q, runtime'[q])
  PROVE  OneInv' /\ Lawful
<1>1. \A t \in Turns : TurnOK(log', remote', t)
  <2>1. \A t \in Turns : TurnOK(log, remote, t)
    BY DEF OneInv
  <2> QED BY <2>1, TurnKept
<1>2. ASSUME NEW i \in 1..Len(log'), log'[i].type = "bound"
      PROVE  Opened(log', log'[i].turn)
  <2>1. \/ i \in 1..Len(log) /\ log'[i] = log[i]
        \/ i - Len(log) \in 1..Len(d) /\ log'[i] = d[i - Len(log)]
    BY EventFrom
  <2>2. \A j \in 1..Len(log) : log[j].type = "bound" => Opened(log, log[j].turn)
    BY DEF OneInv
  <2>3. Opened(log, log'[i].turn)
    BY <1>2, <2>1, <2>2
  <2> QED BY <2>3, OpenedKept
<1>3. ASSUME NEW q \in Runtimes
      PROVE  Fine(log', remote', q, runtime'[q])
  <2>1. /\ runtime[q].rev \in Nat /\ runtime[q].rev <= Len(log)
        /\ runtime[q].pc # "idle" => runtime[q].turn \in Turns
    BY RuntimeIs
  <2>2. Fine(log, remote, q, runtime[q])
    BY DEF OneInv
  <2>3. runtime[q].turn \in Turns =>
          Still(remote, remote', runtime[q].turn) \/ remote'[runtime[q].turn].approved
    OBVIOUS
  <2>4. Fine(log', remote', q, runtime[q])
    BY <2>1, <2>2, <2>3, FineKept
  <2> QED BY <2>4
<1>4. OneInv'
  BY <1>1, <1>2, <1>3 DEF OneInv
<1> QED BY <1>4 DEF Lawful

\* However a runtime k goes on as x, with the log read further or not.
Leads(lg, rm, r, k, x) ==
  \A y \in Runtime :
    /\ y.pc = x.pc /\ y.turn = x.turn /\ k.rev <= y.rev
    /\ y.result = x.result /\ y.failed = x.failed
    => Fine(lg, rm, r, y)

LEMMA IdleLeads ==
  ASSUME NEW lg, NEW rm, NEW r, NEW k, NEW x, x.pc = "idle"
  PROVE  Leads(lg, rm, r, k, x)
  BY DEF Leads, Fine, Starts, SeesPause

LEMMA MoveLeads ==
  ASSUME NEW lg, NEW rm, NEW r, NEW k, NEW x, Fine(lg, rm, r, k), k.rev \in Nat,
         k.pc \notin {"idle", "admit"}, x.pc # "admit", x.turn = k.turn,
         x.pc = "bind" => Starts(lg, k), SeesPause(x) => SeesPause(k)
  PROVE  Leads(lg, rm, r, k, x)
<1> SUFFICES ASSUME NEW y \in Runtime, y.pc = x.pc, y.turn = x.turn, k.rev <= y.rev,
                    y.result = x.result, y.failed = x.failed
             PROVE  Fine(lg, rm, r, y)
  BY DEF Leads
<1>1. y.rev \in Nat /\ \A i \in 1..k.rev : i \in 1..y.rev
  BY DEF Runtime
<1>2. Starts(lg, y) => Starts(lg, k)
  BY <1>1 DEF Starts
<1>3. SeesPause(y) => SeesPause(k)
  BY DEF SeesPause
<1> QED BY <1>2, <1>3 DEF Fine

LEMMA StayLeads ==
  ASSUME NEW lg, NEW rm, NEW r, NEW k, Fine(lg, rm, r, k), k.rev \in Nat
  PROVE  Leads(lg, rm, r, k, k)
<1>1. CASE k.pc = "idle"
  BY <1>1, IdleLeads
<1>2. CASE k.pc = "admit"
  BY <1>2 DEF Leads, Fine, Starts, SeesPause
<1>3. CASE k.pc \notin {"idle", "admit"}
  <2>1. k.pc = "bind" => Starts(lg, k)
    BY DEF Starts
  <2> QED BY <1>3, <2>1, MoveLeads
<1> QED BY <1>1, <1>2, <1>3

LEMMA NothingGoesOn ==
  ASSUME NEW lg \in Seq(Event)
  PROVE  GoesOn(lg, <<>>, lg) /\ Proper(lg, <<>>)
<1>1. <<>> \in Seq(Event) /\ Len(<<>>) = 0 /\ Len(lg) \in Nat
  BY EmptySeq, LenProperties
<1>2. \A i \in 1..Len(<<>>) : FALSE
  BY <1>1
<1> QED BY <1>1, <1>2 DEF GoesOn, Proper

\* The log stays.
LEMMA QuietOne ==
  ASSUME IInv, OneInv, NEW r \in Runtimes, NEW y, UNCHANGED log,
         \A t \in Turns : /\ remote'[t].running => remote[t].running \/ Opened(log, t)
                          /\ remote'[t].approved = remote[t].approved
                          /\ remote'[t].frames = remote[t].frames,
         runtime' = [runtime EXCEPT ![r] = y],
         Fine(log, remote', r, runtime[r]) => Fine(log, remote', r, y)
  PROVE  OneInv' /\ Lawful
<1>1. log \in Seq(Event) /\ runtime \in [Runtimes -> Runtime]
  BY DEF IInv, Typed
<1>2. GoesOn(log, <<>>, log') /\ Proper(log, <<>>) /\ \A i \in 1..Len(<<>>) : FALSE
  <2>1. \A i \in 1..Len(<<>>) : FALSE
    BY EmptySeq
  <2> QED BY <1>1, <2>1, NothingGoesOn
<1>3. \A t \in Turns : Still(remote, remote', t)
  BY SameIsStill
<1>4. \A q \in Runtimes :
        /\ Undisturbed(log, <<>>, runtime[q])
        /\ Fine(log', remote', q, runtime[q]) => Fine(log', remote', q, runtime'[q])
  BY <1>1, <1>2 DEF Undisturbed
<1> QED BY <1>2, <1>3, <1>4, OneStepKeeps

\* What a runtime may append.
Writable(d) ==
  /\ Proper(log, d)
  /\ \A i \in 1..Len(d) :
       /\ d[i].type = "bound" => Opened(log, d[i].turn)
       /\ d[i].type = "waiting" => Stuck(remote, d[i].turn) /\ AllSaved(log, remote, d[i].turn)
  /\ \A q \in Runtimes : Undisturbed(log, d, runtime[q])

LEMMA AppendOne ==
  ASSUME IInv, OneInv, NEW d \in Seq(Event), Writable(d), log' = log \o d, UNCHANGED remote,
         NEW r \in Runtimes, NEW y, runtime' = [runtime EXCEPT ![r] = y],
         Fine(log \o d, remote, r, runtime[r]) => Fine(log \o d, remote, r, y)
  PROVE  OneInv' /\ Lawful
<1>1. log \in Seq(Event) /\ runtime \in [Runtimes -> Runtime]
  BY DEF IInv, Typed
<1>2. GoesOn(log, d, log')
  BY <1>1, AppendGoesOn
<1>3. \A t \in Turns : Still(remote, remote', t)
  BY SameIsStill
<1>4. ASSUME NEW t \in Turns, NEW i \in 1..Len(d), d[i].turn = t, d[i].type = "waiting"
      PROVE  Stuck(remote', t) /\ AllSaved(log', remote', t)
  <2>1. Stuck(remote, t) /\ AllSaved(log, remote, t)
    BY <1>4 DEF Writable
  <2> QED BY <1>2, <1>3, <2>1, AllSavedKept
<1>5. \A q \in Runtimes :
        /\ Undisturbed(log, d, runtime[q])
        /\ Fine(log', remote', q, runtime[q]) => Fine(log', remote', q, runtime'[q])
  BY <1>1 DEF Writable
<1>6. Proper(log, d) /\ \A i \in 1..Len(d) : d[i].type = "bound" => Opened(log, d[i].turn)
  BY DEF Writable
<1> QED BY <1>2, <1>3, <1>4, <1>5, <1>6, OneStepKeeps

\* persistGenerated()
LEMMA PersistOne ==
  ASSUME IInv, IInv', OneInv, NEW r \in Runtimes, NEW d \in Seq(Event), NEW next \in Runtime,
         NEW thrown \in Runtime, Persist(r, d, next, thrown), UNCHANGED remote,
         next.rev = runtime[r].rev, thrown.rev = runtime[r].rev,
         d = <<>> => Leads(log, remote, r, runtime[r], next),
         Leads(log, remote, r, runtime[r], thrown),
         d # <<>> /\ runtime[r].rev = Len(log) =>
           /\ Writable(d)
           /\ Fine(log \o d, remote, r, runtime[r]) =>
                /\ Leads(log \o d, remote, r, runtime[r], next)
                /\ Leads(log \o d, remote, r, runtime[r], thrown)
  PROVE  OneInv' /\ Lawful
<1> DEFINE k == runtime[r]
<1>1. /\ log \in Seq(Event) /\ Len(log) \in Nat /\ k \in Runtime /\ k.rev \in Nat
      /\ k.rev <= Len(log) /\ Fits(log, remote, r, k) /\ Len(d) \in Nat
  BY RuntimeIs, LenProperties DEF IInv, Typed
<1>2. 0 \in 0..MaximumRebases
  BY BoundsAssumption
<1>3. ASSUME NEW x \in Runtime, x.rev = k.rev, NEW lg, Leads(lg, remote, r, k, x)
      PROVE  Fine(lg, remote, r, [x EXCEPT !.retries = 0])
  <2> DEFINE y == [x EXCEPT !.retries = 0]
  <2>1. /\ y \in Runtime /\ y.pc = x.pc /\ y.turn = x.turn /\ y.rev = x.rev
        /\ y.result = x.result /\ y.failed = x.failed
    BY <1>2 DEF Runtime
  <2> HIDE DEF y
  <2>2. Fine(lg, remote, r, y)
    BY <1>1, <1>3, <2>1 DEF Leads
  <2> QED BY <2>2 DEF y
<1>4. CASE d = <<>> /\ runtime' = [runtime EXCEPT ![r] = [next EXCEPT !.retries = 0]] /\ UNCHANGED log
  <2>1. Fine(log, remote, r, [next EXCEPT !.retries = 0])
    BY <1>3, <1>4
  <2> QED BY <1>4, <2>1, QuietOne
<1>5. CASE runtime' = [runtime EXCEPT ![r] = [thrown EXCEPT !.retries = 0]] /\ UNCHANGED log
  <2>1. Fine(log, remote, r, [thrown EXCEPT !.retries = 0])
    BY <1>3
  <2> QED BY <1>5, <2>1, QuietOne
<1>6. CASE /\ k.retries < MaximumRebases /\ UNCHANGED log
           /\ runtime' = [runtime EXCEPT ![r] = [CaughtUp(k) EXCEPT !.retries = CaughtUp(k).retries + 1]]
  <2> DEFINE x == CaughtUp(k)
             n == x.retries + 1
             y == [x EXCEPT !.retries = n]
  <2>1. x \in Runtime /\ x.rev = Len(log)
    BY <1>1, CaughtUpIs
  <2>2. /\ x.pc = k.pc /\ x.turn = k.turn /\ x.result = k.result /\ x.failed = k.failed
        /\ x.retries = k.retries
    BY <1>1 DEF CaughtUp, Runtime
  <2>3. n \in 0..MaximumRebases
    <3>1. k.retries \in 0..MaximumRebases
      BY <1>1 DEF Runtime
    <3> HIDE DEF k, x
    <3> QED BY <1>6, <2>2, <3>1, BoundsAssumption
  <2> HIDE DEF x, n
  <2>4. /\ y \in Runtime /\ y.pc = x.pc /\ y.turn = x.turn /\ y.rev = x.rev
        /\ y.result = x.result /\ y.failed = x.failed
    BY <2>1, <2>3 DEF Runtime
  <2> HIDE DEF y
  <2>5. Fine(log, remote, r, k) => Leads(log, remote, r, k, k)
    BY <1>1, StayLeads
  <2>6. Fine(log, remote, r, k) => Fine(log, remote, r, y)
    BY <1>1, <2>1, <2>2, <2>4, <2>5 DEF Leads
  <2>7. runtime' = [runtime EXCEPT ![r] = y]
    BY <1>6 DEF x, n, y
  <2> QED BY <1>6, <2>6, <2>7, QuietOne
<1>7. CASE /\ d # <<>> /\ k.rev = Len(log) /\ log' = log \o d
           /\ runtime' = [runtime EXCEPT ![r] = [thrown EXCEPT !.retries = 0]]
  <2>1. Fine(log \o d, remote, r, k) => Fine(log \o d, remote, r, [thrown EXCEPT !.retries = 0])
    BY <1>3, <1>7
  <2> QED BY <1>7, <2>1, AppendOne
<1>8. CASE /\ d # <<>> /\ k.rev = Len(log) /\ log' = log \o d
           /\ runtime' = [runtime EXCEPT ![r] =
                [next EXCEPT !.rev = Len(log) + Len(d), !.retries = 0,
                             !.safe = Max({next.safe, SafeSequence(d, k.turn)})]]
  <2> DEFINE m == Max({next.safe, SafeSequence(d, k.turn)})
             n == Len(log) + Len(d)
             y == [next EXCEPT !.rev = n, !.retries = 0, !.safe = m]
  <2>1. n \in Nat /\ k.rev <= n
    BY <1>1, <1>8
  <2>2. runtime' = [runtime EXCEPT ![r] = y]
    BY <1>8
  <2> HIDE DEF m, n
  <2>3. y.pc = next.pc /\ y.turn = next.turn /\ y.rev = n /\ y.result = next.result
        /\ y.failed = next.failed
    BY DEF Runtime
  <2> HIDE DEF y
  <2>4. y \in Runtime
    <3>1. runtime'[r] \in Runtime /\ runtime \in [Runtimes -> Runtime]
      BY DEF IInv, Typed
    <3> QED BY <2>2, <3>1
  <2>5. Fine(log \o d, remote, r, k) => Fine(log \o d, remote, r, y)
    BY <1>8, <2>1, <2>3, <2>4 DEF Leads
  <2> QED BY <1>8, <2>2, <2>5, AppendOne
<1> QED BY <1>4, <1>5, <1>6, <1>7, <1>8 DEF Persist

-----------------------------------------------------------------------------
(* One active turn: the steps of a runtime *)

LEMMA PrefixWhole ==
  ASSUME log \in Seq(Event), NEW k, k.rev = Len(log)
  PROVE  Prefix(k) = log
<1>1. k.rev \in Nat /\ k.rev <= Len(log)
  BY LenProperties
<1> DEFINE p == Prefix(k)
<1>2. p \in Seq(Event) /\ Len(p) = Len(log) /\ \A i \in 1..Len(p) : p[i] = log[i]
  BY <1>1, PrefixIs
<1> HIDE DEF p
<1>3. p = log
  BY <1>2, SeqEqual
<1> QED BY <1>3 DEF p

LEMMA BoundIs ==
  ASSUME log \in Seq(Event), NEW k, k.rev \in Nat, k.rev <= Len(log), NEW t
  PROVE  Bound(Prefix(k), t) <=> \E i \in 1..k.rev : log[i].turn = t /\ log[i].type = "bound"
<1> DEFINE p == Prefix(k)
<1>1. p \in Seq(Event) /\ Len(p) = k.rev /\ \A i \in 1..k.rev : p[i] = log[i]
  BY PrefixIs
<1> HIDE DEF p
<1>2. DOMAIN p = 1..k.rev
  BY <1>1, LenProperties
<1>3. Bound(p, t) <=> \E i \in 1..k.rev : log[i].turn = t /\ log[i].type = "bound"
  BY <1>1, <1>2 DEF Bound
<1> QED BY <1>3 DEF p

LEMMA IdleFine ==
  ASSUME NEW lg, NEW rm, NEW r, NEW y, y.pc = "idle"
  PROVE  Fine(lg, rm, r, y)
  BY DEF Fine, Starts, SeesPause

LEMMA ReturnsIdle ==
  ASSUME NEW k, NEW status
  PROVE  Returns(k, status).pc = "idle"
  BY DEF Returns, NewRuntime

\* A runtime that goes on with its turn, or is done with it.
Onward(k, y) ==
  \/ y.pc = "idle"
  \/ /\ y.pc \in {"attempt", "call", "observe", "finish", "retry", "exhausted", "fail", "settle"}
     /\ y.turn = k.turn /\ y.rev = k.rev

LEMMA OnwardLeads ==
  ASSUME NEW lg, NEW rm, NEW r, NEW k, NEW y, Fine(lg, rm, r, k), k.rev \in Nat,
         k.pc \notin {"idle", "admit"}, Onward(k, y)
  PROVE  Leads(lg, rm, r, k, y)
<1>1. CASE y.pc = "idle"
  BY <1>1, IdleLeads
<1>2. CASE y.pc # "idle"
  <2>1. y.pc \notin {"admit", "bind"} /\ ~SeesPause(y) /\ y.turn = k.turn
    BY <1>2 DEF Onward, SeesPause
  <2> QED BY <2>1, MoveLeads
<1> QED BY <1>1, <1>2

\* The operation goes on without a write.
LEMMA OnwardOne ==
  ASSUME IInv, OneInv, NEW r \in Runtimes, NEW y \in Runtime, UNCHANGED log,
         \A t \in Turns : /\ remote'[t].running => remote[t].running \/ Opened(log, t)
                          /\ remote'[t].approved = remote[t].approved
                          /\ remote'[t].frames = remote[t].frames,
         runtime' = [runtime EXCEPT ![r] = y], runtime[r].pc \notin {"idle", "admit"},
         Onward(runtime[r], y)
  PROVE  OneInv' /\ Lawful
<1>1. runtime[r].rev \in Nat
  BY RuntimeIs
<1>2. ASSUME Fine(log, remote', r, runtime[r])
      PROVE  Fine(log, remote', r, y)
  <2>1. Leads(log, remote', r, runtime[r], y)
    BY <1>1, <1>2, OnwardLeads
  <2>2. CASE y.pc = "idle"
    BY <2>2, IdleFine
  <2>3. CASE y.pc # "idle"
    BY <1>1, <2>1, <2>3 DEF Leads, Onward
  <2> QED BY <2>2, <2>3
<1> QED BY <1>2, QuietOne

\* A runtime is told something, and changes nothing else.
LEMMA IdleOne ==
  ASSUME IInv, OneInv, NEW r \in Runtimes, NEW y, UNCHANGED <<log, remote>>,
         runtime' = [runtime EXCEPT ![r] = y], y.pc = "idle"
  PROVE  OneInv' /\ Lawful
  BY IdleFine, QuietOne

LEMMA PlainWritable ==
  ASSUME NEW e \in Event, ~Opening(e), e.type \notin {"bound", "waiting"}
  PROVE  Writable(<<e>>) /\ <<e>> \in Seq(Event) /\ <<e>> # <<>>
<1> DEFINE d == <<e>>
<1>1. d \in Seq(Event) /\ d # <<>> /\ Len(d) = 1 /\ \A i \in 1..Len(d) : d[i] = e
  OBVIOUS
<1> HIDE DEF d
<1>2. Proper(log, d)
  BY <1>1 DEF Proper
<1>3. Writable(d)
  BY <1>1, <1>2 DEF Writable, Undisturbed
<1> QED BY <1>1, <1>3 DEF d

\* An event that is not a status is written, or nothing.
LEMMA PersistPlainOne ==
  ASSUME IInv, IInv', OneInv, NEW r \in Runtimes, NEW d, NEW next \in Runtime, NEW thrown \in Runtime,
         NEW e \in Event, ~Opening(e), e.type \notin {"bound", "waiting"}, d \in {<<>>, <<e>>},
         Persist(r, d, next, thrown), UNCHANGED remote, runtime[r].pc \notin {"idle", "admit"},
         next.rev = runtime[r].rev, thrown.rev = runtime[r].rev,
         Onward(runtime[r], next), Onward(runtime[r], thrown)
  PROVE  OneInv' /\ Lawful
<1>1. runtime[r].rev \in Nat /\ Fine(log, remote, r, runtime[r])
  BY RuntimeIs DEF OneInv
<1>2. d \in Seq(Event) /\ (d # <<>> => Writable(d))
  BY PlainWritable, EmptySeq
<1>3. Leads(log, remote, r, runtime[r], next) /\ Leads(log, remote, r, runtime[r], thrown)
  BY <1>1, OnwardLeads
<1>4. Fine(log \o d, remote, r, runtime[r]) =>
        /\ Leads(log \o d, remote, r, runtime[r], next)
        /\ Leads(log \o d, remote, r, runtime[r], thrown)
  BY <1>1, OnwardLeads
<1> QED BY <1>2, <1>3, <1>4, PersistOne

LEMMA PlainQuiet ==
  ASSUME NEW t \in Turns, NEW type \in {"retry", "stopping", "failed"}
  PROVE  /\ Plain(type, t) \in Event /\ ~Opening(Plain(type, t))
         /\ Plain(type, t).type \notin {"bound", "waiting"}
  BY PlainTyped DEF Opening

LEMMA ThrowsOnward ==
  ASSUME NEW k \in Runtime
  PROVE  Throws(k) \in Runtime /\ Throws(k).rev = k.rev /\ Onward(k, Throws(k))
<1> DEFINE y == [k EXCEPT !.pc = "settle"]
<1>1. y \in Runtime /\ y.pc = "settle" /\ y.turn = k.turn /\ y.rev = k.rev
  BY DEF Runtime
<1> HIDE DEF y
<1>2. Throws(k) = y
  BY DEF Throws, y
<1> QED BY <1>1, <1>2 DEF Onward

LEMMA ReturnsOnward ==
  ASSUME NEW k \in Runtime, NEW status \in Told
  PROVE  /\ Returns(k, status) \in Runtime /\ Returns(k, status).rev = k.rev
         /\ Onward(k, Returns(k, status))
  BY ReturnsTyped DEF Onward

LEMMA GivesUpOnward ==
  ASSUME NEW k \in Runtime
  PROVE  GivesUp(k) \in Runtime /\ GivesUp(k).rev = k.rev /\ Onward(k, GivesUp(k))
<1>1. CASE k.starting
  <2> DEFINE y == [k EXCEPT !.pc = "fail"]
  <2>1. y \in Runtime /\ y.pc = "fail" /\ y.turn = k.turn /\ y.rev = k.rev
    BY DEF Runtime
  <2> HIDE DEF y
  <2>2. GivesUp(k) = y
    BY <1>1 DEF GivesUp, y
  <2> QED BY <2>1, <2>2 DEF Onward
<1>2. CASE ~k.starting
  <2> DEFINE status == IF k.result = "disconnected" /\ ~k.failed THEN "disconnected" ELSE "interrupted"
  <2>1. GivesUp(k) = Returns(k, status)
    BY <1>2 DEF GivesUp
  <2>2. status \in Told
    BY DEF Told
  <2> HIDE DEF status
  <2> QED BY <2>1, <2>2, ReturnsOnward
<1> QED BY <1>1, <1>2

LEMMA AttemptedOnward ==
  ASSUME NEW r, NEW k \in Runtime, NEW y \in Attempted(r, k)
  PROVE  y \in Runtime /\ y.rev = k.rev /\ Onward(k, y)
<1>1. CASE y = GivesUp(k)
  BY <1>1, GivesUpOnward
<1>2. ASSUME NEW pc \in {"exhausted", "retry"}, y = [k EXCEPT !.pc = pc]
      PROVE  y \in Runtime /\ y.rev = k.rev /\ Onward(k, y)
  <2>1. y \in Runtime /\ y.pc = pc /\ y.turn = k.turn /\ y.rev = k.rev
    BY <1>2 DEF Runtime
  <2> QED BY <2>1 DEF Onward
<1>3. y = GivesUp(k) \/ y = [k EXCEPT !.pc = "exhausted"] \/ y = [k EXCEPT !.pc = "retry"]
  BY Zenon DEF Attempted
<1> QED BY <1>1, <1>2, <1>3

LEMMA ObservedOnward ==
  ASSUME NEW r, NEW k \in Runtime, NEW retryable, NEW y \in Observed(r, k, retryable)
  PROVE  y \in Runtime /\ y.rev = k.rev /\ Onward(k, y)
<1>1. y = GivesUp(k) \/ y \in Attempted(r, k)
  BY Zenon DEF Observed
<1> QED BY <1>1, GivesUpOnward, AttemptedOnward

LEMMA AttemptOne ==
  ASSUME IInv, IInv', OneInv, NEW r \in Runtimes, Attempt(r)
  PROVE  OneInv' /\ Lawful
<1> DEFINE k == runtime[r]
           next == [k EXCEPT !.pc = "call"]
<1>1. k \in Runtime /\ k.pc = "attempt" /\ k.turn \in Turns /\ UNCHANGED remote
  BY RuntimeIs DEF Attempt
<1>2. CASE runtime' = [runtime EXCEPT ![r] = Returns(k, "disconnected")] /\ UNCHANGED log
  BY <1>1, <1>2, ReturnsIdle, IdleOne
<1>3. CASE Persist(r, <<Plain("retry", k.turn)>>, next, Throws(k))
  <2>1. next \in Runtime /\ next.rev = k.rev /\ Onward(k, next)
    BY <1>1 DEF Runtime, Onward
  <2> HIDE DEF next
  <2> QED BY <1>1, <1>3, <2>1, ThrowsOnward, PlainQuiet, PersistPlainOne
<1> QED BY <1>2, <1>3 DEF Attempt

LEMMA RetryOne ==
  ASSUME IInv, IInv', OneInv, NEW r \in Runtimes, Retry(r)
  PROVE  OneInv' /\ Lawful
<1> DEFINE k == runtime[r]
           n == k.attempt + 1
           next == [k EXCEPT !.pc = "attempt", !.attempt = n]
<1>1. k \in Runtime /\ k.pc = "retry" /\ k.turn \in Turns /\ UNCHANGED remote
  BY RuntimeIs DEF Retry
<1>2. Persist(r, <<Plain("retry", k.turn)>>, next, Throws(k))
  BY DEF Retry
<1>3. n \in Nat
  BY <1>1 DEF Runtime
<1> HIDE DEF n
<1>4. next \in Runtime /\ next.rev = k.rev /\ Onward(k, next)
  BY <1>1, <1>3 DEF Runtime, Onward
<1> HIDE DEF next
<1> QED BY <1>1, <1>2, <1>4, ThrowsOnward, PlainQuiet, PersistPlainOne

LEMMA ExhaustedOne ==
  ASSUME IInv, IInv', OneInv, NEW r \in Runtimes, Exhausted(r)
  PROVE  OneInv' /\ Lawful
<1> DEFINE k == runtime[r]
<1>1. k \in Runtime /\ k.pc = "exhausted" /\ k.turn \in Turns /\ UNCHANGED remote
  BY RuntimeIs DEF Exhausted
<1>2. Persist(r, <<Plain("retry", k.turn)>>, GivesUp(k), Throws(k))
  BY DEF Exhausted
<1> QED BY <1>1, <1>2, ThrowsOnward, GivesUpOnward, PlainQuiet, PersistPlainOne

LEMMA FailOne ==
  ASSUME IInv, IInv', OneInv, NEW r \in Runtimes, Fail(r)
  PROVE  OneInv' /\ Lawful
<1> DEFINE k == runtime[r]
<1>1. k \in Runtime /\ k.pc = "fail" /\ k.turn \in Turns /\ UNCHANGED remote
  BY RuntimeIs DEF Fail
<1>2. Persist(r, <<Plain("failed", k.turn)>>, Returns(k, "failed"), Throws(k))
  BY DEF Fail
<1>3. "failed" \in Told
  BY DEF Told, Terminals
<1> QED BY <1>1, <1>2, <1>3, ThrowsOnward, ReturnsOnward, PlainQuiet, PersistPlainOne

LEMMA SettleOne ==
  ASSUME IInv, OneInv, NEW r \in Runtimes, Settle(r)
  PROVE  OneInv' /\ Lawful
  BY ReturnsIdle, IdleOne DEF Settle

LEMMA CrashOne ==
  ASSUME IInv, OneInv, NEW r \in Runtimes, Crash(r)
  PROVE  OneInv' /\ Lawful
<1>1. NewRuntime(Len(log), runtime[r].resumes).pc = "idle"
  BY DEF NewRuntime
<1> QED BY <1>1, IdleOne DEF Crash

LEMMA FinishOne ==
  ASSUME IInv, IInv', OneInv, NEW r \in Runtimes, Finish(r)
  PROVE  OneInv' /\ Lawful
<1> DEFINE k == runtime[r]
           o == Canonical(Prefix(k), k.turn)
           n == k.expected - 1
           e == [Plain(k.terminal, k.turn) EXCEPT !.seq = n, !.safe = TRUE]
           d == IF o # None THEN <<>> ELSE <<e>>
           status == IF o # None THEN o ELSE k.terminal
<1>1. /\ k \in Runtime /\ Fits(log, remote, r, k) /\ k.pc = "finish" /\ k.turn \in Turns
      /\ UNCHANGED remote
  BY RuntimeIs DEF Finish
<1>2. Persist(r, d, Returns(k, status), Throws(k))
  BY DEF Finish
<1>3. o # None => o \in Terminals
  BY <1>1, PrefixCanonical
<1>4. k.terminal \in Terminals /\ n \in Nat
  <2>1. Observation(log, remote[k.turn].frames, k)
    BY <1>1, NoneAssumption DEF Fits, RuntimeOK
  <2>2. k.terminal # None /\ 1 <= k.base /\ k.base <= k.expected
    BY <1>1, <2>1 DEF Observation
  <2>3. k.terminal \in Terminals \cup {None} /\ k.base \in Nat /\ k.expected \in Nat
    BY <1>1 DEF Runtime
  <2> HIDE DEF k
  <2> QED BY <2>2, <2>3
<1>5. status \in Told
  BY <1>3, <1>4 DEF Told
<1> HIDE DEF n
<1>6. e \in Event /\ e.type = k.terminal
  BY <1>1, <1>4 DEF Plain, Event
<1>7. ~Opening(e) /\ e.type \notin {"bound", "waiting"}
  BY <1>4, <1>6 DEF Opening, Terminals
<1>8. d \in {<<>>, <<e>>}
  OBVIOUS
<1> HIDE DEF e, d, status
<1> QED BY <1>1, <1>2, <1>5, <1>6, <1>7, <1>8, ThrowsOnward, ReturnsOnward, PersistPlainOne

\* A runtime that reads further, or in which only what an observation has changes.
LEMMA StayOne ==
  ASSUME IInv, OneInv, NEW r \in Runtimes, NEW y \in Runtime, UNCHANGED log,
         \A t \in Turns : /\ remote'[t].running => remote[t].running \/ Opened(log, t)
                          /\ remote'[t].approved = remote[t].approved
                          /\ remote'[t].frames = remote[t].frames,
         runtime' = [runtime EXCEPT ![r] = y], y.pc = runtime[r].pc, y.turn = runtime[r].turn,
         runtime[r].rev <= y.rev, y.result = runtime[r].result, y.failed = runtime[r].failed
  PROVE  OneInv' /\ Lawful
<1>1. runtime[r].rev \in Nat
  BY RuntimeIs
<1>2. Fine(log, remote', r, runtime[r]) => Fine(log, remote', r, y)
  BY <1>1, StayLeads DEF Leads
<1> QED BY <1>2, QuietOne

LEMMA CaughtUpStays ==
  ASSUME IInv, NEW r \in Runtimes
  PROVE  LET k == runtime[r]
             y == CaughtUp(k) IN
         /\ y \in Runtime /\ y.rev = Len(log) /\ k.rev <= y.rev /\ y.pc = k.pc /\ y.turn = k.turn
         /\ y.result = k.result /\ y.failed = k.failed
<1>1. /\ runtime[r] \in Runtime /\ Fits(log, remote, r, runtime[r]) /\ runtime[r].rev <= Len(log)
  BY RuntimeIs
<1>2. CaughtUp(runtime[r]) \in Runtime /\ CaughtUp(runtime[r]).rev = Len(log)
  BY <1>1, CaughtUpIs
<1> QED BY <1>1, <1>2 DEF CaughtUp, Runtime

LEMMA SynchronizeOne ==
  ASSUME IInv, OneInv, NEW r \in Runtimes, Synchronize(r)
  PROVE  OneInv' /\ Lawful
<1>1. runtime' = [runtime EXCEPT ![r] = CaughtUp(runtime[r])] /\ UNCHANGED <<log, remote>>
  BY DEF Synchronize
<1> DEFINE y == CaughtUp(runtime[r])
<1>2. /\ y \in Runtime /\ runtime[r].rev <= y.rev /\ y.pc = runtime[r].pc
      /\ y.turn = runtime[r].turn /\ y.result = runtime[r].result /\ y.failed = runtime[r].failed
  BY CaughtUpStays
<1> HIDE DEF y
<1>3. runtime' = [runtime EXCEPT ![r] = y]
  BY <1>1 DEF y
<1> QED BY <1>1, <1>2, <1>3, StayOne

LEMMA StopObservingOne ==
  ASSUME IInv, OneInv, NEW r \in Runtimes, StopObserving(r)
  PROVE  OneInv' /\ Lawful
<1> DEFINE k == runtime[r]
           y == [k EXCEPT !.stopped = TRUE]
<1>1. k \in Runtime /\ k.rev \in Nat /\ runtime \in [Runtimes -> Runtime] /\ UNCHANGED <<log, remote>>
  BY RuntimeIs DEF StopObserving, IInv, Typed
<1>2. /\ y \in Runtime /\ y.rev = k.rev /\ y.pc = k.pc /\ y.turn = k.turn
      /\ y.result = k.result /\ y.failed = k.failed
  BY <1>1 DEF Runtime
<1>3. runtime' = [runtime EXCEPT ![r] = y]
  BY <1>1 DEF StopObserving
<1> HIDE DEF y
<1>4. k.rev <= y.rev
  BY <1>1, <1>2
<1> QED BY <1>1, <1>2, <1>3, <1>4, StayOne

LEMMA NextTyped ==
  ASSUME IInv, IInv', NEW r \in Runtimes, NEW y, runtime' = [runtime EXCEPT ![r] = y]
  PROVE  y \in Runtime
<1>1. runtime'[r] \in Runtime /\ runtime \in [Runtimes -> Runtime]
  BY DEF IInv, Typed
<1> QED BY <1>1

LEMMA MoveFine ==
  ASSUME NEW lg, NEW rm, NEW r, NEW k, NEW y, Fine(lg, rm, r, k), k.rev \in Nat, y.rev \in Nat,
         k.rev <= y.rev, k.pc \notin {"idle", "admit"}, y.pc # "admit", y.turn = k.turn,
         y.pc = "bind" => Starts(lg, k),
         SeesPause(y) /\ ~rm[k.turn].approved => Stuck(rm, k.turn) /\ AllSaved(lg, rm, k.turn)
  PROVE  Fine(lg, rm, r, y)
<1>1. \A i \in 1..k.rev : i \in 1..y.rev
  OBVIOUS
<1>2. Starts(lg, y) => Starts(lg, k)
  BY <1>1 DEF Starts
<1> QED BY <1>2 DEF Fine

\* The same after the log was read further.
LEMMA OnwardFine ==
  ASSUME NEW lg, NEW rm, NEW r, NEW k, NEW x, NEW y, Fine(lg, rm, r, k), k.rev \in Nat,
         x.rev \in Nat, k.rev <= x.rev, x.turn = k.turn, k.pc \notin {"idle", "admit"}, Onward(x, y)
  PROVE  Fine(lg, rm, r, y)
<1>1. CASE y.pc = "idle"
  BY <1>1, IdleFine
<1>2. CASE y.pc # "idle"
  <2>1. y.pc \notin {"admit", "bind"} /\ ~SeesPause(y) /\ y.turn = k.turn /\ y.rev = x.rev
    BY <1>2 DEF Onward, SeesPause
  <2> QED BY <2>1, MoveFine
<1> QED BY <1>1, <1>2

LEMMA SendMessageOne ==
  ASSUME IInv, OneInv, NEW r \in Runtimes, NEW t \in Turns, SendMessage(r, t)
  PROVE  OneInv' /\ Lawful
<1> DEFINE k == CaughtUp(runtime[r])
           y == [NewRuntime(k.rev, k.resumes) EXCEPT !.pc = "admit", !.turn = t]
<1>1. r \in Senders /\ UNCHANGED <<log, remote>>
  BY DEF SendMessage
<1>2. CASE runtime' = [runtime EXCEPT ![r] = Returns(k, "busy")]
  BY <1>1, <1>2, ReturnsIdle, IdleOne
<1>3. CASE runtime' = [runtime EXCEPT ![r] = y]
  <2>1. y.pc = "admit"
    BY DEF NewRuntime
  <2> HIDE DEF y
  <2>2. Fine(log, remote', r, y)
    BY <1>1, <2>1 DEF Fine, Starts, SeesPause
  <2> QED BY <1>1, <1>3, <2>2, QuietOne
<1> QED BY <1>2, <1>3 DEF SendMessage

LEMMA ResumeTurnOne ==
  ASSUME IInv, OneInv, NEW r \in Runtimes, NEW t \in Turns, ResumeTurn(r, t)
  PROVE  OneInv' /\ Lawful
<1> DEFINE k == IF r \in Senders THEN runtime[r] ELSE NewRuntime(Len(log), runtime[r].resumes)
           y == [NewRuntime(k.rev, k.resumes + 1) EXCEPT
                   !.pc = "attempt", !.turn = t, !.attempt = 1,
                   !.safe = IF k.turn = t THEN k.safe ELSE SafeSequence(Prefix(k), t),
                   !.cancel = IF k.turn = t THEN k.cancel ELSE NewRuntime(k.rev, k.resumes + 1).cancel,
                   !.cancelling = k.turn = t /\ k.cancelling]
<1>1. /\ UNCHANGED <<log, remote>> /\ Bound(Prefix(k), t)
      /\ runtime' = [runtime EXCEPT ![r] = y]
  BY DEF ResumeTurn
<1>2. log \in Seq(Event) /\ k.rev \in Nat /\ k.rev <= Len(log)
  <2>1. log \in Seq(Event) /\ Len(log) \in Nat /\ runtime[r].rev \in Nat /\ runtime[r].rev <= Len(log)
    BY RuntimeIs DEF IInv, Typed
  <2> QED BY <2>1 DEF NewRuntime
<1>3. y.pc = "attempt" /\ y.turn = t /\ y.rev = k.rev
  BY DEF NewRuntime
<1> HIDE DEF k, y
<1>4. PICK i \in 1..k.rev : log[i].turn = t /\ log[i].type = "bound"
  BY <1>1, <1>2, BoundIs
<1>5. Opened(log, t)
  <2>1. i \in 1..Len(log)
    BY <1>2, <1>4, LenProperties
  <2> QED BY <1>4, <2>1 DEF OneInv
<1>6. Fine(log, remote', r, y)
  BY <1>3, <1>4, <1>5 DEF Fine, Starts, SeesPause
<1> QED BY <1>1, <1>6, QuietOne

LEMMA CancelSendOne ==
  ASSUME IInv, IInv', OneInv, NEW r \in Runtimes, CancelSend(r)
  PROVE  OneInv' /\ Lawful
<1> DEFINE k == runtime[r]
           x == IF Ended(k.turn) THEN CaughtUp(k) ELSE k
           y == [x EXCEPT !.cancel = "sent"]
           rm2 == [remote EXCEPT ![k.turn].cancelled = TRUE]
<1>1. k \in Runtime /\ k.rev \in Nat /\ remote \in [Turns -> Remote]
  BY RuntimeIs DEF IInv, Typed
<1>2. /\ x \in Runtime /\ k.rev <= x.rev /\ x.pc = k.pc /\ x.turn = k.turn
      /\ x.result = k.result /\ x.failed = k.failed
  BY <1>1, CaughtUpStays
<1>3. UNCHANGED log /\ runtime' = [runtime EXCEPT ![r] = y] /\ remote' \in {remote, rm2}
  BY DEF CancelSend
<1>4. \A t \in Turns : /\ rm2[t].running = remote[t].running /\ rm2[t].approved = remote[t].approved
                       /\ rm2[t].frames = remote[t].frames
  BY <1>1 DEF Remote
<1> HIDE DEF x, rm2
<1>5. /\ y \in Runtime /\ y.rev = x.rev /\ y.pc = x.pc /\ y.turn = x.turn
      /\ y.result = x.result /\ y.failed = x.failed
  BY <1>2 DEF Runtime
<1> HIDE DEF y
<1>6. \A t \in Turns : /\ remote'[t].running => remote[t].running \/ Opened(log, t)
                       /\ remote'[t].approved = remote[t].approved
                       /\ remote'[t].frames = remote[t].frames
  BY <1>3, <1>4
<1> QED BY <1>2, <1>3, <1>5, <1>6, StayOne

LEMMA CallOne ==
  ASSUME IInv, IInv', OneInv, NEW r \in Runtimes, Call(r)
  PROVE  OneInv' /\ Lawful
<1> DEFINE k == runtime[r]
           started == [remote EXCEPT ![k.turn].running = TRUE]
<1>1. /\ k \in Runtime /\ Fits(log, remote, r, k) /\ k.pc = "call" /\ k.turn \in Turns
      /\ k.rev \in Nat /\ k.rev <= Len(log)
  BY RuntimeIs DEF Call
<1>2. remote \in [Turns -> Remote] /\ runtime \in [Runtimes -> Runtime] /\ log \in Seq(Event)
  BY DEF IInv, Typed
<1>3. UNCHANGED log /\ remote' \in {remote, started}
  BY Zenon DEF Call
<1>4. Opened(log, k.turn)
  BY <1>1 DEF OneInv, Fine
<1>5. \A t \in Turns : /\ started[t].running => remote[t].running \/ Opened(log, t)
                       /\ started[t].approved = remote[t].approved
                       /\ started[t].frames = remote[t].frames
  BY <1>1, <1>2, <1>4 DEF Remote
<1>6. \A t \in Turns : /\ remote'[t].running => remote[t].running \/ Opened(log, t)
                       /\ remote'[t].approved = remote[t].approved
                       /\ remote'[t].frames = remote[t].frames
  <2> HIDE DEF started
  <2> QED BY <1>3, <1>5
<1>7. CASE \E y \in Runtime : Onward(k, y) /\ runtime' = [runtime EXCEPT ![r] = y]
  BY <1>1, <1>3, <1>6, <1>7, OnwardOne
<1>8. CASE runtime' = [runtime EXCEPT ![r] = Returns(k, "disconnected")]
  <2>1. "disconnected" \in Told
    BY DEF Told
  <2> QED BY <1>1, <1>7, <1>8, <2>1, ReturnsOnward
<1>9. CASE runtime' = [runtime EXCEPT ![r] = Observes(k)]
  <2>1. Observes(k) \in Runtime
    BY <1>1, <1>2, ObservesFits DEF Fits
  <2>2. Onward(k, Observes(k))
    BY <1>1 DEF Observes, Onward, Runtime
  <2> QED BY <1>7, <1>9, <2>1, <2>2
<1>10. ASSUME NEW b \in BOOLEAN, NEW next \in Attempted(r, [k EXCEPT !.starting = b]),
              runtime' = [runtime EXCEPT ![r] = next]
       PROVE  OneInv' /\ Lawful
  <2> DEFINE x == [k EXCEPT !.starting = b]
  <2>1. x \in Runtime /\ x.turn = k.turn /\ x.rev = k.rev
    BY <1>1 DEF Runtime
  <2>2. next \in Attempted(r, x)
    BY <1>10
  <2> HIDE DEF x
  <2>3. next \in Runtime /\ Onward(x, next)
    BY <2>1, <2>2, AttemptedOnward
  <2>4. Onward(k, next)
    BY <2>1, <2>3 DEF Onward
  <2> QED BY <1>7, <1>10, <2>3, <2>4
<1>11. CASE ~Bound(Prefix(k), k.turn) /\ runtime' = [runtime EXCEPT ![r].pc = "bind", ![r].bound = TRUE]
  <2> DEFINE y == [k EXCEPT !.pc = "bind", !.bound = TRUE]
  <2>1. runtime' = [runtime EXCEPT ![r] = y]
    BY <1>2, <1>11
  <2>2. y.pc = "bind" /\ y.turn = k.turn /\ y.rev = k.rev
    BY <1>1 DEF Runtime
  <2> HIDE DEF y
  <2>3. Starts(log, k)
    BY <1>1, <1>2, <1>11, BoundIs DEF Starts
  <2>4. Fine(log, remote', r, k) => Fine(log, remote', r, y)
    BY <1>1, <2>2, <2>3, MoveFine DEF SeesPause
  <2> QED BY <1>3, <1>6, <2>1, <2>4, QuietOne
<1> QED BY <1>8, <1>9, <1>10, <1>11 DEF Call

LEMMA DeliverOne ==
  ASSUME IInv, IInv', OneInv, NEW r \in Runtimes, Deliver(r)
  PROVE  OneInv' /\ Lawful
<1> DEFINE k == runtime[r]
<1>1. /\ k \in Runtime /\ k.pc = "observe" /\ runtime \in [Runtimes -> Runtime]
      /\ UNCHANGED <<log, remote>>
  BY RuntimeIs DEF Deliver, IInv, Typed
<1>2. ASSUME NEW y, runtime' = [runtime EXCEPT ![r] = y],
             y.pc = "observe", y.turn = k.turn, y.rev = k.rev
      PROVE  OneInv' /\ Lawful
  BY <1>1, <1>2, NextTyped, OnwardOne DEF Onward
<1>3. CASE runtime' = [runtime EXCEPT ![r].failed = TRUE]
  <2> DEFINE y == [k EXCEPT !.failed = TRUE]
  <2>1. runtime' = [runtime EXCEPT ![r] = y]
    BY <1>1, <1>3
  <2>2. y.pc = "observe" /\ y.turn = k.turn /\ y.rev = k.rev
    BY <1>1 DEF Runtime
  <2> HIDE DEF y
  <2> QED BY <1>2, <2>1, <2>2
<1>4. ASSUME NEW kind, runtime' = [runtime EXCEPT ![r] = Accepted(k, kind)]
      PROVE  OneInv' /\ Lawful
  <2> DEFINE next == [k EXCEPT !.expected = k.expected + 1]
             b == Append(next.batch, [seq |-> k.expected, safe |-> ~k.unsafe])
             y == Accepted(k, kind)
  <2>1. \/ y = next \/ y = [next EXCEPT !.unsafe = TRUE] \/ y = [next EXCEPT !.terminal = kind]
        \/ y = [next EXCEPT !.batch = b]
    BY DEF Accepted, KnownFrame
  <2>2. y.pc = "observe" /\ y.turn = k.turn /\ y.rev = k.rev
    <3> HIDE DEF y, b
    <3> QED BY <1>1, <2>1 DEF Runtime
  <2> HIDE DEF y
  <2>3. runtime' = [runtime EXCEPT ![r] = y]
    BY <1>4 DEF y
  <2> QED BY <1>2, <2>2, <2>3
<1> QED BY <1>3, <1>4, Zenon DEF Deliver

\* The end of the stream at a pause: the turn waits for its approval, and everything
\* that it has produced is saved.
LEMMA EndStreamOne ==
  ASSUME IInv, IInv', OneInv, NEW r \in Runtimes, EndStream(r)
  PROVE  OneInv' /\ Lawful
<1> DEFINE k == runtime[r]
           F == remote[k.turn].frames
<1>1. /\ k \in Runtime /\ Fits(log, remote, r, k) /\ k.pc = "observe" /\ k.turn \in Turns
      /\ k.rev \in Nat /\ k.rev <= Len(log) /\ Len(log) \in Nat /\ k.batch = <<>>
      /\ runtime \in [Runtimes -> Runtime] /\ UNCHANGED <<log, remote>>
  BY RuntimeIs DEF EndStream, IInv, Typed
<1>2. F \in Seq(Kinds \cup Terminals) /\ Len(F) \in Nat /\ k.expected \in Nat
  BY <1>1, LenProperties DEF IInv, Typed, Remote, Runtime
<1>3. PICK result \in Terminals \cup {"disconnected", "waiting"} :
        /\ runtime' = [runtime EXCEPT ![r].pc = "result", ![r].result = result]
        /\ result = "waiting" =>
             k.expected > Len(F) /\ ((F # <<>> /\ Last(F) = "waiting") \/ Paused(k.turn))
  BY Zenon DEF EndStream, Terminals
<1>4. F # <<>> => Last(F) # "waiting"
  <2>1. F # <<>> => F[Len(F)] \in Kinds \cup Terminals
    BY <1>2, ElementOfSeq
  <2> QED BY <2>1 DEF Last, Kinds, Terminals
<1> DEFINE y == [k EXCEPT !.pc = "result", !.result = result]
<1>5. runtime' = [runtime EXCEPT ![r] = y]
  BY <1>1, <1>3
<1>6. y.pc = "result" /\ y.turn = k.turn /\ y.rev = k.rev /\ y.result = result /\ y.failed = k.failed
  BY <1>1 DEF Runtime
<1> HIDE DEF y
<1>7. ASSUME SeesPause(y)
      PROVE  Stuck(remote, k.turn) /\ AllSaved(log, remote, k.turn)
  <2>1. result = "waiting" /\ ~k.failed
    BY <1>6, <1>7 DEF SeesPause
  <2>2. k.expected > Len(F) /\ Paused(k.turn)
    BY <1>3, <1>4, <2>1
  <2>3. Stuck(remote, k.turn)
    BY <2>2 DEF Paused, Stuck
  <2>4. Complete(log, F, k)
    BY <1>1, NoneAssumption DEF Fits, RuntimeOK, Observation
  <2>5. ASSUME NEW s \in 1..Len(F), Written(F[s])
        PROVE  Saved(log, k.turn, s, Len(log))
    <3>1. s \in 1..(k.expected - 1)
      BY <1>2, <2>2
    <3>2. Has(log, k, s)
      BY <2>1, <2>4, <2>5, <3>1 DEF Complete
    <3>3. Len(k.batch) = 0
      BY <1>1, EmptySeq
    <3>4. Saved(log, k.turn, s, k.rev)
      BY <3>2, <3>3 DEF Has
    <3> QED BY <1>1, <3>4, SavedKept
  <2> QED BY <2>3, <2>5 DEF AllSaved
<1>8. Fine(log, remote, r, k) => Fine(log, remote, r, y)
  BY <1>1, <1>6, <1>7, MoveFine
<1> QED BY <1>1, <1>5, <1>8, QuietOne

LEMMA ConcludeOne ==
  ASSUME IInv, IInv', OneInv, NEW r \in Runtimes, Conclude(r)
  PROVE  OneInv' /\ Lawful
<1> DEFINE k0 == runtime[r]
           k == IF k0.failed THEN CaughtUp(k0) ELSE k0
<1>1. /\ k0 \in Runtime /\ k0.rev \in Nat /\ Len(log) \in Nat /\ UNCHANGED <<log, remote>>
  BY RuntimeIs DEF Conclude
<1>2. /\ k \in Runtime /\ k0.rev <= k.rev /\ k.rev \in Nat /\ k.pc = k0.pc /\ k.turn = k0.turn
      /\ k.failed = k0.failed /\ (~k.failed => k = k0)
  <2>1. k \in Runtime /\ k0.rev <= k.rev /\ k.pc = k0.pc /\ k.turn = k0.turn
    BY <1>1, CaughtUpStays
  <2>2. k.failed = k0.failed
    BY CaughtUpStays
  <2>3. k.rev \in Nat
    BY <2>1 DEF Runtime
  <2> QED BY <2>1, <2>2, <2>3
<1>3. k.pc = "result"
  BY DEF Conclude
<1> HIDE DEF k
<1>4. ASSUME NEW y, Onward(k, y), runtime' = [runtime EXCEPT ![r] = y]
      PROVE  OneInv' /\ Lawful
  <2>1. Fine(log, remote, r, k0) => Fine(log, remote, r, y)
    BY <1>1, <1>2, <1>3, <1>4, OnwardFine
  <2> QED BY <1>1, <1>4, <2>1, QuietOne
<1>5. ASSUME NEW status, runtime' = [runtime EXCEPT ![r] = Returns(k, status)]
      PROVE  OneInv' /\ Lawful
  BY <1>1, <1>5, ReturnsIdle, IdleOne
<1>6. ASSUME NEW b, NEW y \in Observed(r, k, b), runtime' = [runtime EXCEPT ![r] = y]
      PROVE  OneInv' /\ Lawful
  BY <1>2, <1>4, <1>6, ObservedOnward
<1>7. CASE ~k.failed /\ k.result = "waiting" /\ runtime' = [runtime EXCEPT ![r] = [k EXCEPT !.pc = "wait"]]
  <2> DEFINE y == [k EXCEPT !.pc = "wait"]
  <2>1. y.pc = "wait" /\ y.turn = k.turn /\ y.rev = k.rev
    BY <1>2 DEF Runtime
  <2> HIDE DEF y
  <2>2. SeesPause(k0) /\ k = k0
    BY <1>2, <1>3, <1>7 DEF SeesPause
  <2>3. ASSUME Fine(log, remote, r, k0)
        PROVE  Fine(log, remote, r, y)
    <3>1. ~remote[k0.turn].approved => Stuck(remote, k0.turn) /\ AllSaved(log, remote, k0.turn)
      BY <2>2, <2>3 DEF Fine
    <3> QED BY <1>1, <1>2, <1>3, <2>1, <2>3, <3>1, MoveFine
  <2>4. runtime' = [runtime EXCEPT ![r] = y]
    BY <1>7 DEF y
  <2> QED BY <1>1, <2>3, <2>4, QuietOne
<1>8. CASE runtime' = [runtime EXCEPT ![r] = [k EXCEPT !.pc = "finish"]]
  <2> DEFINE y == [k EXCEPT !.pc = "finish"]
  <2>1. Onward(k, y)
    BY <1>2 DEF Runtime, Onward
  <2> HIDE DEF y
  <2> QED BY <1>4, <1>8, <2>1 DEF y
<1> QED BY <1>5, <1>6, <1>7, <1>8 DEF Conclude, k

LEMMA CancelTurnOne ==
  ASSUME IInv, IInv', OneInv, NEW r \in Runtimes, CancelTurn(r)
  PROVE  OneInv' /\ Lawful
<1> DEFINE k0 == runtime[r]
           x == CaughtUp(k0)
           k == [x EXCEPT !.cancelling = TRUE]
           e == Plain("stopping", k.turn)
           y == [k EXCEPT !.rev = k.rev + 1, !.cancel = "saved"]
<1>1. /\ k0.rev \in Nat /\ k0.turn \in Turns \cup {None} /\ Len(log) \in Nat
  BY RuntimeIs
<1>2. /\ x \in Runtime /\ x.rev = Len(log) /\ k0.rev <= x.rev /\ x.pc = k0.pc /\ x.turn = k0.turn
      /\ x.result = k0.result /\ x.failed = k0.failed
  BY CaughtUpStays
<1>3. /\ k0.turn # None /\ UNCHANGED remote
      /\ \/ log' = log \o <<e>> /\ runtime' = [runtime EXCEPT ![r] = y]
         \/ runtime' = [runtime EXCEPT ![r] = k] /\ UNCHANGED log
  BY DEF CancelTurn
<1> HIDE DEF x
<1>4. /\ k \in Runtime /\ k.rev = x.rev /\ k.pc = x.pc /\ k.turn = x.turn
      /\ k.result = x.result /\ k.failed = x.failed
  BY <1>2 DEF Runtime
<1> HIDE DEF k
<1>5. CASE runtime' = [runtime EXCEPT ![r] = k] /\ UNCHANGED log
  BY <1>2, <1>3, <1>4, <1>5, StayOne
<1>6. CASE log' = log \o <<e>> /\ runtime' = [runtime EXCEPT ![r] = y]
  <2>1. e \in Event /\ ~Opening(e) /\ e.type \notin {"bound", "waiting"}
    BY <1>1, <1>2, <1>3, <1>4, PlainQuiet
  <2>2. Writable(<<e>>) /\ <<e>> \in Seq(Event)
    BY <2>1, PlainWritable
  <2>3. y \in Runtime
    BY <1>6, NextTyped
  <2>4. /\ y.rev = k.rev + 1 /\ y.pc = k.pc /\ y.turn = k.turn
        /\ y.result = k.result /\ y.failed = k.failed
    BY <1>4 DEF Runtime
  <2>5. k0.rev <= y.rev
    BY <1>1, <1>2, <1>4, <2>4
  <2> HIDE DEF y
  <2> DEFINE lg == log \o <<e>>
  <2> HIDE DEF lg
  <2>6. Fine(lg, remote, r, k0) => Leads(lg, remote, r, k0, k0)
    BY <1>1, StayLeads
  <2>7. Fine(lg, remote, r, k0) => Fine(lg, remote, r, y)
    BY <1>2, <1>4, <2>3, <2>4, <2>5, <2>6 DEF Leads
  <2> QED BY <1>3, <1>6, <2>2, <2>7, AppendOne DEF lg
<1> QED BY <1>3, <1>5, <1>6

\* One runtime sends messages.
OneSender == \A r, q \in Senders : r = q

\* A runtime that may have to bind is the one that sends.
LEMMA SenderStarts ==
  ASSUME OneInv, OneSender, NEW r \in Senders, NEW q \in Runtimes, Starts(log, runtime[q])
  PROVE  q = r
<1>1. Fine(log, remote, q, runtime[q])
  BY DEF OneInv
<1>2. q \in Senders
  BY <1>1 DEF Fine
<1> QED BY <1>2 DEF OneSender

\* A single event is written.
LEMMA SingleWritable ==
  ASSUME NEW e \in Event,
         Opening(e) => Free(log) \/ (e.type # "admitted" /\ Holds(log, e.turn)),
         e.type = "bound" => Opened(log, e.turn),
         e.type = "waiting" => Stuck(remote, e.turn) /\ AllSaved(log, remote, e.turn),
         \A q \in Runtimes :
           Opening(e) /\ Starts(log, runtime[q]) /\ Going(log, runtime[q].turn) =>
             Holds(log, e.turn) \/ e.turn = runtime[q].turn
  PROVE  Writable(<<e>>) /\ <<e>> \in Seq(Event) /\ <<e>> # <<>>
<1> DEFINE d == <<e>>
<1>1. d \in Seq(Event) /\ d # <<>> /\ Len(d) = 1 /\ \A i \in 1..Len(d) : d[i] = e
  OBVIOUS
<1> HIDE DEF d
<1>2. Proper(log, d)
  BY <1>1 DEF Proper
<1>3. \A q \in Runtimes : Undisturbed(log, d, runtime[q])
  BY <1>1 DEF Undisturbed
<1>4. Writable(d)
  BY <1>1, <1>2, <1>3 DEF Writable
<1> QED BY <1>1, <1>4 DEF d

LEMMA AdmitOne ==
  ASSUME IInv, IInv', OneInv, OneSender, NEW r \in Runtimes, Admit(r)
  PROVE  OneInv' /\ Lawful
<1> DEFINE k == runtime[r]
           t == k.turn
           e == Plain("admitted", t)
           d == <<e>>
           next == [k EXCEPT !.pc = "attempt", !.attempt = 1]
           thrown == Returns(k, "error")
<1>1. /\ k \in Runtime /\ k.pc = "admit" /\ t \in Turns /\ k.rev \in Nat /\ k.rev <= Len(log)
      /\ UNCHANGED remote
  BY RuntimeIs DEF Admit
<1>2. CASE runtime' = [runtime EXCEPT ![r] = Returns([k EXCEPT !.turn = None], "busy")] /\ UNCHANGED log
  BY <1>1, <1>2, ReturnsIdle, IdleOne
<1>3. CASE Active(Prefix(k)) = None /\ Persist(r, d, next, thrown)
  <2>1. log \in Seq(Event) /\ r \in Senders
    BY <1>1 DEF IInv, Typed, OneInv, Fine
  <2>2. e \in Event /\ e.turn = t /\ e.type = "admitted" /\ Opening(e)
    BY <1>1, PlainTyped DEF Opening
  <2>3. next \in Runtime /\ next.rev = k.rev /\ next.pc = "attempt" /\ next.turn = t
    BY <1>1 DEF Runtime
  <2>4. thrown \in Runtime /\ thrown.rev = k.rev /\ thrown.pc = "idle"
    <3>1. "error" \in Told
      BY DEF Told
    <3> QED BY <1>1, <3>1, ReturnsOnward, ReturnsIdle
  <2>5. d \in Seq(Event) /\ d # <<>> /\ Len(d) = 1 /\ d[1] = e
    BY <2>2
  <2>6. d # <<>> /\ k.rev = Len(log) => Writable(d)
    <3> SUFFICES ASSUME k.rev = Len(log)
                 PROVE  Writable(d)
      OBVIOUS
    <3>1. Free(log)
      BY <1>3, <2>1, PrefixWhole, FreeIs
    <3>2. \A q \in Runtimes : ~Starts(log, runtime[q])
      BY <1>1, <2>1, SenderStarts DEF Starts
    <3> HIDE DEF e
    <3> QED BY <2>2, <3>1, <3>2, SingleWritable
  <2> HIDE DEF e, d, next, thrown
  <2>7. Leads(log \o d, remote, r, k, next)
    <3> DEFINE lg == log \o d
    <3>1. GoesOn(log, d, lg)
      BY <2>1, <2>5, AppendGoesOn
    <3> HIDE DEF lg
    <3>2. lg \in Seq(Event) /\ Len(log) + 1 \in 1..Len(lg) /\ lg[Len(log) + 1] = e
      BY <2>5, <3>1 DEF GoesOn
    <3>3. Opened(lg, t)
      BY <2>2, <3>2 DEF Opened
    <3>4. ASSUME Going(lg, t), NEW u \in Turns, Holds(lg, u)
          PROVE  u = t
      <4>1. Going(log, t)
        BY <3>1, <3>4, GoingBack
      <4>2. Holds(lg, t)
        BY <2>2, <2>5, <3>1, <4>1, HoldsNew
      <4> QED BY <1>1, <3>2, <3>4, <4>2, HoldsOnce
    <3>5. ASSUME NEW y \in Runtime, y.pc = "attempt", y.turn = t
          PROVE  Fine(lg, remote, r, y)
      BY <2>1, <3>3, <3>4, <3>5 DEF Fine, SeesPause
    <3> QED BY <2>3, <3>5 DEF Leads, lg
  <2>8. Leads(log, remote, r, k, thrown) /\ Leads(log \o d, remote, r, k, thrown)
    BY <2>4, IdleLeads
  <2> QED BY <1>1, <1>3, <2>3, <2>4, <2>5, <2>6, <2>7, <2>8, PersistOne
<1> QED BY <1>2, <1>3 DEF Admit

LEMMA BindOne ==
  ASSUME IInv, IInv', OneInv, OneSender, NEW r \in Runtimes, Bind(r)
  PROVE  OneInv' /\ Lawful
<1> DEFINE k == runtime[r]
           t == k.turn
           e == Plain("bound", t)
           d == IF Canonical(Prefix(k), t) # None THEN <<>> ELSE <<e>>
           next == Observes(k)
           thrown == Throws(k)
<1>1. /\ k \in Runtime /\ k.pc = "bind" /\ t \in Turns /\ k.rev \in Nat /\ k.rev <= Len(log)
      /\ Fits(log, remote, r, k)
  BY RuntimeIs DEF Bind
<1>2. Persist(r, d, next, thrown) /\ UNCHANGED remote
  BY DEF Bind
<1>3. log \in Seq(Event) /\ remote \in [Turns -> Remote] /\ Fine(log, remote, r, k)
  BY DEF IInv, Typed, OneInv
<1>4. Starts(log, k)
  BY <1>1 DEF Starts
<1>5. r \in Senders /\ Opened(log, t) /\ (Going(log, t) => \A u \in Turns : Holds(log, u) => u = t)
  BY <1>1, <1>3, <1>4 DEF Fine
<1>6. e \in Event /\ e.turn = t /\ e.type = "bound"
  BY <1>1, PlainTyped
<1>7. next \in Runtime /\ next.rev = k.rev /\ Onward(k, next)
  <2>1. Observes(k) \in Runtime
    BY <1>1, <1>3, ObservesFits DEF Fits
  <2>2. Onward(k, Observes(k)) /\ Observes(k).rev = k.rev
    BY <1>1 DEF Observes, Onward, Runtime
  <2> QED BY <2>1, <2>2
<1>8. thrown \in Runtime /\ thrown.rev = k.rev /\ Onward(k, thrown)
  BY <1>1, ThrowsOnward
<1>9. d \in Seq(Event)
  BY <1>6, EmptySeq
<1>10. ASSUME d # <<>>, k.rev = Len(log)
       PROVE  Writable(d)
  <2>1. d = <<e>> /\ Canonical(Prefix(k), t) = None
    BY <1>10
  <2>2. Going(log, t)
    BY <1>1, <1>3, <1>10, <2>1, PrefixWhole, GoingIs
  <2>3. Free(log) \/ Holds(log, t)
    BY <1>5, <2>2 DEF Free
  <2>4. \A q \in Runtimes : Starts(log, runtime[q]) => t = runtime[q].turn
    BY <1>5, SenderStarts
  <2> HIDE DEF e, d
  <2>5. Writable(<<e>>)
    BY <1>5, <1>6, <2>3, <2>4, SingleWritable
  <2> QED BY <2>1, <2>5
<1> HIDE DEF d, next, thrown
<1>11. Leads(log, remote, r, k, next) /\ Leads(log, remote, r, k, thrown)
  BY <1>1, <1>3, <1>7, <1>8, OnwardLeads
<1>12. Fine(log \o d, remote, r, k) =>
         Leads(log \o d, remote, r, k, next) /\ Leads(log \o d, remote, r, k, thrown)
  BY <1>1, <1>7, <1>8, OnwardLeads
<1> QED BY <1>2, <1>7, <1>8, <1>9, <1>10, <1>11, <1>12, PersistOne

LEMMA WaitOne ==
  ASSUME IInv, IInv', OneInv, NEW r \in Runtimes, Wait(r)
  PROVE  OneInv' /\ Lawful
<1> DEFINE k == runtime[r]
           t == k.turn
           recorded == Waiting(Prefix(k), t) \/ Canonical(Prefix(k), t) # None
           e == Plain("waiting", t)
           d == IF recorded THEN <<>> ELSE <<e>>
           next == Returns(k, "waiting")
           thrown == Throws(k)
<1>1. /\ k \in Runtime /\ k.pc = "wait" /\ t \in Turns /\ k.rev \in Nat /\ k.rev <= Len(log)
      /\ UNCHANGED remote /\ Fine(log, remote, r, k)
  BY RuntimeIs DEF Wait, OneInv
<1>2. thrown \in Runtime /\ thrown.rev = k.rev /\ Onward(k, thrown)
  BY <1>1, ThrowsOnward
<1>3. CASE (recorded \/ ~remote[t].approved) /\ Persist(r, d, next, thrown)
  <2>1. next \in Runtime /\ next.rev = k.rev /\ Onward(k, next)
    <3>1. "waiting" \in Told
      BY DEF Told
    <3> QED BY <1>1, <3>1, ReturnsOnward
  <2>2. e \in Event /\ e.turn = t /\ e.type = "waiting" /\ ~Opening(e)
    BY <1>1, PlainTyped DEF Opening
  <2>3. d \in Seq(Event)
    BY <2>2, EmptySeq
  <2>4. ASSUME d # <<>>
        PROVE  Writable(d)
    <3>1. d = <<e>> /\ ~remote[t].approved
      BY <1>3, <2>4
    <3>2. Stuck(remote, t) /\ AllSaved(log, remote, t)
      BY <1>1, <3>1 DEF Fine, SeesPause
    <3> HIDE DEF e, d
    <3>3. Writable(<<e>>)
      BY <2>2, <3>2, SingleWritable
    <3> QED BY <3>1, <3>3
  <2> HIDE DEF d, next, thrown
  <2>5. Leads(log, remote, r, k, next) /\ Leads(log, remote, r, k, thrown)
    BY <1>1, <1>2, <2>1, OnwardLeads
  <2>6. Fine(log \o d, remote, r, k) =>
          Leads(log \o d, remote, r, k, next) /\ Leads(log \o d, remote, r, k, thrown)
    BY <1>1, <1>2, <2>1, OnwardLeads
  <2> QED BY <1>1, <1>2, <1>3, <2>1, <2>3, <2>4, <2>5, <2>6, PersistOne
<1>4. CASE runtime' = [runtime EXCEPT ![r] = [thrown EXCEPT !.retries = 0]] /\ UNCHANGED log
  <2> DEFINE y == [thrown EXCEPT !.retries = 0]
  <2> HIDE DEF thrown
  <2>1. y.pc = thrown.pc /\ y.turn = thrown.turn /\ y.rev = thrown.rev
    BY <1>2 DEF Runtime
  <2> HIDE DEF y
  <2>2. runtime' = [runtime EXCEPT ![r] = y]
    BY <1>4 DEF y
  <2>3. y \in Runtime
    BY <2>2, NextTyped
  <2>4. Onward(k, y)
    BY <1>2, <2>1 DEF Onward
  <2> QED BY <1>1, <1>4, <2>2, <2>3, <2>4, OnwardOne
<1> QED BY <1>3, <1>4 DEF Wait

\* Frames that the log does not have are of the active turn, or of one that has ended.
LEMMA SaveFramesOne ==
  ASSUME IInv, IInv', OneInv, NEW r \in Runtimes, SaveFrames(r)
  PROVE  OneInv' /\ Lawful
<1> DEFINE k == runtime[r]
           t == k.turn
           F == remote[t].frames
           safe == {k.batch[i].seq : i \in {j \in DOMAIN k.batch : k.batch[j].safe}}
           m == IF safe = {} THEN k.safe ELSE Max(safe)
           next == [k EXCEPT !.batch = <<>>, !.safe = m]
           thrown == [k EXCEPT !.batch = <<>>, !.failed = TRUE]
<1>1. /\ k \in Runtime /\ Fits(log, remote, r, k) /\ t \in Turns /\ t # None /\ k.pc = "observe"
      /\ Len(log) \in Nat /\ k.rev \in Nat /\ k.rev <= Len(log) /\ k.safe \in Nat
  BY RuntimeIs, NoneAssumption DEF SaveFrames
<1>2. log \in Seq(Event) /\ remote \in [Turns -> Remote] /\ Fine(log, remote, r, k)
  BY DEF IInv, Typed, OneInv
<1>3. PICK at \in InOrder(Fresh(k)) : Persist(r, FrameDrafts(r, at), next, thrown)
  BY DEF SaveFrames
<1>4. UNCHANGED remote
  BY DEF SaveFrames
<1>5. /\ DOMAIN k.batch = 1..Len(k.batch) /\ k.expected \in Nat
      /\ \A j \in 1..Len(k.batch) : k.batch[j].seq \in Nat
  <2>1. k.batch \in Seq([seq : Nat, safe : BOOLEAN]) /\ k.expected \in Nat
    BY <1>1 DEF Runtime
  <2>2. \A j \in 1..Len(k.batch) : k.batch[j] \in [seq : Nat, safe : BOOLEAN]
    BY <2>1, ElementOfSeq
  <2> QED BY <2>1, <2>2, LenProperties
<1>6. /\ k.expected <= Len(F) + 1 /\ Len(F) \in Nat
      /\ \A j \in 1..Len(k.batch) :
           0 < k.batch[j].seq /\ k.batch[j].seq < k.expected /\ Written(F[k.batch[j].seq])
  <2>1. Observation(log, F, k)
    BY <1>1 DEF Fits, RuntimeOK
  <2>2. Len(F) \in Nat
    BY <1>1, <1>2, LenProperties DEF Remote
  <2> QED BY <2>1, <2>2 DEF Observation, BatchOK
<1>7. m \in Nat
  <2>1. CASE safe = {}
    BY <1>1, <2>1
  <2>2. CASE safe # {}
    <3>1. safe \subseteq 0..k.expected
      BY <1>5, <1>6
    <3>2. Max(safe) \in safe
      <4> HIDE DEF safe
      <4> QED BY <1>5, <2>2, <3>1, Largest
    <3>3. m = Max(safe)
      BY <2>2
    <3>4. safe \subseteq Nat
      BY <1>5
    <3> HIDE DEF m, safe
    <3>5. Max(safe) \in Nat
      BY <3>2, <3>4
    <3> QED BY <3>3, <3>5
  <2> QED BY <2>1, <2>2
<1> HIDE DEF m
<1>8. <<>> \in Seq([seq : Nat, safe : BOOLEAN])
  BY EmptySeq
<1>9. next \in Runtime /\ next.rev = k.rev /\ Onward(k, next)
  BY <1>1, <1>7, <1>8 DEF Runtime, Onward
<1>10. thrown \in Runtime /\ thrown.rev = k.rev /\ Onward(k, thrown)
  BY <1>1, <1>8 DEF Runtime, Onward
<1> DEFINE d == FrameDrafts(r, at)
<1>11. PICK c \in Nat : DOMAIN at = 1..c /\ \A i \in 1..c : at[i] \in Fresh(k)
  BY <1>1, FreshIs
<1>12. /\ d \in Seq(Event) /\ Len(d) = c
       /\ \A i \in 1..c : /\ at[i] \in 1..Len(k.batch) /\ d[i].type = "frame" /\ d[i].turn = t
                          /\ d[i].seq = k.batch[at[i]].seq
  <2>1. \A i \in 1..c : at[i] \in DOMAIN k.batch
    BY <1>11 DEF Fresh
  <2> QED BY <1>1, <1>5, <1>11, <2>1, DraftsAre
<1> HIDE DEF d, next, thrown
<1>13. ASSUME d # <<>>, k.rev = Len(log)
       PROVE  Holds(log, t) \/ ~Going(log, t)
  <2>1. c # 0
    BY <1>12, <1>13, EmptySeq
  <2> DEFINE j == at[1]
             s == k.batch[j].seq
  <2>2. j \in 1..Len(k.batch) /\ j \in Fresh(k)
    BY <1>11, <1>12, <2>1
  <2> HIDE DEF j
  <2>3. s \in 1..Len(F) /\ Written(F[s])
    <3> HIDE DEF k
    <3> QED BY <1>5, <1>6, <2>2
  <2>4. s \notin FrameKeys(Prefix(k), t)
    BY <2>2 DEF Fresh
  <2> HIDE DEF s
  <2>5. ~Saved(log, t, s, Len(log))
    <3>1. s > 0
      BY <1>6, <2>3
    <3> QED BY <1>1, <1>13, <2>4, <3>1, KeysAre
  <2>6. ~AllSaved(log, remote, t)
    BY <2>3, <2>5 DEF AllSaved
  <2>7. TurnOK(log, remote, t) /\ Opened(log, t)
    BY <1>1, <1>2 DEF OneInv, Fine
  <2> QED BY <2>6, <2>7 DEF TurnOK
<1>14. ASSUME d # <<>>, k.rev = Len(log)
       PROVE  Writable(d)
  <2>1. Proper(log, d)
    BY <1>12, <1>13, <1>14 DEF Proper
  <2>2. \A q \in Runtimes : Undisturbed(log, d, runtime[q])
    BY <1>12, <1>13, <1>14 DEF Undisturbed
  <2> QED BY <1>12, <2>1, <2>2 DEF Writable
<1>15. Leads(log, remote, r, k, next) /\ Leads(log, remote, r, k, thrown)
  BY <1>1, <1>2, <1>9, <1>10, OnwardLeads
<1>16. Fine(log \o d, remote, r, k) =>
         Leads(log \o d, remote, r, k, next) /\ Leads(log \o d, remote, r, k, thrown)
  BY <1>1, <1>9, <1>10, OnwardLeads
<1>17. Persist(r, d, next, thrown)
  BY <1>3 DEF d, next, thrown
<1> QED BY <1>4, <1>9, <1>10, <1>12, <1>14, <1>15, <1>16, <1>17, PersistOne

-----------------------------------------------------------------------------
(* One active turn: the steps of the transport and of the server *)

\* At most one turn waits for an approval.
OnePauses == \A t, u \in Turns : PauseAfter[t] > 0 /\ PauseAfter[u] > 0 => t = u

\* The server binds a turn that is active.
LEMMA BindTurnOne ==
  ASSUME IInv, OneInv, NEW t \in Turns, BindTurn(t)
  PROVE  OneInv' /\ Lawful
<1> DEFINE e == Plain("bound", t)
           d == <<e>>
<1>1. /\ log \in Seq(Event) /\ remote[t].running /\ Canonical(log, t) = None /\ ~Waiting(log, t)
      /\ log' = Append(log, e) /\ UNCHANGED <<remote, runtime>>
  BY DEF BindTurn, IInv, Typed
<1>2. e \in Event /\ e.turn = t /\ e.type = "bound"
  BY PlainTyped
<1>3. Going(log, t) /\ ~Resting(log, t)
  BY <1>1, GoingIs, WaitingIs
<1>4. Opened(log, t) /\ Holds(log, t)
  BY <1>1, <1>3 DEF OneInv, TurnOK
<1>5. d \in Seq(Event) /\ Len(d) = 1 /\ \A i \in 1..Len(d) : d[i] = e
  BY <1>2
<1>6. log' = log \o d
  BY <1>1, <1>2, AppendIsConcat
<1> HIDE DEF e, d
<1>7. GoesOn(log, d, log')
  BY <1>1, <1>5, <1>6, AppendGoesOn
<1>8. Proper(log, d)
  BY <1>2, <1>4, <1>5 DEF Proper
<1>9. \A u \in Turns : Still(remote, remote', u)
  BY <1>1, SameIsStill
<1>10. \A q \in Runtimes : Undisturbed(log, d, runtime[q])
  BY <1>2, <1>4, <1>5 DEF Undisturbed
<1> QED BY <1>1, <1>2, <1>4, <1>5, <1>7, <1>8, <1>9, <1>10, OneStepKeeps

\* An approval is given while no turn is active, and a turn that a runtime may have to
\* bind, if it is going, is then the one that waited.
LEMMA ApproveOne ==
  ASSUME IInv, OneInv, OnePauses, NEW t \in Turns, Approve(t)
  PROVE  OneInv' /\ Lawful
<1> DEFINE e == Plain("resumed", t)
           d == <<e>>
<1>1. /\ log \in Seq(Event) /\ remote \in [Turns -> Remote] /\ Paused(t) /\ Active(log) = None
      /\ log' = Append(log, e) /\ remote' = [remote EXCEPT ![t].approved = TRUE]
      /\ UNCHANGED runtime
  BY DEF Approve, IInv, Typed
<1>2. e \in Event /\ e.turn = t /\ e.type = "resumed" /\ Opening(e)
  BY PlainTyped DEF Opening
<1>3. Free(log)
  BY <1>1, FreeIs
<1>4. d \in Seq(Event) /\ Len(d) = 1 /\ \A i \in 1..Len(d) : d[i] = e
  BY <1>2
<1>5. log' = log \o d
  BY <1>1, <1>2, AppendIsConcat
<1> HIDE DEF e, d
<1>6. GoesOn(log, d, log')
  BY <1>1, <1>4, <1>5, AppendGoesOn
<1>7. Proper(log, d)
  BY <1>3, <1>4 DEF Proper
<1>8. /\ remote'[t].approved /\ remote'[t].running = remote[t].running
      /\ \A u \in Turns \ {t} : remote'[u] = remote[u]
  BY <1>1 DEF Remote
<1>9. \A u \in Turns \ {t} : Still(remote, remote', u)
  BY <1>8, SameIsStill
<1>10. \E i \in 1..Len(d) : d[i].turn = t /\ Opening(d[i])
  BY <1>2, <1>4
<1>11. ASSUME NEW q \in Runtimes
       PROVE  Undisturbed(log, d, runtime[q])
  <2> DEFINE u == runtime[q].turn
  <2> SUFFICES ASSUME Starts(log, runtime[q]), Going(log, u)
               PROVE  u = t
    BY <1>2, <1>4 DEF Undisturbed
  <2>1. u \in Turns /\ Opened(log, u)
    BY RuntimeIs DEF OneInv, Fine, Starts
  <2>2. Stuck(remote, u)
    BY <1>3, <2>1 DEF OneInv, TurnOK, Free
  <2>3. PauseAfter[u] > 0
    BY <2>2 DEF Stuck
  <2>4. PauseAfter[t] > 0
    BY <1>1 DEF Paused
  <2> QED BY <2>1, <2>3, <2>4 DEF OnePauses
<1>12. \A i \in 1..Len(d) : d[i].type # "bound" /\ d[i].type # "waiting"
  BY <1>2, <1>4
<1>13. \A u \in Turns :
         /\ remote'[u].running => remote[u].running
         /\ \/ Still(remote, remote', u)
            \/ remote'[u].approved /\ \E i \in 1..Len(d) : d[i].turn = u /\ Opening(d[i])
  BY <1>8, <1>9, <1>10
<1>14. runtime' = runtime
  BY <1>1
<1> QED BY <1>6, <1>7, <1>11, <1>12, <1>13, <1>14, OneStepKeeps

LEMMA ProduceOne ==
  ASSUME IInv, OneInv, NEW t \in Turns, Produce(t)
  PROVE  OneInv' /\ Lawful
<1> DEFINE F == remote[t].frames
           R == Response[t]
<1>1. /\ log \in Seq(Event) /\ remote \in [Turns -> Remote] /\ ~Ended(t) /\ UNCHANGED <<log, runtime>>
  BY DEF Produce, IInv, Typed
<1>2. /\ F \in Seq(Kinds \cup Terminals) /\ Len(F) \in Nat
      /\ \A s \in 1..Len(F) : F[s] \notin Terminals
      /\ R[Len(F) + 1] \in Kinds \cup Terminals
  BY <1>1, NextFrame
<1>3. PICK x \in Kinds \cup Terminals :
        /\ remote' = [remote EXCEPT ![t].frames = Append(F, x)]
        /\ Paused(t) => x = "cancelled"
  <2>1. "cancelled" \in Kinds \cup Terminals
    BY DEF Terminals
  <2> QED BY <1>2, <2>1 DEF Produce
<1> DEFINE F2 == Append(F, x)
<1>4. /\ F2 \in Seq(Kinds \cup Terminals) /\ Len(F2) = Len(F) + 1 /\ F2[Len(F) + 1] = x
      /\ \A s \in 1..Len(F) : F2[s] = F[s]
  BY <1>2, AppendProperties
<1>5. /\ remote'[t].running = remote[t].running /\ remote'[t].approved = remote[t].approved
      /\ remote'[t].frames = F2
      /\ \A u \in Turns \ {t} : remote'[u] = remote[u]
  BY <1>1, <1>3 DEF Remote
<1> HIDE DEF F2
<1>6. ASSUME Stuck(remote, t)
      PROVE  /\ Stuck(remote', t)
             /\ \A s \in 1..Len(F2) : Written(F2[s]) => s \in 1..Len(F) /\ F2[s] = F[s]
  <2>1. ~Over(F, Len(F))
    BY <1>2 DEF Over
  <2>2. Paused(t)
    BY <1>6, <2>1 DEF Stuck, Paused
  <2>3. x \in Terminals /\ ~Written(x)
    BY <1>3, <2>2 DEF Terminals, Written
  <2>4. Over(F2, Len(F2))
    BY <1>2, <1>4, <2>3 DEF Over
  <2>5. \A s \in 1..Len(F2) : s \in 1..Len(F) \/ s = Len(F) + 1
    BY <1>2, <1>4
  <2> QED BY <1>4, <1>5, <1>6, <2>3, <2>4, <2>5 DEF Stuck
<1>7. Still(remote, remote', t)
  BY <1>5, <1>6 DEF Still
<1>8. \A u \in Turns : Still(remote, remote', u)
  BY <1>5, <1>7, SameIsStill
<1>9. GoesOn(log, <<>>, log') /\ Proper(log, <<>>) /\ \A i \in 1..Len(<<>>) : FALSE
  <2>1. \A i \in 1..Len(<<>>) : FALSE
    BY EmptySeq
  <2> QED BY <1>1, <2>1, NothingGoesOn
<1>10. \A q \in Runtimes : Undisturbed(log, <<>>, runtime[q])
  BY <1>9 DEF Undisturbed
<1>11. \A u \in Turns : remote'[u].running => remote[u].running
  BY <1>5
<1> QED BY <1>1, <1>8, <1>9, <1>10, <1>11, OneStepKeeps

-----------------------------------------------------------------------------
(* One active turn: every step *)

LEMMA InitOne ==
  ASSUME Init
  PROVE  OneInv
<1>1. log = <<>> /\ Len(log) = 0 /\ \A i \in 1..Len(log) : FALSE
  BY EmptySeq DEF Init
<1>2. \A t \in Turns : ~remote[t].running
  BY DEF Init
<1>3. \A t \in Turns : TurnOK(log, remote, t)
  BY <1>1, <1>2 DEF TurnOK, Opened, Resting
<1>4. \A r \in Runtimes : runtime[r].pc = "idle"
  BY DEF Init, NewRuntime
<1>5. \A r \in Runtimes : Fine(log, remote, r, runtime[r])
  BY <1>4, IdleFine
<1> QED BY <1>1, <1>3, <1>5 DEF OneInv

LEMMA StutterOne ==
  ASSUME IInv, OneInv, UNCHANGED vars
  PROVE  OneInv' /\ Lawful
<1>1. log' = log /\ remote' = remote /\ runtime' = runtime
  BY DEF vars
<1>2. OneInv'
  BY <1>1, Zenon DEF OneInv
<1>3. GoesOn(log, <<>>, log') /\ Proper(log, <<>>)
  BY <1>1, NothingGoesOn DEF IInv, Typed
<1> QED BY <1>2, <1>3 DEF Lawful

LEMMA NextOne ==
  ASSUME OneSender, OnePauses, IInv, OneInv, [Next]_vars
  PROVE  OneInv' /\ Lawful
<1>1. IInv'
  BY NextKeeps
<1>2. ASSUME NEW r \in Runtimes, Step(r)
      PROVE  OneInv' /\ Lawful
  <2>1. CASE Admit(r) \/ Attempt(r) \/ Call(r) \/ Bind(r) \/ Deliver(r) \/ SaveFrames(r)
    BY <1>1, <2>1, AdmitOne, AttemptOne, CallOne, BindOne, DeliverOne, SaveFramesOne
  <2>2. CASE EndStream(r) \/ Conclude(r) \/ Wait(r) \/ Finish(r)
    BY <1>1, <2>2, EndStreamOne, ConcludeOne, WaitOne, FinishOne
  <2>3. CASE Retry(r) \/ Exhausted(r) \/ Fail(r) \/ Settle(r)
    BY <1>1, <2>3, RetryOne, ExhaustedOne, FailOne, SettleOne
  <2> QED BY <1>2, <2>1, <2>2, <2>3 DEF Step
<1>3. ASSUME NEW r \in Runtimes,
             CancelTurn(r) \/ CancelSend(r) \/ StopObserving(r) \/ Synchronize(r) \/ Crash(r)
      PROVE  OneInv' /\ Lawful
  BY <1>1, <1>3, CancelTurnOne, CancelSendOne, StopObservingOne, SynchronizeOne, CrashOne
<1>4. ASSUME NEW r \in Runtimes, NEW t \in Turns, SendMessage(r, t) \/ ResumeTurn(r, t)
      PROVE  OneInv' /\ Lawful
  BY <1>4, SendMessageOne, ResumeTurnOne
<1>5. ASSUME NEW t \in Turns, Produce(t) \/ BindTurn(t) \/ Approve(t)
      PROVE  OneInv' /\ Lawful
  BY <1>5, ProduceOne, BindTurnOne, ApproveOne
<1>6. CASE UNCHANGED vars
  BY <1>6, StutterOne
<1> QED BY <1>2, <1>3, <1>4, <1>5, <1>6 DEF Next

\* No turn is admitted (persistAdmittedTurn()), and none is given a running status
\* (startPersistedTurn(), persistFrameDrafts(), an approval), while another one is active,
\* if one runtime sends messages and at most one turn waits for an approval.  With two
\* senders, or two turns that wait, an approval can come between the admission of a turn
\* and the status that binds it, which assertRebasedDraftsRemainCompatible() looks at only
\* when the append itself conflicts.
THEOREM OneTurnIsActive ==
  ASSUME OneSender, OnePauses
  PROVE  Spec => OneActiveTurn
<1> DEFINE Law == \A i \in Len(log) + 1 .. Len(log') : Opening(log'[i]) =>
             LET before == SubSeq(log', 1, i - 1) IN
             \/ Active(before) = None
             \/ log'[i].type # "admitted" /\ (Active(before) = log'[i].turn
                                              \/ Canonical(before, log'[i].turn) # None)
<1>1. Init => OneInv
  BY InitOne
<1>2. IInv /\ OneInv /\ [Next]_vars => OneInv'
  BY NextOne
<1>3. IInv /\ OneInv /\ [Next]_vars => [Law]_vars
  <2> SUFFICES ASSUME IInv, OneInv, [Next]_vars
               PROVE  Law
    OBVIOUS
  <2>1. PICK d : GoesOn(log, d, log') /\ Proper(log, d)
    BY NextOne DEF Lawful
  <2> QED BY <2>1, ProperIsOne
<1>4. Spec => []IInv
  BY Invariance
<1>5. Spec => [][Law]_vars
  <2> HIDE DEF Law
  <2> QED BY <1>1, <1>2, <1>3, <1>4, PTL DEF Spec
<1> QED BY <1>5 DEF OneActiveTurn

=============================================================================
