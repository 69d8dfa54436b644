------------------------ MODULE SyncCoordinatorProofs ------------------------
(* Proofs about SyncCoordinator.                                              *)
EXTENDS SyncCoordinator, SequenceTheorems, FiniteSetTheorems, TLAPS

-----------------------------------------------------------------------------
(* Prefixes and ranges *)

\* IsPrefix, element by element.
LEMMA PrefixIs ==
  ASSUME NEW S, NEW s \in Seq(S), NEW t \in Seq(S)
  PROVE  IsPrefix(s, t) <=> Len(s) <= Len(t) /\ \A i \in 1..Len(s) : s[i] = t[i]
  <1>1. Len(s) \in Nat /\ Len(t) \in Nat
    BY LenProperties
  <1>2. SubSeq(s, 1, Len(s)) = s
    BY SubSeqFull
  <1>3. ASSUME Len(s) <= Len(t)
        PROVE  /\ SubSeq(t, 1, Len(s)) \in Seq(S) /\ Len(SubSeq(t, 1, Len(s))) = Len(s)
               /\ \A i \in 1..Len(s) : SubSeq(t, 1, Len(s))[i] = t[i]
    <2>1. \A i \in 1..Len(s) : t[i] \in S
      BY <1>1, <1>3, ElementOfSeq
    <2> QED BY <1>1, <2>1, SubSeqProperties
  <1> QED BY <1>1, <1>2, <1>3, SeqEqual DEF IsPrefix

LEMMA PrefixReflexive ==
  ASSUME NEW S, NEW s \in Seq(S)
  PROVE  IsPrefix(s, s)
  BY PrefixIs, LenProperties

LEMMA PrefixTransitive ==
  ASSUME NEW S, NEW s \in Seq(S), NEW t \in Seq(S), NEW u \in Seq(S),
         IsPrefix(s, t), IsPrefix(t, u)
  PROVE  IsPrefix(s, u)
  BY PrefixIs, LenProperties

LEMMA PrefixEmpty ==
  ASSUME NEW S, NEW s \in Seq(S)
  PROVE  IsPrefix(<<>>, s)
  <1>1. <<>> \in Seq(S) /\ Len(<<>>) = 0 /\ Len(s) \in Nat
    BY EmptySeq, LenProperties
  <1>2. Len(<<>>) <= Len(s) /\ \A i \in 1..Len(<<>>) : <<>>[i] = s[i]
    BY <1>1
  <1> QED BY <1>1, <1>2, PrefixIs

\* Of two prefixes of one sequence the shorter is a prefix of the longer.
LEMMA PrefixOrdered ==
  ASSUME NEW S, NEW s \in Seq(S), NEW t \in Seq(S), NEW u \in Seq(S),
         IsPrefix(s, u), IsPrefix(t, u), Len(s) <= Len(t)
  PROVE  IsPrefix(s, t)
  BY PrefixIs, LenProperties

LEMMA PrefixConcat ==
  ASSUME NEW S, NEW s \in Seq(S), NEW t \in Seq(S)
  PROVE  s \o t \in Seq(S) /\ IsPrefix(s, s \o t)
  <1>1. /\ Len(s) \in Nat /\ Len(t) \in Nat
        /\ s \o t \in Seq(S) /\ Len(s \o t) = Len(s) + Len(t)
    BY LenProperties, ConcatProperties
  <1>2. \A i \in 1..Len(s) : s[i] = (s \o t)[i]
    BY <1>1, ConcatProperties
  <1>3. Len(s) <= Len(s \o t)
    BY <1>1
  <1>4. IsPrefix(s, s \o t)
    BY <1>1, <1>2, <1>3, PrefixIs
  <1> QED BY <1>1, <1>4

LEMMA PrefixRange ==
  ASSUME NEW S, NEW s \in Seq(S), NEW t \in Seq(S), IsPrefix(s, t)
  PROVE  Range(s) \subseteq Range(t)
  BY PrefixIs, LenProperties DEF Range

LEMMA RangeConcat ==
  ASSUME NEW S, NEW s \in Seq(S), NEW t \in Seq(S)
  PROVE  Range(s \o t) = Range(s) \cup Range(t)
  BY RangeConcatenation

LEMMA EmptyQueue == Range(<<>>) = {} /\ IsInjective(<<>>)
  BY DEF Range, IsInjective

\* A sequence without repetition, continued by another one with no element in common.
LEMMA InjectiveConcat ==
  ASSUME NEW S, NEW s \in Seq(S), NEW t \in Seq(S), IsInjective(s), IsInjective(t),
         Range(s) \cap Range(t) = {}
  PROVE  IsInjective(s \o t)
  <1> DEFINE st == s \o t
  <1>1. /\ Len(s) \in Nat /\ Len(t) \in Nat
        /\ DOMAIN s = 1..Len(s) /\ DOMAIN t = 1..Len(t) /\ DOMAIN st = 1..(Len(s) + Len(t))
    BY LenProperties, ConcatProperties
  <1>2. \A i \in 1..(Len(s) + Len(t)) : st[i] = IF i <= Len(s) THEN s[i] ELSE t[i - Len(s)]
    BY ConcatProperties
  <1>3. \A i \in 1..Len(s), j \in 1..Len(t) : s[i] # t[j]
    BY <1>1 DEF Range
  <1> HIDE DEF st
  <1>4. ASSUME NEW i \in DOMAIN st, NEW j \in DOMAIN st, st[i] = st[j] PROVE i = j
    <2>1. CASE i <= Len(s) /\ j <= Len(s)
      BY <1>1, <1>2, <1>4, <2>1 DEF IsInjective
    <2>2. CASE i <= Len(s) /\ ~(j <= Len(s))
      BY <1>1, <1>2, <1>3, <1>4, <2>2
    <2>3. CASE ~(i <= Len(s)) /\ j <= Len(s)
      BY <1>1, <1>2, <1>3, <1>4, <2>3
    <2>4. CASE ~(i <= Len(s)) /\ ~(j <= Len(s))
      <3>1. t[i - Len(s)] = t[j - Len(s)] /\ i - Len(s) \in 1..Len(t) /\ j - Len(s) \in 1..Len(t)
        BY <1>1, <1>2, <1>4, <2>4
      <3>2. i - Len(s) = j - Len(s)
        BY <1>1, <3>1 DEF IsInjective
      <3> QED BY <1>1, <3>2
    <2> QED BY <2>1, <2>2, <2>3, <2>4
  <1> QED BY <1>4 DEF IsInjective, st

LEMMA AppendQueue ==
  ASSUME NEW S, NEW s \in Seq(S), NEW e \in S
  PROVE  /\ Append(s, e) \in Seq(S) /\ IsPrefix(s, Append(s, e))
         /\ Range(Append(s, e)) = Range(s) \cup {e}
         /\ IsInjective(s) /\ e \notin Range(s) => IsInjective(Append(s, e))
  <1>1. /\ Append(s, e) = s \o <<e>> /\ <<e>> \in Seq(S)
        /\ Range(<<e>>) = {e} /\ IsInjective(<<e>>)
    BY AppendIsConcat DEF Range, IsInjective
  <1> DEFINE one == <<e>>
  <1> HIDE DEF one
  <1>2. one \in Seq(S) /\ Range(one) = {e} /\ IsInjective(one)
    BY <1>1 DEF one
  <1>3. s \o one \in Seq(S) /\ IsPrefix(s, s \o one)
    BY <1>2, PrefixConcat
  <1>4. Range(s \o one) = Range(s) \cup {e}
    BY <1>2, RangeConcat
  <1>5. ASSUME IsInjective(s), e \notin Range(s) PROVE IsInjective(s \o one)
    BY <1>2, <1>5, InjectiveConcat
  <1> QED BY <1>1, <1>3, <1>4, <1>5 DEF one

-----------------------------------------------------------------------------
(* The inductive invariant *)

\* What holds of a coordinator over a log.
Sound(k, lg) ==
  /\ k \in Client
  /\ IsInjective(k.pending) /\ IsPrefix(k.auth, lg)
  /\ k.pc = "ackPull" => Range(k.pending) \subseteq Range(lg)

\* A later state of a coordinator, or one that starts from a record: it knows what
\* the earlier one knew, and what it dropped from the queue is in the log.
Follows(k, k2, lg) ==
  /\ IsPrefix(k.auth, k2.auth)
  /\ Range(k.pending) \subseteq Range(k2.pending) \cup Range(lg)

SavedSound(record) ==
  /\ IsInjective(record.pending)
  /\ ~record.stored => record.auth = <<>> /\ record.pending = <<>>

\* No queue holds a mutation twice, wherever it is kept; a coordinator that may
\* replace the saved record knows what is in it.
SyncInv ==
  /\ TypeOK /\ AppendedOnce /\ Faithful /\ NothingLost
  /\ \A c \in Clients : Sound(client[c], log)
  /\ \A s \in Stores : SavedSound(saved[s])
  /\ \A c \in Clients : late[c] # None => IsInjective(late[c].batch)
  /\ \A c \in Clients :
       c \in holders[StoreOf[c]] => Follows(saved[StoreOf[c]], client[c], log)

\* AuthorityGrows, of one step.
Grows ==
  /\ \A c \in Clients : client[c].started /\ client'[c].started
       => IsPrefix(client[c].auth, client'[c].auth)
  /\ \A s \in Stores : IsPrefix(saved[s].auth, saved'[s].auth)

\* What a step does to the log, to the coordinators and to the device's logs.
LogExtends == log' \in Seq(Events) /\ IsPrefix(log, log') /\ IsInjective(log')
ClientsFollow(lg) ==
  /\ client' \in [Clients -> Client]
  /\ \A c \in Clients :
       /\ Sound(client'[c], lg) /\ IsPrefix(client[c].auth, client'[c].auth)
       /\ c \in holders[StoreOf[c]] => Follows(client[c], client'[c], lg)
LocalFollows(lg) ==
  /\ local' \in [Stores -> Seq(Events)]
  /\ \A s \in Stores : IsPrefix(local'[s], lg)
OutcomeKept ==
  /\ outcome' \in [Mutations ->
       {"none", "queued", "requeued", "repeated", "failed", "rejected"}]
  /\ \A m \in Mutations : outcome'[m] \in {"queued", "requeued"}
       => outcome[m] \in {"queued", "requeued"}
LateSound ==
  /\ late' \in [Clients -> Request \cup {None}]
  /\ \A c \in Clients : late'[c] # None => IsInjective(late'[c].batch)

-----------------------------------------------------------------------------
(* Where an operation goes *)

\* A coordinator that goes on elsewhere, with what it knows and has queued.
Same(k, k2) ==
  /\ k2 \in Client /\ k2.auth = k.auth /\ k2.pending = k.pending
  /\ k2.pc = "ackPull" => k.pc = "ackPull"

LEMMA SyncTypes ==
  ASSUME SyncInv
  PROVE  /\ log \in Seq(Events) /\ Len(log) \in Nat
         /\ \A c \in Clients : /\ client[c] \in Client
                               /\ client[c].auth \in Seq(Events)
                               /\ client[c].pending \in Seq(Mutations)
                               /\ client[c].pending \in Seq(Events)
                               /\ StoreOf[c] \in Stores
         /\ \A s \in Stores : /\ saved[s] \in Record /\ local[s] \in Seq(Events)
                              /\ saved[s].auth \in Seq(Events)
                              /\ saved[s].pending \in Seq(Mutations)
  <1>1. Seq(Mutations) \subseteq Seq(Events)
    BY SeqMonotonic DEF Events
  <1> QED BY <1>1, LenProperties, DevicesAssumption DEF SyncInv, TypeOK, Client, Record

LEMMA FollowsSame ==
  ASSUME NEW lg \in Seq(Events), NEW k, NEW k2, Sound(k, lg), Same(k, k2)
  PROVE  Sound(k2, lg) /\ Follows(k, k2, lg)
  <1>1. k.auth \in Seq(Events)
    BY DEF Sound, Client
  <1>2. IsPrefix(k.auth, k2.auth)
    BY <1>1, PrefixReflexive DEF Same
  <1> QED BY <1>2 DEF Sound, Same, Follows

\* A log that grows takes nothing from what is sound.
LEMMA SoundGrows ==
  ASSUME NEW lg \in Seq(Events), NEW lh \in Seq(Events), IsPrefix(lg, lh),
         NEW k, Sound(k, lg)
  PROVE  Sound(k, lh)
  <1>1. k.auth \in Seq(Events)
    BY DEF Sound, Client
  <1>2. IsPrefix(k.auth, lh)
    BY <1>1, PrefixTransitive DEF Sound
  <1>3. Range(lg) \subseteq Range(lh)
    BY PrefixRange
  <1> QED BY <1>2, <1>3 DEF Sound

\* The ends and turns of an operation keep what the coordinator knows.
LEMMA Turns ==
  ASSUME SyncInv, NEW k \in Client
  PROVE  /\ Same(k, Idle(k)) /\ Same(k, Failed(k)) /\ Same(k, Thrown(k))
         /\ Same(k, Reconnect(k)) /\ Same(k, Reconnect(Idle(k)))
         /\ Same(k, SendOrEnd(k)) /\ Same(k, CaughtUp(k)) /\ Same(k, Conflicted(k))
         /\ Idle(k).pc = "idle" /\ Failed(k).pc = "idle" /\ Thrown(k).pc = "idle"
         /\ SendOrEnd(k).pc # "ackPull" /\ CaughtUp(k).pc # "ackPull"
  <1> USE DEF Same
  <1>0. Len(log) \in Nat /\ 0 \in 0..MaximumConflicts
    BY SyncTypes, SizesAssumption
  <1>1. Same(k, Idle(k)) /\ Idle(k).pc = "idle"
    BY <1>0 DEF Idle, Client
  <1>2. Same(k, Failed(k)) /\ Failed(k).pc = "idle"
    BY <1>0 DEF Failed, Idle, Client
  <1>3. ASSUME NEW j \in Client PROVE Same(j, Reconnect(j)) /\ Reconnect(j).pc = j.pc
    BY DEF Reconnect, Client
  <1>4. Same(k, Reconnect(Idle(k))) /\ Reconnect(Idle(k)).pc = "idle"
    BY <1>1, <1>3
  <1>5. Same(k, Thrown(k)) /\ Thrown(k).pc = "idle"
    BY <1>1, <1>2, <1>4 DEF Thrown
  <1>6. ASSUME NEW j \in Client
        PROVE  Idle(j) \in Client /\ Same(j, Idle(j)) /\ Idle(j).pc = "idle"
    BY <1>0 DEF Idle, Client
  <1>7. \A j \in Client : Same(j, SendOrEnd(j)) /\ SendOrEnd(j).pc # "ackPull"
    <2> TAKE j \in Client
    <2>1. CASE j.started /\ j.pending # <<>>
      BY <1>0, <2>1 DEF SendOrEnd, Client
    <2>2. CASE ~(j.started /\ j.pending # <<>>)
      BY <1>6, <2>2 DEF SendOrEnd
    <2> QED BY <2>1, <2>2
  <1>8. Same(k, CaughtUp(k)) /\ CaughtUp(k).pc # "ackPull"
    <2> DEFINE j == [k EXCEPT !.link = IF k.started THEN "up" ELSE "down"]
    <2>1. j \in Client /\ j.auth = k.auth /\ j.pending = k.pending /\ j.pc = k.pc
      BY DEF Client
    <2>2. CASE k.op = "update"
      BY <1>1, <2>2 DEF CaughtUp
    <2>3. CASE k.op # "update"
      <3>1. CaughtUp(k) = SendOrEnd(j)
        BY <2>3 DEF CaughtUp
      <3> HIDE DEF j
      <3> QED BY <1>7, <2>1, <3>1
    <2> QED BY <2>2, <2>3
  <1>9. Same(k, Conflicted(k))
    <2>1. CASE k.conflicts = MaximumConflicts
      BY <1>5, <2>1 DEF Conflicted
    <2>2. CASE k.conflicts # MaximumConflicts
      <3>1. k.conflicts + 1 \in 0..MaximumConflicts
        BY <2>2, SizesAssumption DEF Client
      <3> QED BY <2>2, <3>1 DEF Conflicted, Client
    <2> QED BY <2>1, <2>2
  <1> QED BY <1>1, <1>2, <1>3, <1>4, <1>5, <1>7, <1>8, <1>9

-----------------------------------------------------------------------------
(* Steps that save nothing, and saves *)

LEMMA FollowsItself ==
  ASSUME NEW lg, NEW k \in Client
  PROVE  Follows(k, k, lg)
  <1>1. k.auth \in Seq(Events)
    BY DEF Client
  <1> QED BY <1>1, PrefixReflexive DEF Follows

\* A step that leaves the saved records alone keeps the invariant if each
\* coordinator follows what it was.
LEMMA Unsaved ==
  ASSUME SyncInv, LogExtends, ClientsFollow(log'), LocalFollows(log'), LateSound,
         UNCHANGED <<saved, holders>>, outcome' = outcome \/ OutcomeKept,
         faults' \in 0..MaxFaults
  PROVE  SyncInv' /\ Grows
  <1>0. /\ \A c \in Clients : client'[c] \in Client /\ client'[c].auth \in Seq(Events)
        /\ log' \in Seq(Events) /\ Range(log) \subseteq Range(log')
    BY SyncTypes, PrefixRange DEF ClientsFollow, LogExtends, Client
  <1>1. TypeOK'
    BY <1>0 DEF SyncInv, TypeOK, LogExtends, ClientsFollow, LocalFollows, LateSound,
                OutcomeKept
  <1>2. AppendedOnce'
    BY DEF LogExtends, AppendedOnce
  <1>3. \A s \in Stores : IsPrefix(saved'[s].auth, log')
    <2> TAKE s \in Stores
    <2>1. IsPrefix(saved[s].auth, log) /\ IsPrefix(log, log')
      BY DEF SyncInv, Faithful, LogExtends
    <2> QED BY <1>0, <2>1, SyncTypes, PrefixTransitive
  <1>4. Faithful'
    BY <1>3 DEF Faithful, ClientsFollow, LocalFollows, Sound
  <1>5. NothingLost'
    BY <1>0 DEF SyncInv, NothingLost, OutcomeKept
  <1>6. \A c \in Clients : Sound(client'[c], log')
    BY DEF ClientsFollow
  <1>7. ASSUME NEW c \in Clients, c \in holders[StoreOf[c]]
        PROVE  Follows(saved[StoreOf[c]], client'[c], log')
    <2>1. /\ Follows(saved[StoreOf[c]], client[c], log)
          /\ Follows(client[c], client'[c], log')
      BY <1>7 DEF SyncInv, ClientsFollow
    <2>2. IsPrefix(saved[StoreOf[c]].auth, client'[c].auth)
      <3>1. /\ saved[StoreOf[c]].auth \in Seq(Events) /\ client[c].auth \in Seq(Events)
            /\ client'[c].auth \in Seq(Events)
        BY <1>0, SyncTypes
      <3> QED BY <2>1, <3>1, PrefixTransitive DEF Follows
    <2> QED BY <1>0, <2>1, <2>2 DEF Follows
  <1>8. SyncInv'
    BY <1>1, <1>2, <1>4, <1>5, <1>6, <1>7 DEF SyncInv, LateSound
  <1>9. Grows
    <2>1. \A s \in Stores : IsPrefix(saved[s].auth, saved'[s].auth)
      BY SyncTypes, PrefixReflexive
    <2> QED BY <2>1 DEF Grows, ClientsFollow
  <1> QED BY <1>8, <1>9

\* A save keeps it if the coordinator that makes it is one that may.
LEMMA SavedBy ==
  ASSUME SyncInv, NEW c \in Clients, NEW done, Sound(done, log),
         IsPrefix(client[c].auth, done.auth), c \in holders[StoreOf[c]],
         saved' = Written(StoreOf[c], done),
         holders' = [holders EXCEPT ![StoreOf[c]] = {c}],
         client' = [client EXCEPT ![c] = done],
         UNCHANGED <<log, local, late>>, faults' \in 0..MaxFaults,
         outcome' \in [Mutations ->
           {"none", "queued", "requeued", "repeated", "failed", "rejected"}],
         NothingLost'
  PROVE  SyncInv' /\ Grows
  <1> DEFINE s == StoreOf[c]
             record == [stored |-> TRUE, auth |-> done.auth, pending |-> done.pending]
  <1>0. /\ s \in Stores /\ done \in Client /\ done.auth \in Seq(Events)
        /\ done.pending \in Seq(Mutations) /\ record \in Record
    BY SyncTypes DEF Sound, Client, Record
  <1>1. /\ client' \in [Clients -> Client] /\ client'[c] = done
        /\ \A d \in Clients : d # c => client'[d] = client[d]
    BY <1>0 DEF SyncInv, TypeOK
  <1>2. /\ saved' \in [Stores -> Record] /\ saved'[s] = record
        /\ \A t \in Stores : t # s => saved'[t] = saved[t]
    BY <1>0 DEF SyncInv, TypeOK, Written
  <1>3. /\ holders' \in [Stores -> SUBSET Clients] /\ holders'[s] = {c}
        /\ \A t \in Stores : t # s => holders'[t] = holders[t]
    BY <1>0 DEF SyncInv, TypeOK
  <1>4. TypeOK'
    BY <1>1, <1>2, <1>3 DEF SyncInv, TypeOK
  <1>5. \A d \in Clients : Sound(client'[d], log)
    BY <1>1 DEF SyncInv
  <1>6. IsPrefix(saved[s].auth, done.auth)
    <2>1. IsPrefix(saved[s].auth, client[c].auth)
      BY DEF SyncInv, Follows
    <2> QED BY <1>0, <2>1, SyncTypes, PrefixTransitive
  <1>7. Faithful'
    BY <1>2, <1>5 DEF SyncInv, Faithful, Sound
  <1>8. \A t \in Stores : SavedSound(saved'[t])
    BY <1>2 DEF SyncInv, Sound, SavedSound
  <1>9. \A d \in Clients :
          d \in holders'[StoreOf[d]] => Follows(saved'[StoreOf[d]], client'[d], log)
    <2> TAKE d \in Clients
    <2>1. CASE StoreOf[d] = s
      <3>1. Follows(record, done, log)
        BY <1>0, PrefixReflexive DEF Follows
      <3> QED BY <1>1, <1>2, <1>3, <2>1, <3>1
    <2>2. CASE StoreOf[d] # s
      BY <1>1, <1>2, <1>3, <2>2, SyncTypes DEF SyncInv
    <2> QED BY <2>1, <2>2
  <1>10. SyncInv'
    BY <1>4, <1>5, <1>7, <1>8, <1>9 DEF SyncInv, AppendedOnce
  <1>11. Grows
    <2>1. \A d \in Clients : IsPrefix(client[d].auth, client'[d].auth)
      BY <1>1, SyncTypes, PrefixReflexive
    <2>2. \A t \in Stores : IsPrefix(saved[t].auth, saved'[t].auth)
      <3> TAKE t \in Stores
      <3>1. saved[t].auth \in Seq(Events)
        BY SyncTypes
      <3>2. CASE t = s
        BY <1>2, <1>6, <3>2
      <3>3. CASE t # s
        BY <1>2, <3>1, <3>3, PrefixReflexive
      <3> QED BY <3>2, <3>3
    <2> QED BY <2>1, <2>2 DEF Grows
  <1> QED BY <1>10, <1>11

\* A step of one coordinator that follows what it was, and changes nothing else.
LEMMA OneMoves ==
  ASSUME SyncInv, NEW c \in Clients, NEW k, Sound(k, log), IsPrefix(client[c].auth, k.auth),
         c \in holders[StoreOf[c]] => Follows(client[c], k, log),
         client' = [client EXCEPT ![c] = k], UNCHANGED <<log, local, saved, holders>>,
         outcome' = outcome \/ OutcomeKept, LateSound, faults' \in 0..MaxFaults
  PROVE  SyncInv' /\ Grows
  <1>1. LogExtends
    BY SyncTypes, PrefixReflexive DEF LogExtends, SyncInv, AppendedOnce
  <1>2. LocalFollows(log')
    BY DEF LocalFollows, SyncInv, TypeOK, Faithful
  <1>3. ClientsFollow(log')
    <2>1. client' \in [Clients -> Client]
      BY DEF Sound, SyncInv, TypeOK
    <2>2. ASSUME NEW d \in Clients
          PROVE  /\ Sound(client'[d], log) /\ IsPrefix(client[d].auth, client'[d].auth)
                 /\ d \in holders[StoreOf[d]] => Follows(client[d], client'[d], log)
      <3>1. CASE d = c
        BY <3>1, SyncTypes DEF SyncInv, TypeOK
      <3>2. CASE d # c
        <4>1. client'[d] = client[d] /\ client[d] \in Client
          BY <3>2, SyncTypes DEF SyncInv, TypeOK
        <4> QED BY <4>1, FollowsItself DEF SyncInv, Follows
      <3> QED BY <3>1, <3>2
    <2> QED BY <2>1, <2>2 DEF ClientsFollow
  <1> QED BY <1>1, <1>2, <1>3, Unsaved

\* Persist(), whether it saves or throws.
LEMMA PersistKeeps ==
  ASSUME SyncInv, NEW c \in Clients, NEW done, NEW failed, Persist(c, done, failed),
         Sound(done, log), Follows(client[c], done, log),
         Sound(failed, log), Follows(client[c], failed, log),
         UNCHANGED <<log, local, late, outcome, faults>>
  PROVE  SyncInv' /\ Grows
  <1>0. LateSound /\ faults' \in 0..MaxFaults
    BY DEF LateSound, SyncInv, TypeOK
  <1>1. CASE c \in holders[StoreOf[c]]
    <2>1. /\ saved' = Written(StoreOf[c], done)
          /\ holders' = [holders EXCEPT ![StoreOf[c]] = {c}]
          /\ client' = [client EXCEPT ![c] = done]
      BY <1>1 DEF Persist
    <2>2. /\ saved'[StoreOf[c]].pending = done.pending
          /\ \A t \in Stores : t # StoreOf[c] => saved'[t] = saved[t]
      BY <2>1, SyncTypes DEF Written, SyncInv, TypeOK
    <2>3. Range(saved[StoreOf[c]].pending) \subseteq Range(done.pending) \cup Range(log)
      BY <1>1 DEF SyncInv, Follows
    <2>4. NothingLost'
      <3> SUFFICES ASSUME NEW m \in Mutations, outcome[m] \in {"queued", "requeued"}
                   PROVE  m \in Range(log) \cup Range(saved'[StoreOf[Author[m]]].pending)
        BY DEF NothingLost
      <3>1. m \in Range(log) \cup Range(saved[StoreOf[Author[m]]].pending)
        BY DEF SyncInv, NothingLost
      <3>2. StoreOf[Author[m]] \in Stores
        BY AuthorAssumption, DevicesAssumption
      <3> QED BY <2>2, <2>3, <3>1, <3>2
    <2>5. outcome' \in [Mutations ->
            {"none", "queued", "requeued", "repeated", "failed", "rejected"}]
      BY DEF SyncInv, TypeOK
    <2> QED BY <1>0, <1>1, <2>1, <2>4, <2>5, SavedBy DEF Follows
  <1>2. CASE c \notin holders[StoreOf[c]]
    BY <1>0, <1>2, OneMoves DEF Persist, Follows
  <1> QED BY <1>1, <1>2

-----------------------------------------------------------------------------
(* Authoritative events *)

\* Fresh events in sequence are the part of the log behind the projection.
LEMMA BodyContinues ==
  ASSUME NEW lg \in Seq(Events), NEW a \in Seq(Events), IsPrefix(a, lg),
         NEW fresh \in SUBSET (1..Len(lg)), InSequence(a, fresh)
  PROVE  /\ Body(lg, fresh) \in Seq(Events) /\ a \o Body(lg, fresh) \in Seq(Events)
         /\ IsPrefix(a \o Body(lg, fresh), lg) /\ IsPrefix(a, a \o Body(lg, fresh))
  <1>1. Len(a) \in Nat /\ Len(lg) \in Nat /\ Cardinality(fresh) \in Nat
    <2>1. IsFiniteSet(1..Len(lg)) /\ Len(a) \in Nat /\ Len(lg) \in Nat
      BY LenProperties, FS_Interval
    <2> QED BY <2>1, FS_Subset, FS_CardinalityType
  <1>2. PICK h \in Nat : fresh = (Len(a) + 1)..h
    BY <1>1 DEF InSequence
  <1>3. CASE fresh = {}
    <2>1. Body(lg, fresh) = <<>> /\ <<>> \in Seq(Events)
      BY <1>3, EmptySeq DEF Body
    <2>2. a \o <<>> = a
      BY ConcatEmptySeq
    <2> QED BY <2>1, <2>2, PrefixReflexive
  <1>4. CASE fresh # {}
    <2>1. Len(a) + 1 \in fresh /\ h \in fresh /\ Len(a) + 1 <= h /\ h <= Len(lg)
      BY <1>1, <1>2, <1>4
    <2>2. Min(fresh) = Len(a) + 1
      BY <1>1, <1>2, <2>1 DEF Min
    <2>3. Max(fresh) = h
      BY <1>1, <1>2, <2>1 DEF Max
    <2> DEFINE events == SubSeq(lg, Len(a) + 1, h)
    <2>4. Body(lg, fresh) = events
      BY <1>4, <2>2, <2>3 DEF Body
    <2>5. a = SubSeq(lg, 1, Len(a)) /\ Len(a) <= Len(lg)
      BY SubSeqFull DEF IsPrefix
    <2>6. SubSeq(lg, 1, Len(a)) \o events = SubSeq(lg, 1, h)
      <3>1. /\ 1 \in 1..(Len(lg) + 1) /\ Len(a) \in (1 - 1)..Len(lg)
            /\ h \in Len(a)..Len(lg)
        BY <1>1, <2>1, <2>5
      <3> QED BY <3>1, ConcatAdjacentSubSeq
    <2>7. /\ SubSeq(lg, 1, h) \in Seq(Events) /\ Len(SubSeq(lg, 1, h)) = h
          /\ \A i \in 1..h : SubSeq(lg, 1, h)[i] = lg[i]
          /\ events \in Seq(Events)
      <3>1. \A i \in 1..Len(lg) : lg[i] \in Events
        BY ElementOfSeq
      <3> QED BY <1>1, <2>1, <3>1, SubSeqProperties
    <2>8. IsPrefix(SubSeq(lg, 1, h), lg)
      BY <1>1, <2>1, <2>7, PrefixIs
    <2>9. a \o events = SubSeq(lg, 1, h)
      BY <2>5, <2>6
    <2> HIDE DEF events
    <2> QED BY <2>4, <2>7, <2>8, <2>9, PrefixConcat
  <1> QED BY <1>3, <1>4

\* What holds over the log holds over one that continues it.
LEMMA SoundOver ==
  ASSUME SyncInv, NEW lg \in Seq(Events), IsPrefix(log, lg)
  PROVE  /\ \A c \in Clients : Sound(client[c], lg)
         /\ \A s \in Stores : IsPrefix(local[s], lg)
  <1>1. \A c \in Clients : Sound(client[c], lg)
    BY SyncTypes, SoundGrows DEF SyncInv
  <1>2. ASSUME NEW s \in Stores PROVE IsPrefix(local[s], lg)
    <2>1. IsPrefix(local[s], log)
      BY DEF SyncInv, Faithful
    <2> QED BY <2>1, SyncTypes, PrefixTransitive
  <1> QED BY <1>1, <1>2

\* One coordinator that follows what it was over a log that may have grown, while the
\* others stay as they are.
LEMMA OneFollows ==
  ASSUME SyncInv, NEW c \in Clients, NEW lg \in Seq(Events), IsPrefix(log, lg), NEW k,
         Sound(k, lg), Follows(client[c], k, lg), client' = [client EXCEPT ![c] = k]
  PROVE  ClientsFollow(lg)
  <1>1. client' \in [Clients -> Client]
    BY DEF Sound, SyncInv, TypeOK
  <1>2. ASSUME NEW d \in Clients
        PROVE  Sound(client'[d], lg) /\ Follows(client[d], client'[d], lg)
    <2>1. CASE d = c
      BY <2>1 DEF SyncInv, TypeOK
    <2>2. client[d] \in Client
      BY SyncTypes
    <2>3. CASE d # c
      BY <2>2, <2>3, SoundOver, FollowsItself DEF SyncInv, TypeOK
    <2> QED BY <2>1, <2>3
  <1> QED BY <1>1, <1>2 DEF ClientsFollow, Follows

\* applyAuthoritativeEvents(): the projection and the device's log stay prefixes.
LEMMA AbsorbKeeps ==
  ASSUME SyncInv, NEW c \in Clients, NEW lg \in Seq(Events), IsPrefix(log, lg),
         NEW fresh \in SUBSET (1..Len(lg)), InSequence(client[c].auth, fresh),
         NEW next \in Client, IsInjective(next.pending), next.pc # "ackPull",
         Range(client[c].pending) \subseteq Range(next.pending) \cup Range(lg),
         Absorb(c, lg, fresh, next)
  PROVE  ClientsFollow(lg) /\ LocalFollows(lg)
  <1> DEFINE k == client[c]
             s == StoreOf[c]
             events == Body(lg, fresh)
             level == fresh # {} /\ k.durable = Len(k.auth)
  <1>0. /\ k \in Client /\ k.auth \in Seq(Events) /\ s \in Stores /\ local[s] \in Seq(Events)
        /\ k.durable \in Nat /\ Len(k.auth) \in Nat
    BY SyncTypes, LenProperties DEF Client
  <1>1. /\ \A d \in Clients : Sound(client[d], lg)
        /\ \A t \in Stores : IsPrefix(local[t], lg)
    BY SoundOver
  <1>2. IsPrefix(k.auth, lg)
    BY <1>1 DEF Sound
  <1>3. /\ events \in Seq(Events) /\ k.auth \o events \in Seq(Events)
        /\ IsPrefix(k.auth \o events, lg) /\ IsPrefix(k.auth, k.auth \o events)
    BY <1>0, <1>2, BodyContinues
  <1> DEFINE done == [next EXCEPT !.auth = k.auth \o events,
                                  !.durable = IF level THEN Len(k.auth) + Len(events)
                                              ELSE k.durable]
  <1>4. Sound(done, lg) /\ Follows(k, done, lg)
    <2>1. Len(events) \in Nat
      BY <1>3, LenProperties
    <2>2. (IF level THEN Len(k.auth) + Len(events) ELSE k.durable) \in Nat
      BY <1>0, <2>1
    <2> HIDE DEF events, level
    <2>3. done \in Client /\ done.auth = k.auth \o events /\ done.pending = next.pending
          /\ done.pc = next.pc
      BY <1>3, <2>2 DEF Client
    <2> QED BY <1>3, <2>3 DEF Sound, Follows
  <1>5. Sound(Thrown(k), lg) /\ Follows(k, Thrown(k), lg)
    BY <1>0, <1>1, Turns, FollowsSame
  <1>6. ASSUME NEW j, Sound(j, lg), Follows(k, j, lg), client' = [client EXCEPT ![c] = j]
        PROVE  ClientsFollow(lg)
    BY <1>6, OneFollows
  <1>7. ASSUME local' = local PROVE LocalFollows(lg)
    BY <1>1, <1>7 DEF LocalFollows, SyncInv, TypeOK
  <1>8. ASSUME NEW j \in Seq(Events), IsPrefix(j, lg), local' = [local EXCEPT ![s] = j]
        PROVE  LocalFollows(lg)
    BY <1>0, <1>1, <1>8 DEF LocalFollows, SyncInv, TypeOK
  <1>9. CASE level /\ ~LocalAccepts(s, k.durable, events)
    BY <1>5, <1>6, <1>7, <1>9 DEF Absorb
  <1>10. CASE ~level
    <2>1. client' = [client EXCEPT ![c] = done] /\ local' = local
      BY <1>10 DEF Absorb
    <2> QED BY <1>4, <1>6, <1>7, <2>1
  <1>11. CASE level /\ LocalAccepts(s, k.durable, events)
    <2>1. /\ client' = [client EXCEPT ![c] = done]
          /\ local' = [local EXCEPT ![s] = LocalAppend(s, k.durable, events)]
      BY <1>11 DEF Absorb
    <2>2. LocalAppend(s, k.durable, events) \in Seq(Events)
          /\ IsPrefix(LocalAppend(s, k.durable, events), lg)
      <3>1. CASE Len(local[s]) = k.durable
        <4>1. IsPrefix(local[s], k.auth) /\ IsPrefix(k.auth, local[s])
          BY <1>0, <1>1, <1>2, <1>11, <3>1, PrefixOrdered
        <4>2. local[s] = k.auth
          BY <1>0, <1>11, <3>1, <4>1, PrefixIs, SeqEqual
        <4> QED BY <1>3, <3>1, <4>2 DEF LocalAppend
      <3>2. CASE Len(local[s]) # k.durable
        BY <1>0, <1>1, <3>2 DEF LocalAppend
      <3> QED BY <3>1, <3>2
    <2> QED BY <1>4, <1>6, <1>8, <2>1, <2>2
  <1> QED BY <1>9, <1>10, <1>11

-----------------------------------------------------------------------------
(* The steps *)

LEMMA LateKept ==
  ASSUME SyncInv, NEW c \in Clients, Abandon(c) \/ late' = late
  PROVE  LateSound
  <1>1. CASE late' = late
    BY <1>1 DEF LateSound, SyncInv, TypeOK
  <1>2. CASE Abandon(c)
    <2> DEFINE request == [batch |-> client[c].pending, expected |-> Len(client[c].auth)]
    <2>1. request \in Request /\ IsInjective(request.batch)
      BY SyncTypes, LenProperties DEF Request, SyncInv, Sound
    <2> HIDE DEF request
    <2>2. late' = late \/ late' = [late EXCEPT ![c] = request]
      BY <1>2 DEF Abandon, request
    <2> QED BY <2>1, <2>2 DEF LateSound, SyncInv, TypeOK
  <1> QED BY <1>1, <1>2

\* A step of a coordinator that knows and holds what it did.
LEMMA SameKeeps ==
  ASSUME SyncInv, NEW c \in Clients, NEW k, Same(client[c], k),
         client' = [client EXCEPT ![c] = k], UNCHANGED <<log, local, saved, holders, outcome>>,
         Abandon(c) \/ late' = late, faults' = faults \/ Fault
  PROVE  SyncInv' /\ Grows
  <1>1. Sound(k, log) /\ Follows(client[c], k, log)
    BY SyncTypes, FollowsSame DEF SyncInv
  <1>2. faults' \in 0..MaxFaults
    BY SizesAssumption DEF Fault, SyncInv, TypeOK
  <1> QED BY <1>1, <1>2, LateKept, OneMoves DEF Follows

\* A coordinator that installs the replay of the whole log.
LEMMA PullSound ==
  ASSUME SyncInv, NEW c \in Clients, NEW k, k = [client[c] EXCEPT !.auth = log]
  PROVE  /\ k \in Client /\ k.auth = log /\ k.pending = client[c].pending
         /\ Sound(k, log) /\ Follows(client[c], k, log)
  <1>1. k \in Client /\ k.auth = log /\ k.pending = client[c].pending /\ k.pc = client[c].pc
    BY SyncTypes DEF Client
  <1>2. IsPrefix(log, log) /\ IsPrefix(client[c].auth, log)
    BY SyncTypes, PrefixReflexive DEF SyncInv, Sound
  <1> QED BY <1>1, <1>2 DEF Sound, Follows, SyncInv

\* A save in which the coordinator goes on with what it knows, or knew less of.
LEMMA PersistSame ==
  ASSUME SyncInv, NEW c \in Clients, NEW k, Sound(k, log), Follows(client[c], k, log),
         NEW done, NEW failed, Same(k, done), Same(k, failed), Persist(c, done, failed),
         UNCHANGED <<log, local, late, outcome, faults>>
  PROVE  SyncInv' /\ Grows
  <1>1. ASSUME NEW j, Same(k, j) PROVE Sound(j, log) /\ Follows(client[c], j, log)
    <2>1. Sound(j, log) /\ j.auth = k.auth /\ j.pending = k.pending
      BY <1>1, SyncTypes, FollowsSame DEF Same
    <2> QED BY <2>1 DEF Follows
  <1> QED BY <1>1, PersistKeeps

LEMMA StartSaveKeeps ==
  ASSUME SyncInv, NEW c \in Clients, StartSave(c)
  PROVE  SyncInv' /\ Grows
  <1>1. client[c] \in Client /\ Sound(client[c], log) /\ Follows(client[c], client[c], log)
    BY SyncTypes, FollowsItself DEF SyncInv
  <1>2. Same(client[c], [client[c] EXCEPT !.pc = "read"])
    BY <1>1 DEF Same, Client
  <1>3. Same(client[c], Thrown(client[c]))
    BY <1>1, Turns
  <1> QED BY <1>1, <1>2, <1>3, PersistSame DEF StartSave

LEMMA ReadSaveKeeps ==
  ASSUME SyncInv, NEW c \in Clients, ReadSave(c)
  PROVE  SyncInv' /\ Grows
  <1> DEFINE k == client[c]
             next == [k EXCEPT !.pc = "read", !.more = FALSE]
             done == IF k.more THEN next ELSE CaughtUp(k)
  <1>1. k \in Client /\ Sound(k, log) /\ Follows(k, k, log)
    BY SyncTypes, FollowsItself DEF SyncInv
  <1>2. Same(k, next) /\ Same(k, Thrown(k)) /\ Same(k, CaughtUp(k))
    <2>1. Same(k, next)
      BY <1>1 DEF Same, Client
    <2> QED BY <1>1, <2>1, Turns
  <1>3. Persist(c, done, Thrown(k)) /\ UNCHANGED <<log, local, late, outcome, faults>>
    BY DEF ReadSave
  <1> HIDE DEF next
  <1>4. Same(k, done)
    BY <1>2
  <1> HIDE DEF done, k
  <1> QED BY <1>1, <1>2, <1>3, <1>4, PersistSame DEF k

LEMMA PullKeeps ==
  ASSUME SyncInv, NEW c \in Clients, ReadPull(c) \/ ConflictPull(c)
  PROVE  SyncInv' /\ Grows
  <1> DEFINE k == [client[c] EXCEPT !.auth = log]
  <1>1. k \in Client /\ Sound(k, log) /\ Follows(client[c], k, log)
    BY PullSound
  <1>2. Same(k, CaughtUp(k)) /\ Same(k, Thrown(k)) /\ Same(k, SendOrEnd(k))
    BY <1>1, Turns
  <1>3. /\ Persist(c, CaughtUp(k), Thrown(k)) \/ Persist(c, SendOrEnd(k), Thrown(k))
        /\ UNCHANGED <<log, local, late, outcome, faults>>
    BY DEF ReadPull, ConflictPull
  <1> HIDE DEF k
  <1> QED BY <1>1, <1>2, <1>3, PersistSame

LEMMA AckSaveKeeps ==
  ASSUME SyncInv, NEW c \in Clients, AckSave(c)
  PROVE  SyncInv' /\ Grows
  <1>1. client[c] \in Client /\ Sound(client[c], log) /\ Follows(client[c], client[c], log)
    BY SyncTypes, FollowsItself DEF SyncInv
  <1>2. Same(client[c], SendOrEnd(client[c])) /\ Same(client[c], Thrown(client[c]))
    BY <1>1, Turns
  <1> QED BY <1>1, <1>2, PersistSame DEF AckSave

\* A coordinator that drops an acknowledged queue.
LEMMA DrainedIs ==
  ASSUME NEW k \in Client
  PROVE  /\ Drained(k) \in Client /\ Drained(k).auth = k.auth /\ Drained(k).pending = <<>>
         /\ Drained(k).pc = "ackSave"
  <1>1. <<>> \in Seq(Mutations)
    BY EmptySeq
  <1> QED BY <1>1 DEF Drained, Client

LEMMA AckPullKeeps ==
  ASSUME SyncInv, NEW c \in Clients, AckPull(c)
  PROVE  SyncInv' /\ Grows
  <1> DEFINE k == client[c]
             j == [k EXCEPT !.auth = log]
  <1>1. k \in Client /\ j \in Client /\ Sound(j, log) /\ Follows(k, j, log)
        /\ j.auth = log /\ j.pending = k.pending
    BY SyncTypes, PullSound
  <1>2. CASE client' = [client EXCEPT ![c] = Failed(k)]
             /\ UNCHANGED <<log, local, saved, holders, late, outcome, faults>>
    BY <1>1, <1>2, Turns, SameKeeps
  <1>3. CASE Persist(c, Drained(j), Thrown(j)) /\ UNCHANGED <<log, local, late, outcome, faults>>
    <2>1. Range(k.pending) \subseteq Range(log)
      BY DEF AckPull, SyncInv, Sound
    <2> HIDE DEF j
    <2>2. Sound(Drained(j), log) /\ Follows(k, Drained(j), log)
      BY <1>1, <2>1, DrainedIs, EmptyQueue DEF Sound, Follows
    <2>3. Same(j, Thrown(j))
      BY <1>1, Turns
    <2>4. Sound(Thrown(j), log) /\ Follows(k, Thrown(j), log)
      BY <1>1, <2>3, SyncTypes, FollowsSame DEF Same, Follows
    <2> QED BY <1>3, <2>2, <2>4, PersistKeeps
  <1> QED BY <1>2, <1>3 DEF AckPull

-----------------------------------------------------------------------------
(* The queue and the log *)

LEMMA FlushKeeps ==
  ASSUME SyncInv, NEW c \in Clients, Flush(c) \/ Connect(c) \/ SubscriptionEnds(c)
  PROVE  SyncInv' /\ Grows
  <1> DEFINE k == client[c]
             called == [k EXCEPT !.op = "call"]
             connecting == [k EXCEPT !.pc = "read", !.op = "connect", !.link = "down"]
  <1>1. k \in Client
    BY SyncTypes
  <1>2. Same(k, called) /\ called \in Client /\ Same(k, connecting)
    BY <1>1 DEF Same, Client
  <1>3. Same(k, SendOrEnd(called)) /\ Same(k, Reconnect(k))
    <2> HIDE DEF called
    <2>1. Same(called, SendOrEnd(called)) /\ Same(k, Reconnect(k))
      BY <1>1, <1>2, Turns
    <2> QED BY <1>2, <2>1 DEF Same
  <1>4. /\ \/ client' = [client EXCEPT ![c] = SendOrEnd(called)]
           \/ client' = [client EXCEPT ![c] = connecting]
           \/ client' = [client EXCEPT ![c] = Reconnect(k)]
        /\ UNCHANGED <<log, local, saved, holders, late, outcome, faults>>
    BY DEF Flush, Connect, SubscriptionEnds
  <1> HIDE DEF called, connecting, k
  <1> QED BY <1>2, <1>3, <1>4, SameKeeps DEF k

LEMMA CompactedKeeps ==
  ASSUME SyncInv, NEW c \in Clients, ReadCompacted(c)
  PROVE  SyncInv' /\ Grows
  <1> DEFINE k == client[c]
             read == [k EXCEPT !.pc = "readPull"]
             update == [k EXCEPT !.pc = "updatePull", !.op = "update"]
  <1>1. Same(k, read) /\ Same(k, update)
    BY SyncTypes DEF Same, Client
  <1>2. /\ client' = [client EXCEPT ![c] = read] \/ client' = [client EXCEPT ![c] = update]
        /\ Fault /\ UNCHANGED <<log, local, saved, holders, late, outcome>>
    BY SyncTypes DEF ReadCompacted, SyncInv, TypeOK
  <1> HIDE DEF read, update, k
  <1> QED BY <1>1, <1>2, SameKeeps DEF k

LEMMA StopKeeps ==
  ASSUME SyncInv, NEW c \in Clients, Stop(c)
  PROVE  SyncInv' /\ Grows
  <1> DEFINE k == [client[c] EXCEPT !.started = FALSE, !.link = "down"]
  <1>1. Same(client[c], k)
    BY SyncTypes DEF Same, Client
  <1>2. /\ client' = [client EXCEPT ![c] = k]
        /\ Fault /\ UNCHANGED <<log, local, saved, holders, late, outcome>>
    BY SyncTypes DEF Stop, SyncInv, TypeOK
  <1> HIDE DEF k
  <1> QED BY <1>1, <1>2, SameKeeps

LEMMA CallFailsKeeps ==
  ASSUME SyncInv, NEW c \in Clients, CallFails(c)
  PROVE  SyncInv' /\ Grows
  <1>1. Same(client[c], Reconnect(Idle(client[c]))) /\ Same(client[c], Thrown(client[c]))
    BY SyncTypes, Turns
  <1> QED BY <1>1, SameKeeps DEF CallFails

\* The record keeps what was accepted, apart from what is reported as rejected.
LEMMA RefuseKeeps ==
  ASSUME SyncInv, NEW c \in Clients, Refuse(c), UNCHANGED <<log, local, late>>,
         faults' = faults \/ Fault
  PROVE  SyncInv' /\ Grows
  <1> DEFINE k == client[c]
             s == StoreOf[c]
             cleared == [Failed(k) EXCEPT !.pending = <<>>]
  <1>1. /\ k \in Client /\ Same(k, Failed(k)) /\ Failed(k) \in Client /\ Failed(k).pc = "idle"
        /\ k.auth \in Seq(Events) /\ s \in Stores
    BY SyncTypes, Turns DEF Same
  <1>2. /\ cleared \in Client /\ cleared.auth = k.auth /\ cleared.pending = <<>>
        /\ cleared.pc = "idle"
    <2>1. <<>> \in Seq(Mutations)
      BY EmptySeq
    <2> QED BY <1>1, <2>1 DEF Same, Client
  <1>3. Sound(cleared, log) /\ IsPrefix(k.auth, cleared.auth)
    BY <1>1, <1>2, EmptyQueue, PrefixReflexive DEF Sound, SyncInv
  <1>4. faults' \in 0..MaxFaults
    BY SizesAssumption DEF Fault, SyncInv, TypeOK
  <1>5. CASE k.pending = <<>>
    BY <1>1, <1>5, SameKeeps DEF Refuse
  <1>6. CASE k.pending # <<>> /\ c \in holders[s]
    <2> DEFINE rejected == [m \in Mutations |-> IF m \in Range(k.pending)
                                               THEN "rejected" ELSE outcome[m]]
    <2>1. /\ saved' = Written(s, cleared)
          /\ holders' = [holders EXCEPT ![s] = {c}]
          /\ client' = [client EXCEPT ![c] = cleared]
          /\ outcome' = rejected
      BY <1>6 DEF Refuse, Persist
    <2>2. outcome' \in [Mutations ->
            {"none", "queued", "requeued", "repeated", "failed", "rejected"}]
      BY <2>1 DEF SyncInv, TypeOK
    <2>3. NothingLost'
      <3> SUFFICES ASSUME NEW m \in Mutations, outcome'[m] \in {"queued", "requeued"}
                   PROVE  m \in Range(log) \cup Range(saved'[StoreOf[Author[m]]].pending)
        BY DEF NothingLost
      <3>1. /\ outcome[m] \in {"queued", "requeued"} /\ m \notin Range(k.pending)
            /\ StoreOf[Author[m]] \in Stores
        BY <2>1, AuthorAssumption, DevicesAssumption
      <3>2. m \in Range(log) \cup Range(saved[StoreOf[Author[m]]].pending)
        BY <3>1 DEF SyncInv, NothingLost
      <3>3. Range(saved[s].pending) \subseteq Range(k.pending) \cup Range(log)
        BY <1>6 DEF SyncInv, Follows
      <3>4. StoreOf[Author[m]] # s => saved'[StoreOf[Author[m]]] = saved[StoreOf[Author[m]]]
        BY <2>1, <3>1 DEF Written, SyncInv, TypeOK
      <3> QED BY <3>1, <3>2, <3>3, <3>4
    <2> HIDE DEF cleared, rejected
    <2> QED BY <1>3, <1>4, <1>6, <2>1, <2>2, <2>3, SavedBy
  <1>7. CASE k.pending # <<>> /\ c \notin holders[s]
    <2>1. /\ client' = [client EXCEPT ![c] = cleared]
          /\ UNCHANGED <<saved, holders, outcome>>
      BY <1>7 DEF Refuse, Persist
    <2> HIDE DEF cleared
    <2> QED BY <1>3, <1>4, <1>7, <2>1, LateKept, OneMoves
  <1> QED BY <1>5, <1>6, <1>7

\* A log that grows under the coordinators and the devices.
LEMMA LogGrows ==
  ASSUME SyncInv, LogExtends, LateSound,
         UNCHANGED <<local, saved, holders, client, outcome, faults>>
  PROVE  SyncInv' /\ Grows
  <1>1. ClientsFollow(log')
    <2>1. ASSUME NEW c \in Clients
          PROVE  Sound(client[c], log') /\ Follows(client[c], client[c], log')
      <3>1. client[c] \in Client
        BY SyncTypes
      <3> QED BY <3>1, SoundOver, FollowsItself DEF LogExtends
    <2> QED BY <2>1 DEF ClientsFollow, Follows, SyncInv, TypeOK
  <1>2. LocalFollows(log')
    BY SoundOver DEF LocalFollows, LogExtends, SyncInv, TypeOK
  <1>3. faults' \in 0..MaxFaults
    BY DEF SyncInv, TypeOK
  <1> QED BY <1>1, <1>2, <1>3, Unsaved

\* eventStore.append(): a batch none of which is stored.
LEMMA AppendExtends ==
  ASSUME SyncInv, NEW batch \in Seq(Mutations), IsInjective(batch),
         Range(batch) \cap Range(log) = {}
  PROVE  /\ log \o batch \in Seq(Events) /\ IsPrefix(log, log \o batch)
         /\ IsInjective(log \o batch) /\ Range(batch) \subseteq Range(log \o batch)
  <1>1. batch \in Seq(Events) /\ log \in Seq(Events)
    BY SyncTypes, SeqMonotonic DEF Events
  <1>2. IsInjective(log)
    BY DEF SyncInv, AppendedOnce
  <1>3. IsInjective(log \o batch)
    BY <1>1, <1>2, InjectiveConcat
  <1> QED BY <1>1, <1>3, PrefixConcat, RangeConcat

LEMMA ServerAppendsKeeps ==
  ASSUME SyncInv, NEW e \in ServerEvents, ServerAppends(e)
  PROVE  SyncInv' /\ Grows
  <1>1. log' = Append(log, e) /\ e \in Events /\ e \notin Range(log)
    BY DEF ServerAppends, Events
  <1>2. LogExtends
    BY <1>1, SyncTypes, AppendQueue DEF LogExtends, SyncInv, AppendedOnce
  <1>3. LateSound
    BY DEF ServerAppends, LateSound, SyncInv, TypeOK
  <1> QED BY <1>2, <1>3, LogGrows DEF ServerAppends

LEMMA ServeLateKeeps ==
  ASSUME SyncInv, NEW c \in Clients, ServeLate(c)
  PROVE  SyncInv' /\ Grows
  <1>1. late[c] \in Request /\ late[c].batch \in Seq(Mutations) /\ IsInjective(late[c].batch)
    BY DEF ServeLate, SyncInv, TypeOK, Request
  <1>2. LogExtends
    <2>1. CASE log' = log
      BY <2>1, SyncTypes, PrefixReflexive DEF LogExtends, SyncInv, AppendedOnce
    <2>2. CASE Appendable(late[c].batch, late[c].expected) /\ log' = log \o late[c].batch
      BY <1>1, <2>2, AppendExtends DEF LogExtends, Appendable
    <2> QED BY <2>1, <2>2 DEF ServeLate
  <1>3. LateSound
    BY DEF ServeLate, LateSound, SyncInv, TypeOK
  <1> QED BY <1>2, <1>3, LogGrows DEF ServeLate

\* A coordinator that starts or dies.
LEMMA ReplacedKeeps ==
  ASSUME SyncInv, NEW c \in Clients, NEW k, Sound(k, log), ~client[c].started \/ ~k.started,
         client' = [client EXCEPT ![c] = k],
         holders' \in [Stores -> SUBSET Clients],
         \A d \in Clients : d # c /\ d \in holders'[StoreOf[d]] => d \in holders[StoreOf[d]],
         c \in holders'[StoreOf[c]] => Follows(saved[StoreOf[c]], k, log),
         UNCHANGED <<log, local, saved, outcome>>, LateSound, faults' \in 0..MaxFaults
  PROVE  SyncInv' /\ Grows
  <1>1. /\ client' \in [Clients -> Client] /\ client'[c] = k
        /\ \A d \in Clients : d # c => client'[d] = client[d]
    BY DEF SyncInv, TypeOK, Sound
  <1>2. TypeOK'
    BY <1>1 DEF SyncInv, TypeOK, LateSound
  <1>3. \A d \in Clients : Sound(client'[d], log)
    BY <1>1 DEF SyncInv
  <1>4. Faithful'
    BY <1>3 DEF SyncInv, Faithful, Sound
  <1>5. \A d \in Clients :
          d \in holders'[StoreOf[d]] => Follows(saved[StoreOf[d]], client'[d], log)
    BY <1>1 DEF SyncInv
  <1>6. SyncInv'
    BY <1>2, <1>3, <1>4, <1>5 DEF SyncInv, AppendedOnce, NothingLost, LateSound
  <1>7. Grows
    <2>1. \A d \in Clients : client[d].auth \in Seq(Events)
      BY SyncTypes
    <2>2. \A s \in Stores : saved[s].auth \in Seq(Events)
      BY SyncTypes
    <2>3. \A d \in Clients : client[d].started /\ client'[d].started
            => IsPrefix(client[d].auth, client'[d].auth)
      BY <1>1, <2>1, PrefixReflexive
    <2> QED BY <2>2, <2>3, PrefixReflexive DEF Grows
  <1> QED BY <1>6, <1>7

LEMMA CrashKeeps ==
  ASSUME SyncInv, NEW c \in Clients, Crash(c)
  PROVE  SyncInv' /\ Grows
  <1> DEFINE s == StoreOf[c]
  <1>1. s \in Stores /\ <<>> \in Seq(Events) /\ <<>> \in Seq(Mutations)
    BY SyncTypes, EmptySeq
  <1>2. NewClient \in Client /\ NewClient.auth = <<>> /\ NewClient.pending = <<>>
        /\ NewClient.pc = "idle" /\ ~NewClient.started
    <2>1. 0 \in 0..MaximumConflicts
      BY SizesAssumption
    <2> QED BY <1>1, <2>1 DEF NewClient, Client
  <1>3. Sound(NewClient, log)
    BY <1>2, SyncTypes, EmptyQueue, PrefixEmpty DEF Sound
  <1>4. /\ holders' \in [Stores -> SUBSET Clients]
        /\ \A d \in Clients : d \in holders'[StoreOf[d]] => d \in holders[StoreOf[d]]
        /\ c \in holders'[s] => ~saved[s].stored
    <2>1. holders' = [holders EXCEPT ![s] = IF saved[s].stored THEN @ \ {c} ELSE @]
      BY DEF Crash
    <2>2. \A d \in Clients : StoreOf[d] \in Stores
      BY SyncTypes
    <2> QED BY <1>1, <2>1, <2>2 DEF SyncInv, TypeOK
  <1>5. c \in holders'[s] => Follows(saved[s], NewClient, log)
    <2>1. IsPrefix(<<>>, <<>>)
      BY <1>1, PrefixReflexive
    <2> QED BY <1>1, <1>2, <1>4, <2>1, EmptyQueue DEF SyncInv, SavedSound, Follows
  <1>6. LateSound
    BY LateKept DEF Crash
  <1>7. faults' \in 0..MaxFaults
    BY SizesAssumption DEF Crash, Fault, SyncInv, TypeOK
  <1>8. client' = [client EXCEPT ![c] = NewClient] /\ UNCHANGED <<log, local, saved, outcome>>
    BY DEF Crash
  <1> QED BY <1>2, <1>3, <1>4, <1>5, <1>6, <1>7, <1>8, ReplacedKeeps

LEMMA StartKeeps ==
  ASSUME SyncInv, NEW c \in Clients, Start(c)
  PROVE  SyncInv' /\ Grows
  <1> DEFINE s == StoreOf[c]
             k == [client[c] EXCEPT !.pc = "startSave", !.op = "start", !.started = TRUE,
                                    !.auth = Recovered(s), !.durable = Len(local[s]),
                                    !.pending = saved[s].pending]
  <1>1. /\ s \in Stores /\ local[s] \in Seq(Events) /\ Len(local[s]) \in Nat
        /\ saved[s].auth \in Seq(Events) /\ Len(saved[s].auth) \in Nat
        /\ saved[s].pending \in Seq(Mutations) /\ log \in Seq(Events)
        /\ IsPrefix(local[s], log) /\ IsPrefix(saved[s].auth, log)
    BY SyncTypes, LenProperties DEF SyncInv, Faithful
  <1>2. /\ Recovered(s) \in Seq(Events) /\ IsPrefix(Recovered(s), log)
        /\ IsPrefix(saved[s].auth, Recovered(s))
    <2>1. CASE Len(saved[s].auth) > Len(local[s])
      BY <1>1, <2>1, PrefixReflexive DEF Recovered
    <2>2. CASE ~(Len(saved[s].auth) > Len(local[s]))
      <3>1. Len(saved[s].auth) <= Len(local[s])
        BY <1>1, <2>2
      <3> QED BY <1>1, <2>2, <3>1, PrefixOrdered DEF Recovered
    <2> QED BY <2>1, <2>2
  <1>3. k \in Client /\ k.auth = Recovered(s) /\ k.pending = saved[s].pending
        /\ k.pc = "startSave"
    BY <1>1, <1>2, SyncTypes DEF Client
  <1>4. /\ client' = [client EXCEPT ![c] = k] /\ ~client[c].started
        /\ holders' = [holders EXCEPT ![s] = @ \cup {c}]
        /\ UNCHANGED <<log, local, saved, late, outcome, faults>>
    BY DEF Start
  <1> HIDE DEF k
  <1>5. Sound(k, log) /\ Follows(saved[s], k, log)
    BY <1>1, <1>2, <1>3 DEF Sound, Follows, SyncInv, SavedSound
  <1>6. /\ holders' \in [Stores -> SUBSET Clients]
        /\ \A d \in Clients : d # c /\ d \in holders'[StoreOf[d]] => d \in holders[StoreOf[d]]
    BY <1>1, <1>4, SyncTypes DEF SyncInv, TypeOK
  <1>7. LateSound /\ faults' \in 0..MaxFaults
    BY <1>4 DEF LateSound, SyncInv, TypeOK
  <1> QED BY <1>4, <1>5, <1>6, <1>7, ReplacedKeeps

LEMMA QueueMutationKeeps ==
  ASSUME SyncInv, NEW c \in Clients, NEW m \in Mutations, QueueMutation(c, m)
  PROVE  SyncInv' /\ Grows
  <1> DEFINE k == client[c]
             s == StoreOf[c]
             queued == Queued(k, m)
             called == [queued EXCEPT !.op = "call"]
             done == IF k.started /\ k.link = "up" THEN SendOrEnd(called) ELSE queued
  <1>1. /\ k \in Client /\ k.pending \in Seq(Mutations) /\ k.auth \in Seq(Events)
        /\ s \in Stores /\ Sound(k, log) /\ k.pc = "idle" /\ StoreOf[Author[m]] = s
        /\ LateSound /\ faults' \in 0..MaxFaults
        /\ UNCHANGED <<log, local, late, faults>>
    BY SyncTypes DEF SyncInv, QueueMutation, TypeOK, LateSound
  <1>2. CASE m \in Range(k.pending) \cup Range(k.auth)
    <2>1. /\ outcome' = [outcome EXCEPT ![m] = "repeated"]
          /\ UNCHANGED <<saved, holders, client>>
      BY <1>2 DEF QueueMutation
    <2>2. OutcomeKept
      BY <2>1 DEF OutcomeKept, SyncInv, TypeOK
    <2>3. client' = [client EXCEPT ![c] = k]
      BY <2>1 DEF SyncInv, TypeOK
    <2>4. Follows(k, k, log)
      BY <1>1, FollowsItself
    <2> QED BY <1>1, <2>1, <2>2, <2>3, <2>4, OneMoves DEF Follows
  <1>3. CASE m \notin Range(k.pending) \cup Range(k.auth)
    <2>1. /\ queued \in Client /\ queued.auth = k.auth /\ queued.pc = "idle"
          /\ queued.pending = Append(k.pending, m)
      BY <1>1, AppendQueue DEF Queued, Client
    <2>2. /\ Range(queued.pending) = Range(k.pending) \cup {m}
          /\ IsInjective(queued.pending)
      BY <1>1, <1>3, <2>1, AppendQueue DEF Sound
    <2>3. Sound(queued, log)
      BY <1>1, <2>1, <2>2 DEF Sound
    <2>4. Same(queued, done)
      <3>1. Same(queued, called) /\ called \in Client /\ Same(queued, queued)
        <4> HIDE DEF queued
        <4> QED BY <2>1 DEF Same, Client
      <3>2. Same(called, SendOrEnd(called))
        BY <3>1, Turns
      <3> HIDE DEF called, queued
      <3> QED BY <3>1, <3>2 DEF Same
    <2>5. Sound(done, log) /\ done.auth = k.auth /\ done.pending = queued.pending
      <3> HIDE DEF done, queued
      <3> QED BY <2>1, <2>3, <2>4, SyncTypes, FollowsSame DEF Same
    <2>6. IsPrefix(k.auth, k.auth)
      BY <1>1, PrefixReflexive
    <2>7. /\ Persist(c, done, queued)
          /\ outcome' = [outcome EXCEPT ![m] = IF c \notin holders[s] THEN "failed"
                                               ELSE IF @ = "none" THEN "queued" ELSE "requeued"]
      BY <1>3 DEF QueueMutation
    <2> HIDE DEF done, queued
    <2>8. CASE c \in holders[s]
      <3>1. /\ saved' = Written(s, done) /\ holders' = [holders EXCEPT ![s] = {c}]
            /\ client' = [client EXCEPT ![c] = done]
        BY <2>7, <2>8 DEF Persist
      <3>2. outcome' \in [Mutations ->
              {"none", "queued", "requeued", "repeated", "failed", "rejected"}]
        BY <2>7 DEF SyncInv, TypeOK
      <3>3. NothingLost'
        <4> SUFFICES ASSUME NEW n \in Mutations, outcome'[n] \in {"queued", "requeued"}
                     PROVE  n \in Range(log) \cup Range(saved'[StoreOf[Author[n]]].pending)
          BY <1>1 DEF NothingLost
        <4>1. /\ saved'[s].pending = done.pending
              /\ StoreOf[Author[n]] # s => saved'[StoreOf[Author[n]]] = saved[StoreOf[Author[n]]]
              /\ StoreOf[Author[n]] \in Stores
          BY <1>1, <3>1, AuthorAssumption, DevicesAssumption DEF Written, SyncInv, TypeOK
        <4>2. CASE n = m
          BY <1>1, <2>2, <2>5, <4>1, <4>2
        <4>3. CASE n # m
          <5>1. n \in Range(log) \cup Range(saved[StoreOf[Author[n]]].pending)
            BY <2>7, <4>3 DEF SyncInv, TypeOK, NothingLost
          <5>2. Range(saved[s].pending) \subseteq Range(k.pending) \cup Range(log)
            BY <2>8 DEF SyncInv, Follows
          <5> QED BY <2>2, <2>5, <4>1, <5>1, <5>2
        <4> QED BY <4>2, <4>3
      <3> QED BY <1>1, <2>5, <2>6, <2>8, <3>1, <3>2, <3>3, SavedBy
    <2>9. CASE c \notin holders[s]
      <3>1. client' = [client EXCEPT ![c] = queued] /\ UNCHANGED <<saved, holders>>
        BY <2>7, <2>9 DEF Persist
      <3>2. OutcomeKept
        BY <2>7, <2>9 DEF OutcomeKept, SyncInv, TypeOK
      <3> QED BY <1>1, <2>1, <2>3, <2>6, <2>9, <3>1, <3>2, OneMoves
    <2> QED BY <2>8, <2>9
  <1> QED BY <1>2, <1>3

-----------------------------------------------------------------------------
(* Pages, updates and acknowledgements *)

LEMMA FreshIs ==
  ASSUME NEW lg, NEW a, NEW revisions, NEW n \in Nat, revisions \subseteq 1..n
  PROVE  Fresh(lg, a, revisions) \in SUBSET (1..n)
  BY DEF Fresh

\* A page that is absorbed while the queue is kept.
LEMMA PageKeeps ==
  ASSUME SyncInv, NEW c \in Clients, NEW fresh \in SUBSET (1..Len(log)),
         InSequence(client[c].auth, fresh), NEW next, Same(client[c], next),
         next.pc = "readSave", Absorb(c, log, fresh, next),
         UNCHANGED <<log, saved, holders, late, outcome, faults>>
  PROVE  SyncInv' /\ Grows
  <1>1. /\ next \in Client /\ IsInjective(next.pending) /\ next.pc # "ackPull"
        /\ Range(client[c].pending) \subseteq Range(next.pending) \cup Range(log)
    BY DEF Same, SyncInv, Sound
  <1>2. log \in Seq(Events) /\ IsPrefix(log, log)
    BY SyncTypes, PrefixReflexive
  <1>3. ClientsFollow(log) /\ LocalFollows(log)
    BY <1>1, <1>2, AbsorbKeeps
  <1>4. LogExtends /\ LateSound /\ faults' \in 0..MaxFaults
    BY <1>2 DEF LogExtends, LateSound, SyncInv, TypeOK, AppendedOnce
  <1> QED BY <1>3, <1>4, Unsaved

LEMMA ReadKeeps ==
  ASSUME SyncInv, NEW c \in Clients, Read(c)
  PROVE  SyncInv' /\ Grows
  <1> DEFINE k == client[c]
             last == IF Len(log) > Len(k.auth) + ReadBatchSize
                     THEN Len(k.auth) + ReadBatchSize ELSE Len(log)
             fresh == Fresh(log, k.auth, (Len(k.auth) + 1)..last)
             next == [k EXCEPT !.pc = "readSave", !.more = last < Len(log)]
  <1>1. k \in Client /\ Len(log) \in Nat /\ Len(k.auth) \in Nat /\ ReadBatchSize \in Nat
    BY SyncTypes, LenProperties, SizesAssumption
  <1>2. fresh \in SUBSET (1..Len(log))
    <2>1. (Len(k.auth) + 1)..last \subseteq 1..Len(log)
      BY <1>1
    <2> HIDE DEF last
    <2> QED BY <1>1, <2>1, FreshIs
  <1>3. Same(k, next) /\ next.pc = "readSave"
    <2>1. (last < Len(log)) \in BOOLEAN
      BY <1>1
    <2> HIDE DEF last
    <2> QED BY <1>1, <2>1 DEF Same, Client
  <1>4. Same(k, CaughtUp(k))
    BY <1>1, Turns
  <1>5. CASE client' = [client EXCEPT ![c] = CaughtUp(k)] /\ UNCHANGED local
    BY <1>4, <1>5, SameKeeps DEF Read
  <1>6. CASE InSequence(k.auth, fresh) /\ Absorb(c, log, fresh, next)
    <2>1. UNCHANGED <<log, saved, holders, late, outcome, faults>>
      BY DEF Read
    <2> HIDE DEF fresh, next
    <2> QED BY <1>2, <1>3, <1>6, <2>1, PageKeeps
  <1>7. \/ client' = [client EXCEPT ![c] = CaughtUp(k)] /\ UNCHANGED local
        \/ InSequence(k.auth, fresh) /\ Absorb(c, log, fresh, next)
    BY DEF Read
  <1> QED BY <1>5, <1>6, <1>7

LEMMA UpdateKeeps ==
  ASSUME SyncInv, NEW c \in Clients, Update(c)
  PROVE  SyncInv' /\ Grows
  <1> DEFINE k == client[c]
             fresh(after, n) == Fresh(log, k.auth, (after + 1)..(after + n))
             taken(more) == [k EXCEPT !.op = "update", !.more = more]
             reading(more) == [taken(more) EXCEPT !.pc = "read", !.more = FALSE]
             saving(more) == [taken(more) EXCEPT !.pc = "readSave"]
  <1>1. k \in Client /\ Len(log) \in Nat /\ Len(k.auth) \in Nat /\ ReadBatchSize \in Nat
        /\ UNCHANGED <<log, saved, holders, late, outcome, faults>>
    BY SyncTypes, LenProperties, SizesAssumption DEF Update
  <1>2. PICK after \in 0..Len(k.auth), n \in 1..ReadBatchSize, more \in BOOLEAN :
          /\ after + n + (IF more THEN 1 ELSE 0) <= Len(log)
          /\ \/ client' = [client EXCEPT ![c] = reading(more)] /\ UNCHANGED local
             \/ /\ InSequence(k.auth, fresh(after, n))
                /\ Absorb(c, log, fresh(after, n), saving(more))
    BY DEF Update
  <1>3. /\ Same(k, reading(more)) /\ Same(k, saving(more)) /\ saving(more).pc = "readSave"
    BY <1>1 DEF Same, Client
  <1>4. fresh(after, n) \in SUBSET (1..Len(log))
    <2>1. (after + 1)..(after + n) \subseteq 1..Len(log)
      BY <1>1, <1>2
    <2> QED BY <1>1, <2>1, FreshIs
  <1>5. CASE client' = [client EXCEPT ![c] = reading(more)] /\ UNCHANGED local
    <2> HIDE DEF reading
    <2> QED BY <1>1, <1>3, <1>5, SameKeeps
  <1>6. CASE InSequence(k.auth, fresh(after, n)) /\ Absorb(c, log, fresh(after, n), saving(more))
    <2> HIDE DEF fresh, saving
    <2> QED BY <1>1, <1>3, <1>4, <1>6, PageKeeps
  <1> QED BY <1>2, <1>5, <1>6

\* What becomes of an acknowledgement, given that the log has the queue.
LEMMA AcknowledgeKeeps ==
  ASSUME SyncInv, NEW c \in Clients, NEW lg \in Seq(Events), IsPrefix(log, lg),
         Range(client[c].pending) \subseteq Range(lg), NEW latest \in Nat,
         Acknowledge(c, lg, latest)
  PROVE  ClientsFollow(lg) /\ LocalFollows(lg)
  <1> DEFINE k == client[c]
             fresh == Fresh(lg, k.auth, {Revision(lg, m) : m \in Range(k.pending)})
             head == IF fresh = {} THEN Len(k.auth) ELSE Max(fresh)
             pulling == [k EXCEPT !.pc = "ackPull", !.base = latest]
  <1>1. k \in Client /\ Len(lg) \in Nat /\ k.auth \in Seq(Events)
    BY SyncTypes, LenProperties
  <1>2. fresh \in SUBSET (1..Len(lg))
    <2>1. DOMAIN lg = 1..Len(lg)
      BY LenProperties
    <2>2. ASSUME NEW m \in Range(k.pending) PROVE Revision(lg, m) \in 1..Len(lg)
      <3>1. \E r \in DOMAIN lg : lg[r] = m
        BY DEF Range
      <3> QED BY <2>1, <3>1 DEF Revision
    <2>3. {Revision(lg, m) : m \in Range(k.pending)} \subseteq 1..Len(lg)
      BY <2>2
    <2> QED BY <1>1, <2>3, FreshIs
  <1>3. UNCHANGED local => LocalFollows(lg)
    BY SoundOver DEF LocalFollows, SyncInv, TypeOK
  <1>4. Sound(k, lg)
    BY SoundOver
  <1> HIDE DEF fresh
  <1>5. CASE InSequence(k.auth, fresh) /\ Absorb(c, lg, fresh, Drained(k))
    <2>1. /\ Drained(k) \in Client /\ IsInjective(Drained(k).pending)
          /\ Drained(k).pc # "ackPull"
      BY <1>1, DrainedIs, EmptyQueue
    <2> QED BY <1>2, <1>5, <2>1, AbsorbKeeps
  <1>6. CASE client' = [client EXCEPT ![c] = Failed(k)] /\ UNCHANGED local
    <2>1. Sound(Failed(k), lg) /\ Follows(k, Failed(k), lg)
      BY <1>1, <1>4, Turns, FollowsSame
    <2> QED BY <1>3, <1>6, <2>1, OneFollows
  <1>7. CASE client' = [client EXCEPT ![c] = pulling] /\ UNCHANGED local
    <2>1. /\ pulling \in Client /\ pulling.auth = k.auth /\ pulling.pending = k.pending
      BY <1>1 DEF Client
    <2> HIDE DEF pulling
    <2>2. Sound(pulling, lg) /\ Follows(k, pulling, lg)
      BY <1>1, <1>4, <2>1, PrefixReflexive DEF Sound, Follows
    <2> QED BY <1>3, <1>7, <2>2, OneFollows
  <1>8. \/ InSequence(k.auth, fresh) /\ Absorb(c, lg, fresh, Drained(k))
        \/ client' = [client EXCEPT ![c] = Failed(k)] /\ UNCHANGED local
        \/ client' = [client EXCEPT ![c] = pulling] /\ UNCHANGED local
    BY DEF Acknowledge, fresh
  <1> QED BY <1>5, <1>6, <1>7, <1>8

LEMMA ServeKeeps ==
  ASSUME SyncInv, NEW c \in Clients, Serve(c)
  PROVE  SyncInv' /\ Grows
  <1> DEFINE k == client[c]
             batch == k.pending
             expected == Len(k.auth)
  <1>1. /\ k \in Client /\ log \in Seq(Events) /\ Len(log) \in Nat /\ k.base \in Nat
        /\ batch \in Seq(Mutations) /\ Len(batch) \in Nat /\ IsInjective(batch)
        /\ IsPrefix(log, log) /\ IsInjective(log)
    BY SyncTypes, LenProperties, PrefixReflexive DEF Client, SyncInv, Sound, AppendedOnce
  <1>2. /\ UNCHANGED <<saved, holders, late, outcome, faults>>
        /\ LateSound /\ faults' \in 0..MaxFaults
    BY DEF Serve, LateSound, SyncInv, TypeOK
  <1>3. CASE /\ AllStored(batch) /\ UNCHANGED log
             /\ \E observed \in k.base..Len(log) :
                  Acknowledge(c, log, IF observed = expected THEN Len(log) ELSE observed)
    <2>1. PICK latest \in Nat : Acknowledge(c, log, latest)
      BY <1>1, <1>3
    <2>2. ClientsFollow(log) /\ LocalFollows(log)
      BY <1>1, <1>3, <2>1, AcknowledgeKeeps DEF AllStored
    <2>3. LogExtends
      BY <1>1, <1>3 DEF LogExtends
    <2> QED BY <1>2, <1>3, <2>2, <2>3, Unsaved
  <1>4. CASE /\ Appendable(batch, expected) /\ log' = log \o batch
             /\ Acknowledge(c, log \o batch, Len(log) + Len(batch))
    <2>1. /\ log \o batch \in Seq(Events) /\ IsPrefix(log, log \o batch)
          /\ IsInjective(log \o batch) /\ Range(batch) \subseteq Range(log \o batch)
      BY <1>1, <1>4, AppendExtends DEF Appendable
    <2>2. Len(log) + Len(batch) \in Nat
      BY <1>1
    <2>3. ClientsFollow(log \o batch) /\ LocalFollows(log \o batch)
      BY <1>4, <2>1, <2>2, AcknowledgeKeeps
    <2>4. LogExtends
      BY <1>4, <2>1 DEF LogExtends
    <2> QED BY <1>2, <1>4, <2>3, <2>4, Unsaved
  <1>5. CASE client' = [client EXCEPT ![c] = Conflicted(k)] /\ UNCHANGED <<log, local>>
    BY <1>1, <1>2, <1>5, Turns, SameKeeps
  <1> QED BY <1>3, <1>4, <1>5 DEF Serve

LEMMA CallDeniedKeeps ==
  ASSUME SyncInv, NEW c \in Clients, CallDenied(c) \/ ServeOversized(c)
  PROVE  SyncInv' /\ Grows
  <1>1. CASE Refuse(c)
    BY <1>1, RefuseKeeps DEF CallDenied, ServeOversized
  <1>2. CASE /\ client' = [client EXCEPT ![c] = Reconnect(Idle(client[c]))] /\ Fault
             /\ UNCHANGED <<log, local, saved, holders, late, outcome>>
    BY <1>2, SyncTypes, Turns, SameKeeps
  <1> QED BY <1>1, <1>2 DEF CallDenied, ServeOversized

-----------------------------------------------------------------------------
(* The theorems *)

\* The invariant is inductive, and every step advances what is known.
LEMMA SyncStep ==
  ASSUME SyncInv, [Next]_vars
  PROVE  SyncInv' /\ [Grows]_vars
  <1>1. CASE UNCHANGED vars
    BY <1>1 DEF vars, SyncInv, TypeOK, AppendedOnce, Faithful, NothingLost, SavedSound, Sound,
                Follows
  <1>2. CASE \E e \in ServerEvents : ServerAppends(e)
    BY <1>2, ServerAppendsKeeps
  <1>3. ASSUME NEW c \in Clients, Step(c)
        PROVE  SyncInv' /\ Grows
    BY <1>3, StartSaveKeeps, ReadKeeps, ReadSaveKeeps, PullKeeps, ServeKeeps, CallDeniedKeeps,
       AckPullKeeps, AckSaveKeeps DEF Step
  <1>4. ASSUME NEW c \in Clients,
               \/ Start(c) \/ Connect(c) \/ Update(c) \/ Flush(c)
               \/ \E m \in Mutations : QueueMutation(c, m)
        PROVE  SyncInv' /\ Grows
    BY <1>4, StartKeeps, FlushKeeps, UpdateKeeps, QueueMutationKeeps
  <1>5. ASSUME NEW c \in Clients,
               \/ SubscriptionEnds(c) \/ ReadCompacted(c) \/ CallFails(c) \/ CallDenied(c)
               \/ ServeLate(c) \/ Crash(c) \/ Stop(c)
        PROVE  SyncInv' /\ Grows
    BY <1>5, FlushKeeps, CompactedKeeps, CallFailsKeeps, CallDeniedKeeps, ServeLateKeeps,
       CrashKeeps, StopKeeps
  <1> QED BY <1>1, <1>2, <1>3, <1>4, <1>5 DEF Next

LEMMA SyncStarts ==
  ASSUME Init
  PROVE  SyncInv
  <1>1. /\ <<>> \in Seq(Events) /\ <<>> \in Seq(Mutations) /\ 0 \in 0..MaximumConflicts
        /\ 0 \in 0..MaxFaults
    BY EmptySeq, SizesAssumption
  <1>2. NewClient \in Client /\ NewClient.auth = <<>> /\ NewClient.pending = <<>>
        /\ NewClient.pc = "idle"
    BY <1>1 DEF NewClient, Client
  <1> DEFINE record == [stored |-> FALSE, auth |-> <<>>, pending |-> <<>>]
  <1>3. record \in Record
    BY <1>1 DEF Record
  <1>4. IsPrefix(<<>>, <<>>)
    BY <1>1, PrefixReflexive
  <1>5. TypeOK
    BY <1>1, <1>2, <1>3 DEF Init, TypeOK
  <1>6. \A c \in Clients : client[c] = NewClient /\ late[c] = None
    BY DEF Init
  <1>7. \A s \in Stores : saved[s] = record /\ local[s] = <<>>
    BY DEF Init
  <1>8. log = <<>> /\ \A m \in Mutations : outcome[m] = "none"
    BY DEF Init
  <1> HIDE DEF record
  <1>9. \A s \in Stores : SavedSound(saved[s]) /\ saved[s].auth = <<>> /\ saved[s].pending = <<>>
    BY <1>7, EmptyQueue DEF SavedSound, record
  <1>10. \A c \in Clients : Sound(client[c], log)
    BY <1>2, <1>4, <1>6, <1>8, EmptyQueue DEF Sound
  <1>11. AppendedOnce /\ Faithful /\ NothingLost
    BY <1>2, <1>4, <1>6, <1>7, <1>8, <1>9, EmptyQueue DEF AppendedOnce, Faithful, NothingLost
  <1>12. \A c \in Clients : Follows(saved[StoreOf[c]], client[c], log)
    BY <1>2, <1>4, <1>6, <1>9, DevicesAssumption, EmptyQueue DEF Follows
  <1> QED BY <1>5, <1>6, <1>9, <1>10, <1>11, <1>12 DEF SyncInv

\* What holds of every state: SyncInv, with its parts about queues and holders.
THEOREM SyncInvariant == Spec => []SyncInv
  <1>1. SyncInv /\ [Next]_vars => SyncInv'
    BY SyncStep
  <1> QED BY <1>1, SyncStarts, PTL DEF Spec

\* Every variable stays within its type, for any tabs, devices, queues and failures.
THEOREM TypeCorrect == Spec => []TypeOK
  <1>1. SyncInv => TypeOK
    BY DEF SyncInv
  <1> QED BY <1>1, SyncInvariant, PTL

\* An append whose answer was lost, which another tab repeats from the shared queue or
\* which is served late never puts a mutation into the log a second time.
THEOREM NothingTwice == Spec => []AppendedOnce
  <1>1. SyncInv => AppendedOnce
    BY DEF SyncInv
  <1> QED BY <1>1, SyncInvariant, PTL

\* Projections, device logs and saved records are prefixes of the authoritative log,
\* over every order of pages, acknowledgements, snapshots, crashes and saves.
THEOREM ProjectionsAreFaithful == Spec => []Faithful
  <1>1. SyncInv => Faithful
    BY DEF SyncInv
  <1> QED BY <1>1, SyncInvariant, PTL

\* What queueMutation() accepted is in the log or in the saved queue until it is
\* reported as rejected, however many tabs replace the record of their device.
THEOREM AcceptedIsKept == Spec => []NothingLost
  <1>1. SyncInv => NothingLost
    BY DEF SyncInv
  <1> QED BY <1>1, SyncInvariant, PTL

\* No running coordinator and no device forgets an authoritative event.
THEOREM KnowledgeGrows == Spec => AuthorityGrows
  <1>1. SyncInv /\ [Next]_vars => [Grows]_vars
    BY SyncStep
  <1>2. Spec => [][Grows]_vars
    BY <1>1, SyncInvariant, PTL DEF Spec
  <1> QED BY <1>2, PTL DEF AuthorityGrows, Grows

-----------------------------------------------------------------------------
(* The order of the queue *)

\* Every list of mutations that is about to be, or may still be, appended to the log.
Queues ==
  {client[c].pending : c \in Clients} \cup {saved[s].pending : s \in Stores}
    \cup {late[c].batch : c \in {d \in Clients : late[d] # None}}

\* Two mutations of one device that its hosts still expect in this order.
Before(m, n) ==
  /\ m < n /\ StoreOf[Author[m]] = StoreOf[Author[n]]
  /\ outcome[m] = "queued" /\ outcome[n] = "queued"

\* Both are in the list, in this order.
Follow(q, m, n) == \E i, j \in DOMAIN q : i < j /\ q[i] = m /\ q[j] = n

\* Mutations are queued by their numbers, nothing has one before it is queued, and a list
\* or the log that has a mutation has those before it: a list may leave out what is in the
\* log.
OrderInv ==
  /\ \A m, n \in Mutations : m < n /\ outcome[n] # "none" => outcome[m] # "none"
  /\ \A m \in Mutations : outcome[m] = "none" =>
       m \notin Range(log) /\ \A q \in Queues : m \notin Range(q)
  /\ \A m, n \in Mutations : Before(m, n) /\ n \in Range(log) => Follow(log, m, n)
  /\ \A q \in Queues : \A m, n \in Mutations :
       Before(m, n) /\ n \in Range(q) => m \in Range(log) \/ Follow(q, m, n)

\* What all steps but queueMutation() do to the lists.
QueuesKept ==
  /\ Queues' \subseteq Queues \cup {<<>>}
  /\ \/ log' = log
     \/ \E q \in Queues : Range(q) \cap Range(log) = {} /\ log' = log \o q
     \/ \E e \in ServerEvents : log' = Append(log, e)
  /\ \A m \in Mutations :
       \/ outcome'[m] = outcome[m]
       \/ outcome'[m] = "rejected" /\ \E q \in Queues : m \in Range(q)

LEMMA FollowConcat ==
  ASSUME NEW S, NEW q \in Seq(S), NEW r \in Seq(S), NEW m, NEW n
  PROVE  /\ Follow(q, m, n) => Follow(q \o r, m, n)
         /\ Follow(r, m, n) => Follow(q \o r, m, n)
         /\ m \in Range(q) /\ n \in Range(r) => Follow(q \o r, m, n)
  <1> DEFINE qr == q \o r
  <1>1. /\ Len(q) \in Nat /\ Len(r) \in Nat
        /\ DOMAIN q = 1..Len(q) /\ DOMAIN r = 1..Len(r) /\ DOMAIN qr = 1..(Len(q) + Len(r))
    BY LenProperties, ConcatProperties
  <1>2. /\ \A i \in 1..Len(q) : i \in DOMAIN qr /\ qr[i] = q[i]
        /\ \A i \in 1..Len(r) : Len(q) + i \in DOMAIN qr /\ qr[Len(q) + i] = r[i]
    <2>1. \A i \in 1..(Len(q) + Len(r)) : qr[i] = IF i <= Len(q) THEN q[i] ELSE r[i - Len(q)]
      BY ConcatProperties
    <2> QED BY <1>1, <2>1
  <1> HIDE DEF qr
  <1>3. Follow(q, m, n) => Follow(qr, m, n)
    BY <1>1, <1>2 DEF Follow
  <1>4. ASSUME NEW i \in 1..Len(r), NEW j \in 1..Len(r), i < j, r[i] = m, r[j] = n
        PROVE  Follow(qr, m, n)
    <2>1. Len(q) + i < Len(q) + j
      BY <1>1, <1>4
    <2> QED BY <1>2, <1>4, <2>1 DEF Follow
  <1>5. ASSUME NEW i \in 1..Len(q), NEW j \in 1..Len(r), q[i] = m, r[j] = n
        PROVE  Follow(qr, m, n)
    <2>1. i < Len(q) + j
      BY <1>1
    <2> QED BY <1>2, <1>5, <2>1 DEF Follow
  <1>6. Follow(r, m, n) => Follow(qr, m, n)
    BY <1>1, <1>4 DEF Follow
  <1>7. m \in Range(q) /\ n \in Range(r) => Follow(qr, m, n)
    BY <1>1, <1>5 DEF Range
  <1> QED BY <1>3, <1>6, <1>7 DEF qr

LEMMA QueuesTyped ==
  ASSUME SyncInv, NEW q \in Queues
  PROVE  q \in Seq(Mutations) /\ q \in Seq(Events) /\ Range(q) \subseteq Mutations
  <1>1. \A c \in Clients : late[c] # None => late[c].batch \in Seq(Mutations)
    BY DEF SyncInv, TypeOK, Request
  <1>2. q \in Seq(Mutations)
    BY <1>1, SyncTypes DEF Queues
  <1>3. q \in Seq(Events)
    BY <1>2, SeqMonotonic DEF Events
  <1> QED BY <1>2, <1>3, ElementOfSeq, LenProperties DEF Range

\* The log grows by a list, and then has what the list has, in its order.
LEMMA LogInOrder ==
  ASSUME SyncInv, OrderInv, QueuesKept,
         NEW m \in Mutations, NEW n \in Mutations, Before(m, n)
  PROVE  /\ m \in Range(log) => m \in Range(log')
         /\ n \in Range(log') => Follow(log', m, n)
  <1>1. log \in Seq(Events)
    BY SyncTypes
  <1>2. n \in Range(log) => Follow(log, m, n)
    BY DEF OrderInv
  <1>3. CASE log' = log
    BY <1>2, <1>3
  <1>4. ASSUME NEW q \in Queues, log' = log \o q
        PROVE  /\ m \in Range(log) => m \in Range(log')
               /\ n \in Range(log') => Follow(log', m, n)
    <2>1. q \in Seq(Events)
      BY QueuesTyped
    <2>2. Range(log') = Range(log) \cup Range(q)
      BY <1>1, <1>4, <2>1, RangeConcat
    <2>3. n \in Range(q) => m \in Range(log) \/ Follow(q, m, n)
      BY DEF OrderInv
    <2>4. /\ Follow(log, m, n) => Follow(log \o q, m, n)
          /\ Follow(q, m, n) => Follow(log \o q, m, n)
          /\ m \in Range(log) /\ n \in Range(q) => Follow(log \o q, m, n)
      BY <1>1, <2>1, FollowConcat
    <2> QED BY <1>2, <1>4, <2>2, <2>3, <2>4
  <1>5. ASSUME NEW e \in ServerEvents, log' = Append(log, e)
        PROVE  /\ m \in Range(log) => m \in Range(log')
               /\ n \in Range(log') => Follow(log', m, n)
    <2>1. e \in Events /\ n # e
      BY EventsAssumption DEF Events
    <2> DEFINE one == <<e>>
    <2>2. one \in Seq(Events) /\ Append(log, e) = log \o one
      BY <1>1, <2>1, AppendIsConcat
    <2> HIDE DEF one
    <2>3. Range(log') = Range(log) \cup {e}
      BY <1>1, <1>5, <2>1, AppendQueue
    <2>4. Follow(log, m, n) => Follow(log \o one, m, n)
      BY <1>1, <2>2, FollowConcat
    <2> QED BY <1>2, <1>5, <2>1, <2>2, <2>3, <2>4
  <1> QED BY <1>3, <1>4, <1>5 DEF QueuesKept

\* Steps that add no mutation to a list keep the order.
LEMMA KeptInOrder ==
  ASSUME SyncInv, OrderInv, QueuesKept
  PROVE  OrderInv'
  <1>1. \A m \in Mutations : /\ (outcome[m] = "none") <=> (outcome'[m] = "none")
                             /\ outcome'[m] = "queued" => outcome[m] = "queued"
    BY DEF QueuesKept, OrderInv
  <1>2. \A m, n \in Mutations : Before(m, n)' => Before(m, n)
    BY <1>1 DEF Before
  <1>3. Range(<<>>) = {}
    BY EmptyQueue
  <1>4. \A m, n \in Mutations : m < n /\ outcome'[n] # "none" => outcome'[m] # "none"
    BY <1>1 DEF OrderInv
  <1>5. ASSUME NEW m \in Mutations, outcome'[m] = "none"
        PROVE  m \notin Range(log') /\ \A q \in Queues' : m \notin Range(q)
    <2>1. m \notin Range(log) /\ \A q \in Queues : m \notin Range(q)
      BY <1>1, <1>5 DEF OrderInv
    <2>2. \A q \in Queues : log' = log \o q => Range(log') = Range(log) \cup Range(q)
      BY SyncTypes, QueuesTyped, RangeConcat
    <2>3. \A e \in ServerEvents : log' = Append(log, e) =>
            Range(log') = Range(log) \cup {e} /\ e # m
      BY SyncTypes, AppendQueue, EventsAssumption DEF Events
    <2>4. m \notin Range(log')
      BY <2>1, <2>2, <2>3 DEF QueuesKept
    <2> QED BY <1>3, <2>1, <2>4 DEF QueuesKept
  <1>6. \A m, n \in Mutations : Before(m, n)' /\ n \in Range(log') => Follow(log', m, n)
    BY <1>2, LogInOrder
  <1>7. ASSUME NEW q \in Queues', NEW m \in Mutations, NEW n \in Mutations,
               Before(m, n)', n \in Range(q)
        PROVE  m \in Range(log') \/ Follow(q, m, n)
    <2>1. q \in Queues
      BY <1>3, <1>7 DEF QueuesKept
    <2>2. m \in Range(log) \/ Follow(q, m, n)
      BY <1>2, <1>7, <2>1 DEF OrderInv
    <2> QED BY <1>2, <1>7, <2>2, LogInOrder
  <1> QED BY <1>4, <1>5, <1>6, <1>7 DEF OrderInv

-----------------------------------------------------------------------------
(* What the steps do to the lists *)

\* A step of one coordinator that keeps its queue, drops it, or takes over a saved one,
\* and may save it or leave a request behind.
LEMMA OneQueue ==
  ASSUME SyncInv, NEW c \in Clients, NEW k, k.pending \in Queues \cup {<<>>},
         client' = [client EXCEPT ![c] = k],
         saved' = saved \/ saved' = Written(StoreOf[c], k),
         late' = late \/ Abandon(c)
  PROVE  Queues' \subseteq Queues \cup {<<>>}
  <1>1. \A d \in Clients : client'[d] = IF d = c THEN k ELSE client[d]
    BY DEF SyncInv, TypeOK
  <1>2. \A s \in Stores : saved'[s].pending = k.pending \/ saved'[s] = saved[s]
    BY SyncTypes DEF Written, SyncInv, TypeOK
  <1>3. \A d \in Clients : late'[d] # None =>
          (late[d] # None /\ late'[d] = late[d]) \/ late'[d].batch = client[c].pending
    <2>1. CASE late' = late
      BY <2>1
    <2>2. CASE Abandon(c)
      <3> DEFINE request == [batch |-> client[c].pending, expected |-> Len(client[c].auth)]
      <3>1. late' = late \/ late' = [late EXCEPT ![c] = request]
        BY <2>2 DEF Abandon
      <3>2. request.batch = client[c].pending
        OBVIOUS
      <3> HIDE DEF request
      <3> QED BY <3>1, <3>2 DEF SyncInv, TypeOK
    <2> QED BY <2>1, <2>2
  <1>4. client[c].pending \in Queues
    BY DEF Queues
  <1>5. \A d \in Clients : client'[d].pending \in Queues \cup {<<>>}
    BY <1>1 DEF Queues
  <1>6. \A s \in Stores : saved'[s].pending \in Queues \cup {<<>>}
    BY <1>2 DEF Queues
  <1>7. \A d \in Clients : late'[d] # None => late'[d].batch \in Queues \cup {<<>>}
    BY <1>3, <1>4 DEF Queues
  <1> HIDE DEF Queues
  <1>8. Queues' = {client'[d].pending : d \in Clients} \cup {saved'[s].pending : s \in Stores}
                    \cup {late'[d].batch : d \in {d \in Clients : late'[d] # None}}
    BY DEF Queues
  <1> QED BY <1>5, <1>6, <1>7, <1>8

LEMMA PersistQueues ==
  ASSUME SyncInv, NEW c \in Clients, NEW done, NEW failed, Persist(c, done, failed),
         done.pending \in Queues \cup {<<>>}, failed.pending \in Queues \cup {<<>>},
         late' = late
  PROVE  Queues' \subseteq Queues \cup {<<>>}
  <1>1. CASE c \in holders[StoreOf[c]]
    BY <1>1, OneQueue DEF Persist
  <1>2. CASE c \notin holders[StoreOf[c]]
    BY <1>2, OneQueue DEF Persist
  <1> QED BY <1>1, <1>2

LEMMA AbsorbQueues ==
  ASSUME SyncInv, NEW c \in Clients, NEW lg, NEW fresh, NEW next \in Client,
         Absorb(c, lg, fresh, next), next.pending \in Queues \cup {<<>>},
         saved' = saved, late' = late
  PROVE  Queues' \subseteq Queues \cup {<<>>}
  <1>1. PICK a, n : client' = [client EXCEPT ![c] = Thrown(client[c])]
                 \/ client' = [client EXCEPT ![c] = [next EXCEPT !.auth = a, !.durable = n]]
    BY DEF Absorb
  <1> DEFINE j == [next EXCEPT !.auth = a, !.durable = n]
  <1>2. j.pending = next.pending
    BY DEF Client
  <1>3. Thrown(client[c]).pending \in Queues
    <2>1. Same(client[c], Thrown(client[c]))
      BY SyncTypes, Turns
    <2> QED BY <2>1 DEF Same, Queues
  <1> HIDE DEF j
  <1>4. client' = [client EXCEPT ![c] = Thrown(client[c])] \/ client' = [client EXCEPT ![c] = j]
    BY <1>1 DEF j
  <1> QED BY <1>2, <1>3, <1>4, OneQueue

\* A coordinator that stays with its queue, and a step of it that saves nothing.
LEMMA SameQueue ==
  ASSUME SyncInv, NEW c \in Clients
  PROVE  /\ client[c].pending \in Queues
         /\ \A k : Same(client[c], k) => k.pending \in Queues \cup {<<>>}
         /\ \A k : /\ Same(client[c], k) /\ client' = [client EXCEPT ![c] = k]
                   /\ saved' = saved /\ (late' = late \/ Abandon(c))
                   => Queues' \subseteq Queues \cup {<<>>}
  <1>1. client[c].pending \in Queues
    BY DEF Queues
  <1>2. \A k : Same(client[c], k) => k.pending \in Queues \cup {<<>>}
    BY <1>1 DEF Same
  <1> QED BY <1>1, <1>2, OneQueue

\* Steps that only go on, or save.
LEMMA SavesQueue ==
  ASSUME SyncInv, NEW c \in Clients,
         StartSave(c) \/ ReadSave(c) \/ ReadPull(c) \/ ConflictPull(c) \/ AckSave(c)
  PROVE  QueuesKept
  <1> DEFINE k == client[c]
             pulled == [k EXCEPT !.auth = log]
             started == [k EXCEPT !.pc = "read"]
             more == [k EXCEPT !.pc = "read", !.more = FALSE]
             read == IF k.more THEN more ELSE CaughtUp(k)
  <1>1. k \in Client /\ pulled \in Client /\ pulled.pending = k.pending /\ k.pending \in Queues
    BY SyncTypes, SameQueue, PullSound
  <1>2. started.pending = k.pending /\ more.pending = k.pending
    BY <1>1 DEF Client
  <1>3. /\ Same(k, Thrown(k)) /\ Same(k, CaughtUp(k)) /\ Same(k, SendOrEnd(k))
        /\ Same(pulled, Thrown(pulled)) /\ Same(pulled, CaughtUp(pulled))
        /\ Same(pulled, SendOrEnd(pulled))
    <2> HIDE DEF pulled, k
    <2> QED BY <1>1, Turns
  <1>4. /\ \/ Persist(c, started, Thrown(k)) \/ Persist(c, read, Thrown(k))
           \/ Persist(c, CaughtUp(pulled), Thrown(pulled))
           \/ Persist(c, SendOrEnd(pulled), Thrown(pulled))
           \/ Persist(c, SendOrEnd(k), Thrown(k))
        /\ UNCHANGED <<log, local, late, outcome, faults>>
    BY DEF StartSave, ReadSave, ReadPull, ConflictPull, AckSave
  <1> HIDE DEF k, pulled, started, more
  <1>5. /\ started.pending \in Queues /\ read.pending \in Queues
        /\ Thrown(k).pending \in Queues /\ CaughtUp(pulled).pending \in Queues
        /\ Thrown(pulled).pending \in Queues /\ SendOrEnd(pulled).pending \in Queues
        /\ SendOrEnd(k).pending \in Queues
    BY <1>1, <1>2, <1>3 DEF Same
  <1> HIDE DEF read
  <1>6. Queues' \subseteq Queues \cup {<<>>}
    BY <1>4, <1>5, PersistQueues
  <1> QED BY <1>4, <1>6 DEF QueuesKept

LEMMA AckPullQueue ==
  ASSUME SyncInv, NEW c \in Clients, AckPull(c)
  PROVE  QueuesKept
  <1> DEFINE k == client[c]
             pulled == [k EXCEPT !.auth = log]
  <1>1. k \in Client /\ pulled \in Client /\ pulled.pending = k.pending /\ k.pending \in Queues
    BY SyncTypes, SameQueue, PullSound
  <1>2. Same(k, Failed(k))
    BY <1>1, Turns
  <1>3. /\ \/ Persist(c, Drained(pulled), Thrown(pulled))
           \/ client' = [client EXCEPT ![c] = Failed(k)] /\ saved' = saved
        /\ UNCHANGED <<log, local, late, outcome, faults>>
    BY DEF AckPull
  <1> HIDE DEF pulled
  <1>4. Drained(pulled).pending = <<>> /\ Thrown(pulled).pending \in Queues
    <2>1. Same(pulled, Thrown(pulled)) /\ Drained(pulled).pending = <<>>
      BY <1>1, Turns, DrainedIs
    <2> QED BY <1>1, <2>1 DEF Same
  <1>5. Queues' \subseteq Queues \cup {<<>>}
    BY <1>2, <1>3, <1>4, SameQueue, PersistQueues
  <1> QED BY <1>3, <1>5 DEF QueuesKept

\* Steps that save nothing and go on with the queue.
LEMMA MovesQueue ==
  ASSUME SyncInv, NEW c \in Clients,
         \/ Flush(c) \/ Connect(c) \/ SubscriptionEnds(c) \/ ReadCompacted(c) \/ Stop(c)
         \/ CallFails(c)
  PROVE  QueuesKept
  <1> DEFINE k == client[c]
             called == [k EXCEPT !.op = "call"]
             connecting == [k EXCEPT !.pc = "read", !.op = "connect", !.link = "down"]
             read == [k EXCEPT !.pc = "readPull"]
             update == [k EXCEPT !.pc = "updatePull", !.op = "update"]
             stopped == [k EXCEPT !.started = FALSE, !.link = "down"]
  <1>1. k \in Client
    BY SyncTypes
  <1>2. /\ called \in Client /\ Same(k, called) /\ Same(k, connecting) /\ Same(k, read)
        /\ Same(k, update) /\ Same(k, stopped)
    BY <1>1 DEF Same, Client
  <1>3. /\ \/ client' = [client EXCEPT ![c] = SendOrEnd(called)]
           \/ client' = [client EXCEPT ![c] = connecting]
           \/ client' = [client EXCEPT ![c] = Reconnect(k)]
           \/ client' = [client EXCEPT ![c] = read]
           \/ client' = [client EXCEPT ![c] = update]
           \/ client' = [client EXCEPT ![c] = stopped]
           \/ client' = [client EXCEPT ![c] = Reconnect(Idle(k))]
           \/ client' = [client EXCEPT ![c] = Thrown(k)]
        /\ late' = late \/ Abandon(c)
        /\ UNCHANGED <<log, saved, outcome>>
    BY <1>1 DEF Flush, Connect, SubscriptionEnds, ReadCompacted, Stop, CallFails,
                SyncInv, TypeOK
  <1> HIDE DEF called, connecting, read, update, stopped
  <1>4. /\ Same(k, SendOrEnd(called)) /\ Same(k, Reconnect(k)) /\ Same(k, Reconnect(Idle(k)))
        /\ Same(k, Thrown(k))
    <2>1. Same(called, SendOrEnd(called)) /\ Same(k, Reconnect(k)) /\ Same(k, Thrown(k))
          /\ Same(k, Reconnect(Idle(k)))
      BY <1>1, <1>2, Turns
    <2>2. Same(k, SendOrEnd(called))
      BY <1>2, <2>1 DEF Same
    <2> QED BY <2>1, <2>2
  <1>5. Queues' \subseteq Queues \cup {<<>>}
    <2> HIDE DEF k
    <2>1. PICK j : Same(k, j) /\ client' = [client EXCEPT ![c] = j]
      BY <1>2, <1>3, <1>4
    <2> QED BY <1>3, <2>1, SameQueue DEF k
  <1> QED BY <1>3, <1>5 DEF QueuesKept

LEMMA ReadQueue ==
  ASSUME SyncInv, NEW c \in Clients, Read(c) \/ Update(c)
  PROVE  QueuesKept
  <1> DEFINE k == client[c]
             paged(more) == [k EXCEPT !.pc = "readSave", !.more = more]
             taken(more) == [k EXCEPT !.op = "update", !.more = more]
             reading(more) == [taken(more) EXCEPT !.pc = "read", !.more = FALSE]
             saving(more) == [taken(more) EXCEPT !.pc = "readSave"]
  <1>1. k \in Client
    BY SyncTypes
  <1>2. \A more \in BOOLEAN :
          Same(k, paged(more)) /\ Same(k, reading(more)) /\ Same(k, saving(more))
    BY <1>1 DEF Same, Client
  <1>3. /\ UNCHANGED <<log, saved, late, outcome>>
        /\ \/ client' = [client EXCEPT ![c] = CaughtUp(k)]
           \/ \E more \in BOOLEAN : client' = [client EXCEPT ![c] = reading(more)]
           \/ \E fresh : \E more \in BOOLEAN : Absorb(c, log, fresh, paged(more))
           \/ \E fresh : \E more \in BOOLEAN : Absorb(c, log, fresh, saving(more))
    <2>1. CASE Read(c)
      <3> DEFINE last == IF Len(log) > Len(k.auth) + ReadBatchSize
                         THEN Len(k.auth) + ReadBatchSize ELSE Len(log)
                 fresh == Fresh(log, k.auth, (Len(k.auth) + 1)..last)
                 next == [k EXCEPT !.pc = "readSave", !.more = last < Len(log)]
      <3>1. (last < Len(log)) \in BOOLEAN
        OBVIOUS
      <3>2. client' = [client EXCEPT ![c] = CaughtUp(k)] \/ Absorb(c, log, fresh, next)
        BY <2>1 DEF Read
      <3> HIDE DEF last, fresh
      <3> QED BY <2>1, <3>1, <3>2 DEF Read
    <2>2. CASE Update(c)
      BY <2>2 DEF Update
    <2> QED BY <2>1, <2>2
  <1>4. Same(k, CaughtUp(k))
    BY <1>1, Turns
  <1> HIDE DEF k, paged, reading, saving
  <1>5. \A j : Same(k, j) => j \in Client /\ j.pending \in Queues \cup {<<>>}
    BY SameQueue DEF Same, k
  <1>6. Queues' \subseteq Queues \cup {<<>>}
    <2>1. ASSUME NEW j, Same(k, j), client' = [client EXCEPT ![c] = j]
          PROVE  Queues' \subseteq Queues \cup {<<>>}
      BY <1>3, <2>1, SameQueue DEF k
    <2>2. ASSUME NEW j, Same(k, j), NEW fresh, Absorb(c, log, fresh, j)
          PROVE  Queues' \subseteq Queues \cup {<<>>}
      BY <1>3, <1>5, <2>2, AbsorbQueues
    <2> QED BY <1>2, <1>3, <1>4, <2>1, <2>2
  <1> QED BY <1>3, <1>6 DEF QueuesKept

\* failPermanently(): what it rejects was in the queue.
LEMMA DeniedQueue ==
  ASSUME SyncInv, NEW c \in Clients, CallDenied(c) \/ ServeOversized(c)
  PROVE  QueuesKept
  <1> DEFINE k == client[c]
             cleared == [Failed(k) EXCEPT !.pending = <<>>]
  <1>1. k \in Client /\ k.pending \in Queues
    BY SyncTypes, SameQueue
  <1>2. Same(k, Failed(k)) /\ Same(k, Reconnect(Idle(k)))
    BY <1>1, Turns
  <1>3. cleared.pending = <<>>
    BY <1>2 DEF Same, Client
  <1> HIDE DEF cleared
  <1>4. UNCHANGED <<log, late>>
    BY DEF CallDenied, ServeOversized
  <1>5. CASE client' = [client EXCEPT ![c] = Reconnect(Idle(k))] /\ UNCHANGED <<saved, outcome>>
    BY <1>2, <1>4, <1>5, SameQueue DEF QueuesKept
  <1>6. CASE client' = [client EXCEPT ![c] = Failed(k)] /\ UNCHANGED <<saved, outcome>>
    BY <1>2, <1>4, <1>6, SameQueue DEF QueuesKept
  <1>7. ASSUME Persist(c, cleared, cleared),
               \A m \in Mutations : \/ outcome'[m] = outcome[m]
                                    \/ outcome'[m] = "rejected" /\ m \in Range(k.pending)
        PROVE  QueuesKept
    <2>1. Queues' \subseteq Queues \cup {<<>>}
      BY <1>3, <1>4, <1>7, PersistQueues
    <2> HIDE DEF k
    <2> QED BY <1>1, <1>4, <1>7, <2>1 DEF QueuesKept
  <1>8. Refuse(c) =>
          \/ client' = [client EXCEPT ![c] = Failed(k)] /\ UNCHANGED <<saved, outcome>>
          \/ /\ Persist(c, cleared, cleared)
             /\ \A m \in Mutations : \/ outcome'[m] = outcome[m]
                                     \/ outcome'[m] = "rejected" /\ m \in Range(k.pending)
    <2>1. CASE k.pending = <<>>
      BY <2>1 DEF Refuse
    <2>2. CASE k.pending # <<>>
      BY <2>2 DEF Refuse, cleared
    <2> QED BY <2>1, <2>2
  <1> QED BY <1>5, <1>6, <1>7, <1>8 DEF CallDenied, ServeOversized

LEMMA AcknowledgeQueue ==
  ASSUME SyncInv, NEW c \in Clients, NEW lg, NEW latest \in Nat, Acknowledge(c, lg, latest),
         saved' = saved, late' = late
  PROVE  Queues' \subseteq Queues \cup {<<>>}
  <1> DEFINE k == client[c]
             pulling == [k EXCEPT !.pc = "ackPull", !.base = latest]
  <1>1. k \in Client /\ k.pending \in Queues
    BY SyncTypes, SameQueue
  <1>2. /\ Drained(k) \in Client /\ Drained(k).pending = <<>>
        /\ Same(k, Failed(k)) /\ pulling.pending = k.pending
    <2>1. pulling.pending = k.pending
      BY <1>1 DEF Client
    <2> QED BY <1>1, <2>1, DrainedIs, Turns
  <1>3. \/ \E fresh : Absorb(c, lg, fresh, Drained(k))
        \/ client' = [client EXCEPT ![c] = Failed(k)]
        \/ client' = [client EXCEPT ![c] = pulling]
    BY DEF Acknowledge
  <1> HIDE DEF pulling
  <1>4. CASE \E fresh : Absorb(c, lg, fresh, Drained(k))
    BY <1>2, <1>4, AbsorbQueues
  <1>5. CASE client' = [client EXCEPT ![c] = Failed(k)]
    BY <1>2, <1>5, SameQueue
  <1>6. CASE client' = [client EXCEPT ![c] = pulling]
    BY <1>1, <1>2, <1>6, OneQueue
  <1> QED BY <1>3, <1>4, <1>5, <1>6

\* The log grows by the queue of the sender, or by a batch whose sender gave up.
LEMMA ServeQueue ==
  ASSUME SyncInv, NEW c \in Clients, Serve(c)
  PROVE  QueuesKept
  <1> DEFINE k == client[c]
             batch == k.pending
             expected == Len(k.auth)
  <1>1. /\ k \in Client /\ Len(log) \in Nat /\ Len(batch) \in Nat /\ k.base \in Nat
        /\ batch \in Queues
    BY SyncTypes, SameQueue, LenProperties DEF Client
  <1>2. UNCHANGED <<saved, late, outcome>>
    BY DEF Serve
  <1>3. /\ log' = log \/ (Range(batch) \cap Range(log) = {} /\ log' = log \o batch)
        /\ \/ \E observed \in k.base..Len(log) :
                Acknowledge(c, log, IF observed = expected THEN Len(log) ELSE observed)
           \/ Acknowledge(c, log \o batch, Len(log) + Len(batch))
           \/ client' = [client EXCEPT ![c] = Conflicted(k)]
    BY DEF Serve, Appendable
  <1>4. Queues' \subseteq Queues \cup {<<>>}
    <2>1. CASE \E observed \in k.base..Len(log) :
                 Acknowledge(c, log, IF observed = expected THEN Len(log) ELSE observed)
      <3>1. PICK latest \in Nat : Acknowledge(c, log, latest)
        BY <1>1, <2>1
      <3> QED BY <1>2, <3>1, AcknowledgeQueue
    <2>2. CASE Acknowledge(c, log \o batch, Len(log) + Len(batch))
      <3>1. Len(log) + Len(batch) \in Nat
        BY <1>1
      <3> QED BY <1>2, <2>2, <3>1, AcknowledgeQueue
    <2>3. CASE client' = [client EXCEPT ![c] = Conflicted(k)]
      <3>1. Same(k, Conflicted(k))
        BY <1>1, Turns
      <3> QED BY <1>2, <2>3, <3>1, SameQueue
    <2> QED BY <1>3, <2>1, <2>2, <2>3
  <1> HIDE DEF batch
  <1> QED BY <1>1, <1>2, <1>3, <1>4 DEF QueuesKept

LEMMA LateQueue ==
  ASSUME SyncInv, NEW c \in Clients, ServeLate(c)
  PROVE  QueuesKept
  <1>1. late[c] # None /\ late[c].batch \in Queues
    BY DEF ServeLate, Queues
  <1>2. \A d \in Clients : late'[d] # None => late[d] # None /\ late'[d] = late[d]
    BY DEF ServeLate, SyncInv, TypeOK
  <1>3. UNCHANGED <<saved, client, outcome>>
    BY DEF ServeLate
  <1>4. Queues' \subseteq Queues
    BY <1>2, <1>3 DEF Queues
  <1>5. log' = log \/ (/\ Range(late[c].batch) \cap Range(log) = {}
                       /\ log' = log \o late[c].batch)
    BY DEF ServeLate, Appendable
  <1> QED BY <1>1, <1>3, <1>4, <1>5 DEF QueuesKept

LEMMA ReplacedQueue ==
  ASSUME SyncInv, NEW c \in Clients, Start(c) \/ Crash(c)
  PROVE  QueuesKept
  <1> DEFINE k == [client[c] EXCEPT !.pc = "startSave", !.op = "start", !.started = TRUE,
                          !.auth = Recovered(StoreOf[c]), !.durable = Len(local[StoreOf[c]]),
                          !.pending = saved[StoreOf[c]].pending]
  <1>1. k.pending \in Queues
    <2>1. k.pending = saved[StoreOf[c]].pending /\ StoreOf[c] \in Stores
      BY SyncTypes DEF Client
    <2> HIDE DEF k
    <2> QED BY <2>1 DEF Queues
  <1>2. NewClient.pending = <<>>
    BY DEF NewClient
  <1>3. /\ client' = [client EXCEPT ![c] = k] \/ client' = [client EXCEPT ![c] = NewClient]
        /\ UNCHANGED <<log, saved, outcome>>
        /\ late' = late \/ Abandon(c)
    BY DEF Start, Crash
  <1> HIDE DEF k
  <1>4. Queues' \subseteq Queues \cup {<<>>}
    BY <1>1, <1>2, <1>3, OneQueue
  <1> QED BY <1>3, <1>4 DEF QueuesKept

\* queueMutation(): what was queued before the new mutation is in front of it, or in the
\* log already.
LEMMA QueuedInOrder ==
  ASSUME SyncInv, OrderInv, NEW c \in Clients, NEW m \in Mutations, QueueMutation(c, m)
  PROVE  OrderInv'
  <1> DEFINE k == client[c]
             s == StoreOf[c]
             q == Append(k.pending, m)
             one == <<m>>
             queued == Queued(k, m)
             called == [queued EXCEPT !.op = "call"]
             done == IF k.started /\ k.link = "up" THEN SendOrEnd(called) ELSE queued
  <1>1. /\ k \in Client /\ k.pending \in Seq(Mutations) /\ s \in Stores
        /\ StoreOf[Author[m]] = s /\ k.pending \in Queues
        /\ \A n \in Mutations : n < m => outcome[n] # "none"
        /\ outcome[m] \in {"none", "failed"} /\ log' = log /\ late' = late
    BY SyncTypes, SameQueue DEF QueueMutation
  <1>2. one \in Seq(Mutations) /\ q = k.pending \o one /\ Range(one) = {m}
    BY <1>1, AppendIsConcat DEF Range
  <1>3. queued \in Client /\ queued.pending = q
    BY <1>1, AppendQueue DEF Queued, Client
  <1>4. Same(queued, called) /\ called \in Client
    <2> HIDE DEF queued
    <2> QED BY <1>3 DEF Same, Client
  <1>5. done.pending = q
    <2> HIDE DEF queued, called, q
    <2>1. Same(called, SendOrEnd(called))
      BY <1>4, Turns
    <2> QED BY <1>3, <1>4, <2>1 DEF Same
  <1>6. \/ /\ UNCHANGED <<saved, holders, client>>
           /\ outcome' = [outcome EXCEPT ![m] = "repeated"]
        \/ /\ Persist(c, done, queued)
           /\ outcome' = [outcome EXCEPT ![m] =
                IF c \notin holders[s] THEN "failed"
                ELSE IF @ = "none" THEN "queued" ELSE "requeued"]
    BY DEF QueueMutation
  <1> HIDE DEF one, queued, called, done
  <1>7. /\ \A n \in Mutations : n # m => outcome'[n] = outcome[n]
        /\ outcome'[m] # "none"
        /\ outcome'[m] = "queued" => outcome[m] = "none" /\ c \in holders[s]
    BY <1>1, <1>6 DEF SyncInv, TypeOK
  <1>8. \A p \in Queues' : p \in Queues \/ p = q
    <2>1. CASE UNCHANGED <<saved, holders, client>>
      <3>1. UNCHANGED <<saved, client, late>>
        BY <1>1, <2>1
      <3> QED BY <3>1 DEF Queues
    <2>2. ASSUME NEW j, j.pending = q, client' = [client EXCEPT ![c] = j],
                 saved' = saved \/ saved' = Written(s, j)
          PROVE  \A p \in Queues' : p \in Queues \/ p = q
      <3> HIDE DEF q
      <3>1. \A d \in Clients : client'[d] = IF d = c THEN j ELSE client[d]
        BY <2>2 DEF SyncInv, TypeOK
      <3>2. \A t \in Stores : saved'[t].pending = q \/ saved'[t] = saved[t]
        BY <1>1, <2>2 DEF Written, SyncInv, TypeOK
      <3> QED BY <1>1, <2>2, <3>1, <3>2 DEF Queues
    <2>3. CASE Persist(c, done, queued)
      BY <1>3, <1>5, <2>2, <2>3 DEF Persist
    <2> QED BY <1>6, <2>1, <2>3
  <1>9. /\ \A x, y : Follow(k.pending, x, y) => Follow(q, x, y)
        /\ \A x : x \in Range(k.pending) => Follow(q, x, m)
        /\ Range(q) = Range(k.pending) \cup {m}
    <2> HIDE DEF k, q
    <2>1. \A x, y : /\ Follow(k.pending, x, y) => Follow(q, x, y)
                    /\ x \in Range(k.pending) /\ y \in Range(one) => Follow(q, x, y)
      BY <1>1, <1>2, FollowConcat
    <2>2. Range(q) = Range(k.pending) \cup Range(one)
      BY <1>1, <1>2, RangeConcat
    <2> QED BY <1>2, <2>1, <2>2
  <1> HIDE DEF q
  \* No mutation is expected behind the new one.
  <1>10. \A n \in Mutations : ~(Before(m, n)')
    <2> SUFFICES ASSUME NEW n \in Mutations, Before(m, n)' PROVE FALSE
      OBVIOUS
    <2>1. m < n /\ outcome'[m] = "queued" /\ outcome'[n] = "queued" /\ m \in Nat /\ n \in Nat
      BY EventsAssumption DEF Before
    <2>2. n # m
      BY <2>1
    <2> QED BY <1>7, <2>1, <2>2 DEF OrderInv
  <1>11. \A x, y \in Mutations : Before(x, y)' /\ y # m => Before(x, y)
    BY <1>7, <1>10 DEF Before
  <1>12. ASSUME NEW x \in Mutations, Before(x, m)'
         PROVE  /\ outcome[m] = "none"
                /\ x \in Range(log) \/ x \in Range(k.pending)
    <2>1. /\ x < m /\ StoreOf[Author[x]] = s /\ outcome'[m] = "queued" /\ outcome'[x] = "queued"
          /\ x \in Nat /\ m \in Nat
      BY <1>1, <1>12, EventsAssumption DEF Before
    <2>2. outcome[m] = "none" /\ c \in holders[s] /\ outcome[x] = "queued"
      BY <1>7, <2>1
    <2>3. x \in Range(log) \cup Range(saved[s].pending)
      BY <2>1, <2>2 DEF SyncInv, NothingLost
    <2>4. Range(saved[s].pending) \subseteq Range(k.pending) \cup Range(log)
      BY <2>2 DEF SyncInv, Follows
    <2> QED BY <2>2, <2>3, <2>4
  <1>13. \A x, y \in Mutations : x < y /\ outcome'[y] # "none" => outcome'[x] # "none"
    BY <1>1, <1>7 DEF OrderInv
  <1>14. ASSUME NEW x \in Mutations, outcome'[x] = "none"
         PROVE  x \notin Range(log') /\ \A p \in Queues' : x \notin Range(p)
    BY <1>1, <1>7, <1>8, <1>9, <1>14 DEF OrderInv
  <1>15. ASSUME NEW x \in Mutations, NEW y \in Mutations, Before(x, y)', y \in Range(log')
         PROVE  Follow(log', x, y)
    <2>1. CASE y = m
      BY <1>1, <1>12, <1>15, <2>1 DEF OrderInv
    <2>2. CASE y # m
      BY <1>1, <1>11, <1>15, <2>2 DEF OrderInv
    <2> QED BY <2>1, <2>2
  <1>16. ASSUME NEW p \in Queues', NEW x \in Mutations, NEW y \in Mutations, Before(x, y)',
                y \in Range(p)
         PROVE  x \in Range(log') \/ Follow(p, x, y)
    <2>1. CASE p \in Queues /\ y # m
      BY <1>1, <1>11, <1>16, <2>1 DEF OrderInv
    <2>2. CASE p \in Queues /\ y = m
      BY <1>12, <1>16, <2>2 DEF OrderInv
    <2>3. CASE p = q /\ y # m
      <3>1. Before(x, y) /\ y \in Range(k.pending)
        BY <1>9, <1>11, <1>16, <2>3
      <3>2. x \in Range(log) \/ Follow(k.pending, x, y)
        BY <1>1, <3>1 DEF OrderInv
      <3> QED BY <1>1, <1>9, <2>3, <3>2
    <2>4. CASE p = q /\ y = m
      BY <1>1, <1>9, <1>12, <1>16, <2>4
    <2> QED BY <1>8, <1>16, <2>1, <2>2, <2>3, <2>4
  <1> QED BY <1>13, <1>14, <1>15, <1>16 DEF OrderInv

LEMMA OrderStep ==
  ASSUME SyncInv, OrderInv, [Next]_vars
  PROVE  OrderInv'
  <1>1. CASE UNCHANGED vars
    BY <1>1 DEF vars, OrderInv, Queues, Before
  <1>2. ASSUME NEW c \in Clients, NEW m \in Mutations, QueueMutation(c, m)
        PROVE  OrderInv'
    BY <1>2, QueuedInOrder
  <1>3. ASSUME NEW c \in Clients, Step(c)
        PROVE  QueuesKept
    BY <1>3, SavesQueue, ReadQueue, ServeQueue, DeniedQueue, AckPullQueue DEF Step
  <1>4. ASSUME NEW c \in Clients,
               \/ Start(c) \/ Connect(c) \/ Update(c) \/ Flush(c)
               \/ SubscriptionEnds(c) \/ ReadCompacted(c) \/ CallFails(c) \/ CallDenied(c)
               \/ ServeLate(c) \/ Crash(c) \/ Stop(c)
        PROVE  QueuesKept
    BY <1>4, ReplacedQueue, MovesQueue, ReadQueue, DeniedQueue, LateQueue
  <1>5. ASSUME NEW e \in ServerEvents, ServerAppends(e)
        PROVE  QueuesKept
    BY <1>5 DEF ServerAppends, QueuesKept, Queues
  <1> QED BY <1>1, <1>2, <1>3, <1>4, <1>5, KeptInOrder DEF Next

LEMMA OrderStarts ==
  ASSUME Init
  PROVE  OrderInv
  <1>1. log = <<>> /\ \A m \in Mutations : outcome[m] = "none"
    BY DEF Init
  <1>2. \A q \in Queues : q = <<>>
    BY DEF Init, Queues, NewClient
  <1> QED BY <1>1, <1>2, EmptyQueue DEF OrderInv, Before

\* The log has a device's mutations in the order they were queued, whichever of its tabs
\* sent them, and however many batches were lost, repeated or served late.
THEOREM LogKeepsOrder == Spec => []InQueueOrder
  <1>1. ASSUME SyncInv, OrderInv PROVE InQueueOrder
    <2> SUFFICES ASSUME NEW m \in Mutations, NEW n \in Mutations, Before(m, n), n \in Range(log)
                 PROVE  m \in Range(log) /\ Revision(log, m) < Revision(log, n)
      BY DEF InQueueOrder, Before
    <2>1. PICK i \in DOMAIN log, j \in DOMAIN log : i < j /\ log[i] = m /\ log[j] = n
      BY <1>1 DEF OrderInv, Follow
    <2>2. Revision(log, m) = i /\ Revision(log, n) = j
      BY <1>1, <2>1 DEF Revision, SyncInv, AppendedOnce, IsInjective
    <2> QED BY <2>1, <2>2 DEF Range
  <1>2. Init => OrderInv
    BY OrderStarts
  <1>3. SyncInv /\ OrderInv /\ [Next]_vars => OrderInv'
    BY OrderStep
  <1>4. SyncInv /\ OrderInv => InQueueOrder
    BY <1>1
  <1> QED BY <1>2, <1>3, <1>4, SyncInvariant, PTL DEF Spec
=============================================================================
