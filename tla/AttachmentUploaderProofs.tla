----------------------- MODULE AttachmentUploaderProofs ----------------------
(* Theorems about AttachmentUploader, for any number of files, any concurrency *)
(* and any number of uploads of a file.                                        *)
EXTENDS AttachmentUploader, FiniteSetTheorems, FunctionTheorems, SequenceTheorems, TLAPS

-----------------------------------------------------------------------------
(* The first that wait *)

\* The items that wait before item i.
Before(waiting, i) == {j \in waiting : j < i}

\* What #pump() takes while `active` of the slots are used.
TakenOf(waiting, active) ==
  {i \in waiting : active + Cardinality(Before(waiting, i)) < Concurrency}

\* A set of numbers that is not empty has a smallest one ...
LEMMA Smallest ==
  ASSUME NEW S, S \subseteq Nat, S # {}
  PROVE  \E m \in S : \A k \in S : m <= k
<1>1. PICK m \in S : \A k \in S : <<k, m>> \notin OpToRel(<, Nat)
  BY WFMin, NatLessThanWellFounded, Zenon
<1>2. \A k \in S : ~(k < m)
  BY <1>1, Zenon DEF OpToRel
<1> QED BY <1>2

\* ... and a largest one, if it is bounded.
LEMMA Largest ==
  ASSUME NEW n \in Nat, NEW S, S \subseteq 1..n, S # {}
  PROVE  \E m \in S : \A k \in S : k <= m
<1> DEFINE D == {n - k : k \in S}
<1>1. D \subseteq Nat /\ D # {}
  <2>1. \A k \in S : n - k \in Nat
    OBVIOUS
  <2>2. PICK k \in S : TRUE
    OBVIOUS
  <2>3. n - k \in D
    BY <2>2
  <2> QED BY <2>1, <2>3, Zenon
<1>2. PICK d \in D : \A k \in D : d <= k
  <2> HIDE DEF D
  <2> QED BY <1>1, Smallest
<1>3. PICK m \in S : d = n - m
  BY <1>2
<1>4. \A k \in S : n - m <= n - k
  BY <1>2, <1>3
<1> QED BY <1>4

\* The slots are filled, never beyond their number, until nobody waits.
LEMMA SlotsAreFilled ==
  ASSUME NEW n \in Nat, NEW waiting, waiting \subseteq 1..n, NEW active \in Nat,
         active <= Concurrency
  PROVE  LET taken == TakenOf(waiting, active) IN
         /\ IsFiniteSet(taken) /\ Cardinality(taken) \in Nat
         /\ active + Cardinality(taken) <= Concurrency
         /\ taken = waiting \/ active + Cardinality(taken) = Concurrency
<1> USE UploaderAssumption
<1> DEFINE taken == TakenOf(waiting, active)
<1>1. \A S : S \subseteq waiting => IsFiniteSet(S) /\ Cardinality(S) \in Nat
  <2>1. IsFiniteSet(1..n)
    BY FS_Interval
  <2> TAKE S
  <2> HAVE S \subseteq waiting
  <2>2. S \in SUBSET (1..n)
    OBVIOUS
  <2>3. IsFiniteSet(S)
    BY <2>1, <2>2, FS_Subset
  <2> QED BY <2>3, FS_CardinalityType
<1>2. taken \subseteq waiting /\ \A i \in waiting : Before(waiting, i) \subseteq waiting
  BY DEF TakenOf, Before
<1>3. \A i \in waiting : i \in taken <=> active + Cardinality(Before(waiting, i)) < Concurrency
  BY DEF TakenOf
<1> HIDE DEF taken
<1>4. active + Cardinality(taken) <= Concurrency
  <2>1. CASE taken = {}
    BY <2>1, FS_EmptySet
  <2>2. CASE taken # {}
    <3>1. taken \subseteq 1..n
      BY <1>2
    <3>2. PICK m \in taken : \A k \in taken : k <= m
      BY <2>2, <3>1, Largest
    <3> DEFINE rest == taken \ {m}
               below == Before(waiting, m)
    <3>3. rest \in SUBSET below
      BY <1>2, <3>2 DEF Before
    <3>4. /\ IsFiniteSet(taken) /\ IsFiniteSet(below) /\ m \in waiting
          /\ Cardinality(taken) \in Nat /\ Cardinality(below) \in Nat
      BY <1>1, <1>2
    <3>5. active + Cardinality(below) < Concurrency
      BY <1>3, <3>4
    <3>6. Cardinality(rest) = Cardinality(taken) - 1
      BY <3>4, FS_RemoveElement
    <3> HIDE DEF rest, below
    <3>7. Cardinality(rest) <= Cardinality(below)
      BY <3>3, <3>4, FS_Subset
    <3> QED BY <3>4, <3>5, <3>6, <3>7
  <2> QED BY <2>1, <2>2
<1>5. ASSUME taken # waiting
      PROVE  active + Cardinality(taken) = Concurrency
  <2> DEFINE left == waiting \ taken
  <2>1. left # {}
    <3>1. SUFFICES ASSUME left = {}
                   PROVE  taken = waiting
      BY <1>5
    <3>2. waiting \subseteq taken
      BY <3>1
    <3> QED BY <1>2, <3>2
  <2>2. left \subseteq Nat
    <3>1. \A k \in 1..n : k \in Nat
      OBVIOUS
    <3> QED BY <3>1
  <2> HIDE DEF left
  <2>3. PICK m \in left : \A k \in left : m <= k
    BY <2>1, <2>2, Smallest
  <2> USE DEF left
  <2> DEFINE below == Before(waiting, m)
  <2>4. below \in SUBSET taken
    <3>1. \A k \in waiting : k < m => k \in taken
      BY <2>2, <2>3
    <3> QED BY <1>2, <3>1 DEF Before
  <2>5. IsFiniteSet(taken) /\ Cardinality(taken) \in Nat /\ Cardinality(below) \in Nat
    BY <1>1, <1>2
  <2>6. active + Cardinality(below) >= Concurrency
    BY <1>3, <2>5
  <2> HIDE DEF below
  <2>7. Cardinality(below) <= Cardinality(taken)
    BY <2>4, <2>5, FS_Subset
  <2> QED BY <1>4, <2>5, <2>6, <2>7
<1>6. IsFiniteSet(taken) /\ Cardinality(taken) \in Nat
  BY <1>1, <1>2
<1> QED BY <1>4, <1>5, <1>6 DEF taken

-----------------------------------------------------------------------------
(* The inductive invariant *)

\* An item that waits, or may be retried, has its source.
Sourced(items) ==
  \A i \in DOMAIN items :
    items[i].status = "queued" \/ (items[i].status = "failed" /\ items[i].retryable)
      => items[i].retained

\* Every call is of an item that is known, under a token it had, and of one at most.
Genuine(calls, items) ==
  /\ IsFiniteSet(calls) /\ calls \subseteq UploadCall
  /\ \A c \in calls : c.item \in DOMAIN items /\ c.token <= items[c.item].runToken
  /\ \A c, d \in calls : c.item = d.item /\ c.token = d.token => c = d

\* The item waits for this call.
Live(c, items) == items[c.item].runToken = c.token /\ items[c.item].status = "uploading"

\* A call whose answer will be dropped was aborted.
Abandoned(calls, items) == \A c \in calls : c.aborted \/ Live(c, items)

UploaderInv ==
  /\ UploaderTypeOK
  /\ Sourced(uploads) /\ Genuine(uploadCalls, uploads)
  /\ \A c \in uploadCalls : c.aborted \/ (~disposed /\ Live(c, uploads))
  /\ activeCount = Cardinality(uploadCalls) /\ activeCount <= Concurrency
  /\ ~disposed => WaitingIn(uploads) = {} \/ activeCount = Concurrency

\* The upload that #pump() begins for an item, and the item it leaves.
NewCall(items, i) == [item |-> i, token |-> items[i].runToken + 1, aborted |-> FALSE]
NewCallsOf(items, taken) == {NewCall(items, i) : i \in taken}
Begun(item) == [item EXCEPT !.status = "uploading", !.runToken = @ + 1, !.attempt = @ + 1]

LEMMA BegunItem ==
  ASSUME NEW item \in Item
  PROVE  /\ Begun(item) \in Item /\ Begun(item).status = "uploading"
         /\ Begun(item).runToken = item.runToken + 1 /\ item.runToken \in Nat
<1>1. item.runToken \in Nat /\ item.attempt \in Nat
  BY DEF Item
<1>2. item.runToken + 1 \in Nat /\ item.attempt + 1 \in Nat
  BY <1>1
<1> DEFINE token == item.runToken + 1
           attempt == item.attempt + 1
<1>3. Begun(item) = [item EXCEPT !.status = "uploading", !.runToken = token, !.attempt = attempt]
  BY DEF Begun
<1>4. token \in Nat /\ attempt \in Nat
  BY <1>2
<1> HIDE DEF token, attempt
<1>5. Begun(item) \in Item /\ Begun(item).status = "uploading" /\ Begun(item).runToken = token
  BY <1>3, <1>4 DEF Item
<1> QED BY <1>1, <1>5 DEF token

\* The new calls of #pump(): as many as items are taken, and none that was there.
LEMMA NewCalls ==
  ASSUME NEW items, NEW calls, Genuine(calls, items),
         NEW taken, taken \subseteq DOMAIN items, IsFiniteSet(taken),
         \A i \in taken : items[i].runToken \in Nat
  PROVE  /\ IsFiniteSet(calls \cup NewCallsOf(items, taken))
         /\ Cardinality(calls \cup NewCallsOf(items, taken)) = Cardinality(calls) + Cardinality(taken)
<1> DEFINE call(i) == NewCall(items, i)
           new == NewCallsOf(items, taken)
           f == [i \in taken |-> call(i)]
<1> USE DEF NewCall, NewCallsOf
<1>1. f \in Bijection(taken, new)
  <2>1. f \in [taken -> new] /\ \A i, j \in taken : f[i] = f[j] => i = j
    OBVIOUS
  <2>2. \A c \in new : \E i \in taken : f[i] = c
    OBVIOUS
  <2> HIDE DEF f, new
  <2>3. f \in Injection(taken, new) /\ f \in Surjection(taken, new)
    BY <2>1, <2>2, Fun_IsInj, Fun_IsSurj
  <2> QED BY <2>3 DEF Bijection
<1>2. ExistsBijection(taken, new)
  BY <1>1 DEF ExistsBijection
<1>3. \A c \in calls : c.token <= items[c.item].runToken /\ c.token \in Nat
  BY DEF Genuine, UploadCall
<1>4. calls \cap new = {}
  <2>1. SUFFICES ASSUME NEW c \in calls, NEW i \in taken, c = call(i)
                 PROVE  FALSE
    OBVIOUS
  <2>2. c.item = i /\ c.token = items[i].runToken + 1
    BY <2>1
  <2> QED BY <1>3, <2>2
<1> HIDE DEF new
<1>5. IsFiniteSet(new) /\ Cardinality(new) = Cardinality(taken)
  BY <1>2, FS_Bijection
<1>6. IsFiniteSet(calls)
  BY DEF Genuine
<1>7. /\ IsFiniteSet(calls \cup new)
      /\ Cardinality(calls \cup new) =
           Cardinality(calls) + Cardinality(new) - Cardinality(calls \cap new)
  BY <1>5, <1>6, FS_Union
<1>8. Cardinality(calls) \in Nat /\ Cardinality(taken) \in Nat
  BY <1>6, FS_CardinalityType
<1>9. Cardinality(calls \cup new) = Cardinality(calls) + Cardinality(taken)
  BY <1>4, <1>5, <1>7, <1>8, FS_EmptySet
<1> QED BY <1>7, <1>9 DEF new

\* #pump() keeps everything: it is what every operation but progress and disposal ends
\* with.
LEMMA PumpKeeps ==
  ASSUME NEW items \in Seq(Item), Len(items) <= MaxItems, Sourced(items),
         NEW calls, Genuine(calls, items), Abandoned(calls, items),
         NEW active, active = Cardinality(calls), active <= Concurrency,
         disposed = FALSE, Pump(items, calls, active)
  PROVE  UploaderInv'
<1> USE UploaderAssumption
<1> DEFINE n == Len(items)
           waiting == WaitingIn(items)
           taken == TakenOf(waiting, active)
           call(i) == NewCall(items, i)
           new == NewCallsOf(items, taken)
           begun(i) == Begun(items[i])
<1>1. /\ uploads' = [i \in DOMAIN items |-> IF i \in taken THEN begun(i) ELSE items[i]]
      /\ uploadCalls' = calls \cup new
      /\ activeCount' = active + Cardinality(taken)
      /\ disposed' = FALSE
  BY DEF Pump, TakenOf, Before, NewCall, NewCallsOf, Begun
<1>2. n \in Nat /\ DOMAIN items = 1..n /\ \A i \in 1..n : items[i] \in Item
  BY ElementOfSeq, LenProperties
<1>3. waiting \subseteq 1..n /\ taken \subseteq waiting
  BY <1>2 DEF WaitingIn, TakenOf
<1>4. \A i \in waiting : items[i].status = "queued" /\ items[i].listed /\ ~items[i].held
  BY DEF WaitingIn
<1>5. active \in Nat
  BY FS_CardinalityType DEF Genuine
<1>6. /\ IsFiniteSet(taken) /\ Cardinality(taken) \in Nat
      /\ active + Cardinality(taken) <= Concurrency
      /\ taken = waiting \/ active + Cardinality(taken) = Concurrency
  BY <1>2, <1>3, <1>5, SlotsAreFilled
<1>7. \A i \in taken : /\ begun(i) \in Item /\ begun(i).status = "uploading"
                       /\ begun(i).runToken = items[i].runToken + 1
                       /\ items[i].runToken \in Nat /\ call(i) \in UploadCall
  <2> TAKE i \in taken
  <2>1. items[i] \in Item /\ i \in 1..MaxItems
    BY <1>2, <1>3
  <2> HIDE DEF taken, waiting
  <2>2. items[i].runToken + 1 \in Nat
    BY <2>1, BegunItem
  <2> QED BY <2>1, <2>2, BegunItem DEF UploadCall, NewCall
<1> HIDE DEF taken, waiting, begun, n
<1>8. /\ DOMAIN uploads' = 1..n
      /\ \A i \in 1..n : uploads'[i] = IF i \in taken THEN begun(i) ELSE items[i]
  BY <1>1, <1>2
<1>9. uploads' \in Seq(Item) /\ Len(uploads') = n
  <2>1. \A i \in 1..n : uploads'[i] \in Item
    BY <1>2, <1>7, <1>8
  <2>2. uploads' = [i \in 1..n |-> IF i \in taken THEN begun(i) ELSE items[i]]
    BY <1>1, <1>2
  <2>3. uploads' \in [1..n -> Item]
    BY <2>1, <2>2, <1>8
  <2> QED BY <1>2, <2>3
<1>10. UploaderTypeOK'
  <2>1. uploadCalls' \subseteq UploadCall
    BY <1>1, <1>7 DEF Genuine, NewCallsOf
  <2>2. activeCount' \in Nat
    BY <1>1, <1>5, <1>6
  <2> QED BY <1>1, <1>9, <2>1, <2>2 DEF UploaderTypeOK, n
<1>11. Sourced(uploads')
  BY <1>2, <1>7, <1>8 DEF Sourced
<1>12. IsFiniteSet(uploadCalls') /\ activeCount' = Cardinality(uploadCalls')
  <2>1. taken \subseteq DOMAIN items
    BY <1>2, <1>3
  <2>2. \A i \in taken : items[i].runToken \in Nat
    BY <1>7
  <2>3. IsFiniteSet(calls \cup new) /\ Cardinality(calls \cup new) = Cardinality(calls) + Cardinality(taken)
    BY <1>6, <2>1, <2>2, NewCalls
  <2> HIDE DEF new
  <2> QED BY <1>1, <2>3
<1>13. \A c \in calls : /\ c.item \in 1..n /\ c.token \in Nat /\ c.token <= items[c.item].runToken
                        /\ items[c.item].runToken \in Nat
                        /\ c.aborted \/ (Live(c, items) /\ c.item \notin taken)
  BY <1>2, <1>3, <1>4 DEF Genuine, Abandoned, UploadCall, Live, Item
<1>14. \A i \in taken : /\ call(i).item = i /\ call(i).token = items[i].runToken + 1
                        /\ i \in 1..n
  BY <1>3 DEF NewCall
<1>15. \A c \in uploadCalls' : c.item \in DOMAIN uploads' /\ c.token <= uploads'[c.item].runToken
  <2>1. ASSUME NEW c \in calls
        PROVE  c.item \in DOMAIN uploads' /\ c.token <= uploads'[c.item].runToken
    <3>1. /\ c.item \in 1..n /\ c.token \in Nat /\ c.token <= items[c.item].runToken
          /\ items[c.item].runToken \in Nat
      BY <1>13
    <3>2. CASE c.item \in taken
      <4>1. uploads'[c.item].runToken = items[c.item].runToken + 1
        BY <1>7, <1>8, <3>1, <3>2
      <4> QED BY <1>8, <3>1, <4>1
    <3>3. CASE c.item \notin taken
      <4>1. uploads'[c.item] = items[c.item]
        BY <1>8, <3>1, <3>3
      <4> QED BY <1>8, <3>1, <4>1
    <3> QED BY <3>2, <3>3
  <2>2. ASSUME NEW i \in taken
        PROVE  call(i).item \in DOMAIN uploads' /\ call(i).token <= uploads'[call(i).item].runToken
    <3>1. uploads'[i].runToken = call(i).token /\ call(i).item = i /\ call(i).token \in Nat
      BY <1>7, <1>8, <1>14
    <3> QED BY <1>8, <1>14, <3>1
  <2> QED BY <1>1, <2>1, <2>2 DEF NewCallsOf
<1>16. \A c, d \in uploadCalls' : c.item = d.item /\ c.token = d.token => c = d
  <2>1. \A c, d \in calls : c.item = d.item /\ c.token = d.token => c = d
    BY DEF Genuine
  <2>2. \A c \in calls, i \in taken : ~(c.item = call(i).item /\ c.token = call(i).token)
    BY <1>13, <1>14
  <2>3. \A i, j \in taken : call(i).item = call(j).item => call(i) = call(j)
    BY <1>14
  <2> QED BY <1>1, <2>1, <2>2, <2>3 DEF NewCallsOf
<1>17. \A c \in uploadCalls' : c.aborted \/ Live(c, uploads')
  <2>1. ASSUME NEW c \in calls
        PROVE  c.aborted \/ Live(c, uploads')
    BY <1>8, <1>13 DEF Live
  <2>2. ASSUME NEW i \in taken
        PROVE  Live(call(i), uploads')
    BY <1>7, <1>8, <1>14 DEF Live
  <2> QED BY <1>1, <2>1, <2>2 DEF NewCallsOf
<1>18. WaitingIn(uploads') = {} \/ activeCount' = Concurrency
  <2>1. \A i \in WaitingIn(uploads') : i \in waiting \ taken
    BY <1>2, <1>7, <1>8 DEF WaitingIn, waiting
  <2> QED BY <1>1, <1>6, <2>1
<1>19. Genuine(uploadCalls', uploads')
  BY <1>10, <1>12, <1>15, <1>16 DEF Genuine, UploaderTypeOK
<1>20. activeCount' <= Concurrency
  BY <1>1, <1>6
<1> QED BY <1>1, <1>10, <1>11, <1>12, <1>17, <1>18, <1>19, <1>20 DEF UploaderInv

-----------------------------------------------------------------------------
(* The operations *)

\* Marking calls leaves as many, of the same items under the same tokens.
LEMMA MarkedCalls ==
  ASSUME NEW calls, NEW items, Genuine(calls, items),
         NEW f \in [calls -> UploadCall],
         \A c \in calls : f[c].item = c.item /\ f[c].token = c.token,
         NEW marked, marked = {f[c] : c \in calls}
  PROVE  Genuine(marked, items) /\ Cardinality(marked) = Cardinality(calls)
<1>1. IsFiniteSet(calls) /\ \A c, d \in calls : c.item = d.item /\ c.token = d.token => c = d
  BY DEF Genuine
<1>2. f \in Bijection(calls, marked)
  <2>1. f \in [calls -> marked] /\ \A c, d \in calls : f[c] = f[d] => c = d
    BY <1>1
  <2>2. \A m \in marked : \E c \in calls : f[c] = m
    OBVIOUS
  <2>3. f \in Injection(calls, marked) /\ f \in Surjection(calls, marked)
    BY <2>1, <2>2, Fun_IsInj, Fun_IsSurj
  <2> QED BY <2>3 DEF Bijection
<1>3. ExistsBijection(calls, marked)
  BY <1>2 DEF ExistsBijection
<1>4. IsFiniteSet(marked) /\ Cardinality(marked) = Cardinality(calls)
  BY <1>1, <1>3, FS_Bijection
<1> QED BY <1>1, <1>4 DEF Genuine

\* cancel, remove and restoreReady abort what is under way for their item.
LEMMA AbortedCalls ==
  ASSUME NEW items, Genuine(uploadCalls, items), NEW i
  PROVE  /\ Genuine(Aborted(i), items) /\ Cardinality(Aborted(i)) = Cardinality(uploadCalls)
         /\ \A c \in Aborted(i) : c.aborted \/ (c \in uploadCalls /\ c.item # i)
<1> DEFINE f == [c \in uploadCalls |-> IF c.item = i THEN [c EXCEPT !.aborted = TRUE] ELSE c]
<1>1. \A c \in uploadCalls : c \in UploadCall
  BY DEF Genuine
<1>2. \A c \in UploadCall : /\ [c EXCEPT !.aborted = TRUE] \in UploadCall
                            /\ [c EXCEPT !.aborted = TRUE].aborted
                            /\ [c EXCEPT !.aborted = TRUE].item = c.item
                            /\ [c EXCEPT !.aborted = TRUE].token = c.token
  BY DEF UploadCall
<1>3. f \in [uploadCalls -> UploadCall] /\ \A c \in uploadCalls : f[c].item = c.item /\ f[c].token = c.token
  BY <1>1, <1>2
<1>4. Aborted(i) = {f[c] : c \in uploadCalls}
  BY DEF Aborted
<1>5. \A c \in uploadCalls : f[c].aborted \/ (f[c] \in uploadCalls /\ f[c].item # i)
  BY <1>1, <1>2
<1> HIDE DEF f
<1> QED BY <1>3, <1>4, <1>5, MarkedCalls

\* One item changes, and its token does not fall back.
LEMMA ItemChanges ==
  ASSUME NEW items \in Seq(Item), Sourced(items), NEW i \in DOMAIN items, NEW q \in Item,
         q.runToken >= items[i].runToken,
         q.status = "queued" \/ (q.status = "failed" /\ q.retryable) => q.retained,
         NEW calls, Genuine(calls, items),
         \A c \in calls : IF c.item = i
                          THEN c.aborted \/ (q.runToken = c.token /\ q.status = "uploading")
                          ELSE c.aborted \/ Live(c, items),
         NEW next, next = [items EXCEPT ![i] = q]
  PROVE  /\ next \in Seq(Item) /\ Len(next) = Len(items)
         /\ Sourced(next) /\ Genuine(calls, next) /\ Abandoned(calls, next)
<1>1. DOMAIN items = 1..Len(items) /\ Len(items) \in Nat /\ \A j \in DOMAIN items : items[j] \in Item
  BY ElementOfSeq, LenProperties
<1>2. /\ next \in Seq(Item) /\ Len(next) = Len(items)
      /\ DOMAIN next = DOMAIN items
      /\ \A j \in DOMAIN items : next[j] = IF j = i THEN q ELSE items[j]
  BY <1>1
<1>3. Sourced(next)
  BY <1>2 DEF Sourced
<1>4. \A c \in calls : c.item \in DOMAIN items /\ c.token <= items[c.item].runToken /\ c.token \in Nat
                       /\ items[c.item].runToken \in Nat
  BY <1>1 DEF Genuine, UploadCall, Item
<1>5. q.runToken \in Nat
  BY DEF Item
<1>6. ASSUME NEW c \in calls
      PROVE  c.item \in DOMAIN next /\ c.token <= next[c.item].runToken
  <2>1. CASE c.item = i
    BY <1>2, <1>4, <1>5, <2>1
  <2>2. CASE c.item # i
    BY <1>2, <1>4, <2>2
  <2> QED BY <2>1, <2>2
<1>7. Genuine(calls, next)
  BY <1>6 DEF Genuine
<1>8. Abandoned(calls, next)
  BY <1>2, <1>4 DEF Abandoned, Live
<1> QED BY <1>2, <1>3, <1>7, <1>8

\* What the invariant says of a queue that is not disposed of.
LEMMA OpenQueue ==
  ASSUME UploaderInv, disposed = FALSE
  PROVE  /\ uploads \in Seq(Item) /\ Len(uploads) <= MaxItems /\ Sourced(uploads)
         /\ Genuine(uploadCalls, uploads) /\ Abandoned(uploadCalls, uploads)
         /\ activeCount = Cardinality(uploadCalls) /\ activeCount <= Concurrency
         /\ DOMAIN uploads = 1..Len(uploads) /\ Len(uploads) \in Nat
         /\ \A i \in DOMAIN uploads : uploads[i] \in Item
<1>1. uploads \in Seq(Item)
  BY DEF UploaderInv, UploaderTypeOK
<1>2. DOMAIN uploads = 1..Len(uploads) /\ Len(uploads) \in Nat /\ \A i \in DOMAIN uploads : uploads[i] \in Item
  BY <1>1, ElementOfSeq, LenProperties
<1> QED BY <1>1, <1>2 DEF UploaderInv, UploaderTypeOK, Abandoned

\* cancel, remove and restoreReady: the token of an item moves on and what is under way
\* for it is aborted.
LEMMA MovedOn ==
  ASSUME UploaderInv, disposed = FALSE, NEW i \in DOMAIN uploads, NEW q \in Item,
         q.runToken >= uploads[i].runToken,
         q.status = "queued" \/ (q.status = "failed" /\ q.retryable) => q.retained,
         Pump([uploads EXCEPT ![i] = q], Aborted(i), activeCount)
  PROVE  UploaderInv'
<1> DEFINE next == [uploads EXCEPT ![i] = q]
<1>1. /\ Genuine(Aborted(i), uploads) /\ Cardinality(Aborted(i)) = Cardinality(uploadCalls)
      /\ \A c \in Aborted(i) : c.aborted \/ (c \in uploadCalls /\ c.item # i)
  BY OpenQueue, AbortedCalls
<1>2. \A c \in Aborted(i) : IF c.item = i
                            THEN c.aborted \/ (q.runToken = c.token /\ q.status = "uploading")
                            ELSE c.aborted \/ Live(c, uploads)
  BY <1>1, OpenQueue DEF Abandoned
<1> HIDE DEF next
<1>3. /\ next \in Seq(Item) /\ Len(next) = Len(uploads)
      /\ Sourced(next) /\ Genuine(Aborted(i), next) /\ Abandoned(Aborted(i), next)
  BY <1>1, <1>2, OpenQueue, ItemChanges DEF next
<1> QED BY <1>1, <1>3, OpenQueue, PumpKeeps DEF next

\* enqueue, start, retry: nothing under way is touched.
LEMMA Undisturbed ==
  ASSUME UploaderInv, disposed = FALSE, NEW i \in DOMAIN uploads, NEW q \in Item,
         q.runToken = uploads[i].runToken,
         uploads[i].status # "uploading" \/ q.status = "uploading",
         q.status = "queued" \/ (q.status = "failed" /\ q.retryable) => q.retained,
         Pump([uploads EXCEPT ![i] = q], uploadCalls, activeCount)
  PROVE  UploaderInv'
<1> DEFINE next == [uploads EXCEPT ![i] = q]
<1>1. \A c \in uploadCalls : IF c.item = i
                             THEN c.aborted \/ (q.runToken = c.token /\ q.status = "uploading")
                             ELSE c.aborted \/ Live(c, uploads)
  BY OpenQueue DEF Abandoned, Live
<1>2. q.runToken >= uploads[i].runToken
  BY OpenQueue DEF Item
<1> HIDE DEF next
<1>3. /\ next \in Seq(Item) /\ Len(next) = Len(uploads)
      /\ Sourced(next) /\ Genuine(uploadCalls, next) /\ Abandoned(uploadCalls, next)
  BY <1>1, <1>2, OpenQueue, ItemChanges DEF next
<1> QED BY <1>3, OpenQueue, PumpKeeps DEF next

\* enqueue() of a file, waiting or ready at once.
LEMMA EnqueueKeeps ==
  ASSUME UploaderInv, NEW s \in Selections, NEW defer \in BOOLEAN, NEW restored \in BOOLEAN,
         Enqueue(s, defer, restored)
  PROVE  UploaderInv'
<1> DEFINE item == [selection |-> s, listed |-> TRUE, held |-> defer, retained |-> ~restored,
               status |-> IF restored THEN "ready" ELSE "queued", retryable |-> FALSE,
               runToken |-> 0, attempt |-> 0, uploaded |-> IF restored THEN ByteSize ELSE 0,
               reference |-> 0, restored |-> restored]
           next == Append(uploads, item)
<1>1. disposed = FALSE /\ Len(uploads) < MaxItems /\ Pump(next, uploadCalls, activeCount)
  BY DEF Enqueue, UploaderInv, UploaderTypeOK
<1>2. item \in Item /\ item.status \in {"queued", "ready"} /\ (item.status = "queued" => item.retained)
  <2>1. CASE restored = TRUE
    <3>1. /\ item.status = "ready"
          /\ item = [selection |-> s, listed |-> TRUE, held |-> defer, retained |-> FALSE,
                     status |-> "ready", retryable |-> FALSE, runToken |-> 0, attempt |-> 0,
                     uploaded |-> ByteSize, reference |-> 0, restored |-> TRUE]
      BY <2>1
    <3> QED BY <3>1, UploaderAssumption DEF Item
  <2>2. CASE restored = FALSE
    <3>1. /\ item.status = "queued" /\ item.retained = TRUE
          /\ item = [selection |-> s, listed |-> TRUE, held |-> defer, retained |-> TRUE,
                     status |-> "queued", retryable |-> FALSE, runToken |-> 0, attempt |-> 0,
                     uploaded |-> 0, reference |-> 0, restored |-> FALSE]
      BY <2>2
    <3> QED BY <3>1, UploaderAssumption DEF Item
  <2> QED BY <2>1, <2>2
<1> HIDE DEF item
<1>3. /\ next \in Seq(Item) /\ Len(next) = Len(uploads) + 1
      /\ \A i \in DOMAIN uploads : next[i] = uploads[i]
      /\ next[Len(uploads) + 1] = item /\ DOMAIN next = 1..(Len(uploads) + 1)
  <2>1. uploads \in Seq(Item) /\ Len(uploads) \in Nat /\ DOMAIN uploads = 1..Len(uploads)
    BY <1>1, OpenQueue
  <2> QED BY <1>2, <2>1
<1> HIDE DEF next
<1>4. Len(next) <= MaxItems
  BY <1>1, <1>3, OpenQueue, UploaderAssumption
<1>5. Sourced(next)
  <2>1. \A i \in DOMAIN next : i \in DOMAIN uploads \/ i = Len(uploads) + 1
    BY <1>1, <1>3, OpenQueue
  <2> QED BY <1>1, <1>2, <1>3, <2>1, OpenQueue DEF Sourced
<1>6. DOMAIN uploads \subseteq DOMAIN next
  BY <1>1, <1>3, OpenQueue
<1>7. Genuine(uploadCalls, next) /\ Abandoned(uploadCalls, next)
  BY <1>1, <1>3, <1>6, OpenQueue DEF Genuine, Abandoned, Live
<1> QED BY <1>1, <1>3, <1>4, <1>5, <1>7, OpenQueue, PumpKeeps

\* The item that takes an answer.
LEMMA TakenItem ==
  ASSUME NEW item \in Item, NEW call, call.token \in Nat, NEW answer
  PROVE  LET q == Taken(item, call, answer) IN
         /\ q \in Item /\ q.runToken = item.runToken /\ q.status \in {"ready", "failed"}
         /\ q.status = "failed" /\ q.retryable => q.retained
<1>1. CASE answer = "reference"
  <2> DEFINE token == call.token
  <2>1. Taken(item, call, answer) =
          [item EXCEPT !.status = "ready", !.uploaded = ByteSize, !.reference = token, !.retained = FALSE]
    BY <1>1 DEF Taken
  <2>2. ByteSize \in 0..ByteSize /\ token \in Nat
    BY UploaderAssumption
  <2> HIDE DEF token
  <2> QED BY <2>1, <2>2 DEF Item
<1>2. CASE answer # "reference"
  <2> DEFINE again == (answer = "retryable")
  <2>1. Taken(item, call, answer) =
          [item EXCEPT !.status = "failed", !.retryable = again, !.retained = again]
    BY <1>2 DEF Taken
  <2>2. again \in BOOLEAN
    OBVIOUS
  <2> HIDE DEF again
  <2> QED BY <2>1, <2>2 DEF Item
<1> QED BY <1>1, <1>2

\* A Promise of the adapter settles: its call is there no more, and its answer is taken
\* by the item that waits for it, if one does.
LEMMA SettleKeeps ==
  ASSUME UploaderInv, NEW call \in uploadCalls, NEW answer \in {"reference", "retryable", "refused"},
         SettleUpload(call, answer)
  PROVE  UploaderInv'
<1> DEFINE rest == uploadCalls \ {call}
<1>1. IsFiniteSet(uploadCalls) /\ activeCount = Cardinality(uploadCalls) /\ activeCount \in Nat
        /\ activeCount <= Concurrency
  BY DEF UploaderInv, UploaderTypeOK, Genuine
<1>2. IsFiniteSet(rest) /\ Cardinality(rest) = activeCount - 1 /\ Cardinality(rest) \in Nat
  BY <1>1, FS_RemoveElement, FS_CardinalityType
<1>3. activeCount - 1 <= Concurrency
  BY <1>1, UploaderAssumption
<1>4. Genuine(rest, uploads)
  BY <1>2 DEF UploaderInv, Genuine
<1>5. CASE disposed
  <2>1. uploadCalls' = rest /\ activeCount' = activeCount - 1 /\ uploads' = uploads /\ disposed' = disposed
    BY <1>5 DEF SettleUpload
  <2>2. UploaderTypeOK'
    BY <1>2, <2>1 DEF UploaderInv, UploaderTypeOK
  <2>3. Sourced(uploads) /\ \A c \in rest : c.aborted
    BY <1>5 DEF UploaderInv
  <2> HIDE DEF rest
  <2> QED BY <1>2, <1>3, <1>4, <1>5, <2>1, <2>2, <2>3 DEF UploaderInv
<1>6. CASE ~disposed
  <2>1. disposed = FALSE
    BY <1>6 DEF UploaderInv, UploaderTypeOK
  <2>2. CASE CurrentCall(call)
    <3> DEFINE i == call.item
               q == Taken(uploads[i], call, answer)
               next == [uploads EXCEPT ![i] = q]
    <3>1. Pump(next, rest, activeCount - 1)
      BY <1>6, <2>2 DEF SettleUpload
    <3>2. i \in DOMAIN uploads /\ uploads[i] \in Item /\ call.token \in Nat
          /\ uploads[i].runToken = call.token /\ uploads[i].status = "uploading"
      BY <2>1, <2>2, OpenQueue DEF Genuine, UploadCall, CurrentCall
    <3>3. /\ q \in Item /\ q.runToken = uploads[i].runToken /\ q.status \in {"ready", "failed"}
          /\ q.status = "failed" /\ q.retryable => q.retained
      BY <3>2, TakenItem
    <3> HIDE DEF q
    <3>4. \A c \in rest : c.item = i => c.aborted
      <4> TAKE c \in rest
      <4> HAVE c.item = i
      <4>1. c \in uploadCalls /\ c # call
        OBVIOUS
      <4>2. c.token # call.token
        BY <2>1, <4>1, OpenQueue DEF Genuine
      <4> QED BY <2>1, <3>2, <4>1, <4>2, OpenQueue DEF Abandoned, Live
    <3>5. \A c \in rest : IF c.item = i
                          THEN c.aborted \/ (q.runToken = c.token /\ q.status = "uploading")
                          ELSE c.aborted \/ Live(c, uploads)
      BY <2>1, <3>4, OpenQueue DEF Abandoned
    <3>6. q.runToken >= uploads[i].runToken
      BY <3>2, <3>3
    <3> HIDE DEF rest, next, i
    <3>7. /\ next \in Seq(Item) /\ Len(next) = Len(uploads)
          /\ Sourced(next) /\ Genuine(rest, next) /\ Abandoned(rest, next)
      BY <1>4, <2>1, <3>2, <3>3, <3>5, <3>6, OpenQueue, ItemChanges DEF next
    <3> QED BY <1>2, <1>3, <2>1, <3>1, <3>7, OpenQueue, PumpKeeps
  <2>3. CASE ~CurrentCall(call)
    <3>1. Pump(uploads, rest, activeCount - 1)
      BY <1>6, <2>3 DEF SettleUpload
    <3>2. Abandoned(rest, uploads)
      BY <2>1, OpenQueue DEF Abandoned
    <3> HIDE DEF rest
    <3> QED BY <1>2, <1>3, <1>4, <2>1, <3>1, <3>2, OpenQueue, PumpKeeps
  <2> QED BY <2>2, <2>3
<1> QED BY <1>5, <1>6

\* Disposal aborts what is under way and takes no answer any more.
LEMMA DisposeKeeps ==
  ASSUME UploaderInv, Dispose
  PROVE  UploaderInv'
<1> DEFINE f == [c \in uploadCalls |-> [c EXCEPT !.aborted = TRUE]]
           unlisted(i) == [uploads[i] EXCEPT !.listed = FALSE, !.runToken = @ + 1]
<1>0. disposed = FALSE
  BY DEF Dispose, UploaderInv, UploaderTypeOK
<1>1. \A c \in uploadCalls : f[c] \in UploadCall /\ f[c].item = c.item /\ f[c].token = c.token /\ f[c].aborted
  BY DEF UploaderInv, Genuine, UploadCall
<1>2. uploadCalls' = {f[c] : c \in uploadCalls} /\ f \in [uploadCalls -> UploadCall]
  BY <1>1 DEF Dispose
<1>3. \A i \in DOMAIN uploads : /\ unlisted(i) \in Item /\ unlisted(i).runToken = uploads[i].runToken + 1
                                /\ unlisted(i).status = uploads[i].status
                                /\ unlisted(i).retryable = uploads[i].retryable
                                /\ unlisted(i).retained = uploads[i].retained
                                /\ uploads[i].runToken \in Nat
  <2> TAKE i \in DOMAIN uploads
  <2> DEFINE token == uploads[i].runToken + 1
  <2>1. uploads[i] \in Item
    BY <1>0, OpenQueue
  <2>2. unlisted(i) = [uploads[i] EXCEPT !.listed = FALSE, !.runToken = token]
    OBVIOUS
  <2>3. uploads[i].runToken \in Nat /\ token \in Nat
    BY <2>1 DEF Item
  <2> HIDE DEF token, unlisted
  <2>4. /\ unlisted(i) \in Item /\ unlisted(i).runToken = token
        /\ unlisted(i).status = uploads[i].status /\ unlisted(i).retryable = uploads[i].retryable
        /\ unlisted(i).retained = uploads[i].retained
    BY <2>1, <2>2, <2>3 DEF Item
  <2> QED BY <2>3, <2>4 DEF token
<1> HIDE DEF f, unlisted
<1>4. Genuine(uploadCalls', uploads) /\ Cardinality(uploadCalls') = Cardinality(uploadCalls)
  <2> DEFINE marked == uploadCalls'
  <2>1. marked = {f[c] : c \in uploadCalls} /\ Genuine(uploadCalls, uploads)
    BY <1>0, <1>2, OpenQueue
  <2>2. f \in [uploadCalls -> UploadCall] /\ \A c \in uploadCalls : f[c].item = c.item /\ f[c].token = c.token
    BY <1>1, <1>2
  <2> HIDE DEF marked
  <2>3. Genuine(marked, uploads) /\ Cardinality(marked) = Cardinality(uploadCalls)
    BY <2>1, <2>2, MarkedCalls
  <2> QED BY <2>3 DEF marked
<1>5. \A c \in uploadCalls' : c.aborted
  BY <1>1, <1>2
<1>6. /\ uploads' = [i \in DOMAIN uploads |-> IF uploads[i].listed THEN unlisted(i) ELSE uploads[i]]
      /\ disposed' = TRUE /\ activeCount' = activeCount
  BY DEF Dispose, unlisted
<1>7. /\ uploads' \in Seq(Item) /\ Len(uploads') = Len(uploads) /\ DOMAIN uploads' = DOMAIN uploads
      /\ \A i \in DOMAIN uploads : uploads'[i] = IF uploads[i].listed THEN unlisted(i) ELSE uploads[i]
  <2>1. \A i \in 1..Len(uploads) : uploads'[i] \in Item
    BY <1>0, <1>3, <1>6, OpenQueue
  <2>2. uploads' = [i \in 1..Len(uploads) |-> IF uploads[i].listed THEN unlisted(i) ELSE uploads[i]]
    BY <1>0, <1>6, OpenQueue
  <2>3. uploads' \in [1..Len(uploads) -> Item]
    BY <2>1, <2>2
  <2> QED BY <1>0, <1>6, <2>2, <2>3, OpenQueue
<1>8. Sourced(uploads')
  BY <1>0, <1>3, <1>7, OpenQueue DEF Sourced
<1>9. Genuine(uploadCalls', uploads')
  <2>1. \A c \in uploadCalls' : c.item \in DOMAIN uploads' /\ c.token <= uploads'[c.item].runToken
    <3> TAKE c \in uploadCalls'
    <3>1. c.item \in DOMAIN uploads /\ c.token <= uploads[c.item].runToken /\ c.token \in Nat
      BY <1>4 DEF Genuine, UploadCall
    <3>2. uploads'[c.item].runToken \in {uploads[c.item].runToken, uploads[c.item].runToken + 1}
      BY <1>3, <1>7, <3>1
    <3>3. uploads[c.item].runToken \in Nat
      BY <1>3, <3>1
    <3> QED BY <1>7, <3>1, <3>2, <3>3
  <2> QED BY <1>4, <2>1 DEF Genuine
<1>10. UploaderTypeOK'
  BY <1>0, <1>6, <1>7, <1>9, OpenQueue DEF UploaderInv, UploaderTypeOK, Genuine
<1> QED BY <1>0, <1>4, <1>5, <1>6, <1>8, <1>9, <1>10, OpenQueue DEF UploaderInv

\* Progress is shown, and nothing else.
LEMMA ProgressKeeps ==
  ASSUME UploaderInv, NEW call \in uploadCalls, NEW bytes \in 0..ByteSize, ReportProgress(call, bytes)
  PROVE  UploaderInv'
<1> DEFINE i == call.item
           q == [uploads[i] EXCEPT !.uploaded = bytes]
<1>1. disposed = FALSE
  BY DEF ReportProgress, CurrentCall, UploaderInv, UploaderTypeOK
<1>2. i \in DOMAIN uploads /\ uploads[i] \in Item
  BY <1>1, OpenQueue DEF Genuine
<1>3. /\ q \in Item /\ q.status = uploads[i].status /\ q.retained = uploads[i].retained
      /\ q.runToken = uploads[i].runToken /\ q.retryable = uploads[i].retryable
      /\ q.listed = uploads[i].listed /\ q.held = uploads[i].held
  BY <1>2 DEF Item
<1>4. uploads' = [uploads EXCEPT ![i] = q] /\ UNCHANGED <<uploadCalls, activeCount, disposed>>
  BY DEF ReportProgress
<1> HIDE DEF q
<1>5. \A c \in uploadCalls : IF c.item = i
                             THEN c.aborted \/ (q.runToken = c.token /\ q.status = "uploading")
                             ELSE c.aborted \/ Live(c, uploads)
  BY <1>1, <1>3, OpenQueue DEF Abandoned, Live
<1>6. q.runToken >= uploads[i].runToken
  BY <1>2, <1>3 DEF Item
<1>7. q.status = "queued" \/ (q.status = "failed" /\ q.retryable) => q.retained
  BY <1>1, <1>2, <1>3, OpenQueue DEF Sourced
<1> HIDE DEF i
<1>8. /\ uploads' \in Seq(Item) /\ Len(uploads') = Len(uploads)
      /\ Sourced(uploads') /\ Genuine(uploadCalls, uploads') /\ Abandoned(uploadCalls, uploads')
  BY <1>1, <1>2, <1>3, <1>4, <1>5, <1>6, <1>7, OpenQueue, ItemChanges
<1>9. WaitingIn(uploads') = WaitingIn(uploads)
  BY <1>1, <1>2, <1>3, <1>4, OpenQueue DEF WaitingIn
<1> QED BY <1>1, <1>4, <1>8, <1>9, OpenQueue DEF UploaderInv, UploaderTypeOK, Abandoned

\* Every step keeps the slots accounted for.
LEMMA StepKeepsSlots ==
  ASSUME UploaderInv, [UploaderNext]_uploaderVars
  PROVE  UploaderInv'
<1>1. CASE UNCHANGED uploaderVars
  BY <1>1 DEF uploaderVars, UploaderInv, UploaderTypeOK, Sourced, Genuine, Live, WaitingIn
<1>2. ASSUME NEW s \in Selections, NEW defer \in BOOLEAN, NEW restored \in BOOLEAN,
             Enqueue(s, defer, restored)
      PROVE  UploaderInv'
  BY <1>2, EnqueueKeeps
<1>3. \A i : Listed(i) => i \in DOMAIN uploads /\ disposed = FALSE
  BY DEF Listed, UploaderInv, UploaderTypeOK
<1>4. ASSUME NEW i, StartUpload(i)
      PROVE  UploaderInv'
  <2> DEFINE q == [uploads[i] EXCEPT !.held = FALSE]
  <2>1. i \in DOMAIN uploads /\ disposed = FALSE
    BY <1>3, <1>4 DEF StartUpload
  <2>2. uploads[i] \in Item /\ uploads[i].status = "queued" /\ uploads[i].retained
    BY <1>4, <2>1, OpenQueue DEF StartUpload, Sourced
  <2>3. q \in Item /\ q.status = "queued" /\ q.retained /\ q.runToken = uploads[i].runToken
    BY <2>2 DEF Item
  <2>4. Pump([uploads EXCEPT ![i] = q], uploadCalls, activeCount)
    BY <1>4 DEF StartUpload
  <2> HIDE DEF q
  <2> QED BY <2>1, <2>2, <2>3, <2>4, Undisturbed
<1>5. ASSUME NEW i, RetryUpload(i)
      PROVE  UploaderInv'
  <2> DEFINE q == [uploads[i] EXCEPT !.status = "queued", !.uploaded = 0]
  <2>1. i \in DOMAIN uploads /\ disposed = FALSE
    BY <1>3, <1>5 DEF RetryUpload
  <2>2. uploads[i] \in Item /\ uploads[i].status = "failed" /\ uploads[i].retained
    BY <1>5, <2>1, OpenQueue DEF RetryUpload, Sourced
  <2>3. q \in Item /\ q.status = "queued" /\ q.retained /\ q.runToken = uploads[i].runToken
    <3>1. 0 \in 0..ByteSize
      BY UploaderAssumption
    <3> QED BY <2>2, <3>1 DEF Item
  <2>4. Pump([uploads EXCEPT ![i] = q], uploadCalls, activeCount)
    BY <1>5 DEF RetryUpload
  <2> HIDE DEF q
  <2> QED BY <2>1, <2>2, <2>3, <2>4, Undisturbed
<1>6. ASSUME NEW i, RestoreReady(i)
      PROVE  UploaderInv'
  <2> DEFINE token == uploads[i].runToken + 1
             q == [uploads[i] EXCEPT !.runToken = token, !.retained = FALSE, !.held = FALSE,
                                     !.status = "ready", !.restored = TRUE, !.uploaded = ByteSize]
  <2>1. i \in DOMAIN uploads /\ disposed = FALSE /\ uploads[i] \in Item
    BY <1>3, <1>6, OpenQueue DEF RestoreReady
  <2>2. token \in Nat /\ token >= uploads[i].runToken
    BY <2>1 DEF Item
  <2>3. Pump([uploads EXCEPT ![i] = q], Aborted(i), activeCount)
    <3>1. Pump([uploads EXCEPT ![i] =
                  [uploads[i] EXCEPT !.runToken = @ + 1, !.retained = FALSE, !.held = FALSE,
                                     !.status = "ready", !.restored = TRUE, !.uploaded = ByteSize]],
               Aborted(i), activeCount)
      BY <1>6 DEF RestoreReady
    <3>2. [uploads[i] EXCEPT !.runToken = @ + 1, !.retained = FALSE, !.held = FALSE,
                             !.status = "ready", !.restored = TRUE, !.uploaded = ByteSize] = q
      BY <2>1 DEF Item
    <3> QED BY <3>1, <3>2, Zenon
  <2> HIDE DEF token
  <2>4. q \in Item /\ q.status = "ready" /\ q.runToken = token
    <3>1. ByteSize \in 0..ByteSize
      BY UploaderAssumption
    <3> QED BY <2>1, <2>2, <3>1 DEF Item
  <2> HIDE DEF q
  <2> QED BY <2>1, <2>2, <2>3, <2>4, MovedOn
<1>7. ASSUME NEW i, CancelUpload(i)
      PROVE  UploaderInv'
  <2> DEFINE token == uploads[i].runToken + 1
             q == [uploads[i] EXCEPT !.status = "cancelled", !.runToken = token, !.retained = FALSE]
  <2>1. i \in DOMAIN uploads /\ disposed = FALSE /\ uploads[i] \in Item
    BY <1>3, <1>7, OpenQueue DEF CancelUpload
  <2>2. token \in Nat /\ token >= uploads[i].runToken
    BY <2>1 DEF Item
  <2>3. Pump([uploads EXCEPT ![i] = q], Aborted(i), activeCount)
    <3>1. Pump([uploads EXCEPT ![i] =
                  [uploads[i] EXCEPT !.status = "cancelled", !.runToken = @ + 1, !.retained = FALSE]],
               Aborted(i), activeCount)
      BY <1>7 DEF CancelUpload
    <3>2. [uploads[i] EXCEPT !.status = "cancelled", !.runToken = @ + 1, !.retained = FALSE] = q
      BY <2>1 DEF Item
    <3> QED BY <3>1, <3>2, Zenon
  <2> HIDE DEF token
  <2>4. q \in Item /\ q.status = "cancelled" /\ q.runToken = token
    BY <2>1, <2>2 DEF Item
  <2> HIDE DEF q
  <2> QED BY <2>1, <2>2, <2>3, <2>4, MovedOn
<1>8. ASSUME NEW i, RemoveUpload(i)
      PROVE  UploaderInv'
  <2> DEFINE token == uploads[i].runToken + 1
             q == [uploads[i] EXCEPT !.listed = FALSE, !.runToken = token]
  <2>1. i \in DOMAIN uploads /\ disposed = FALSE /\ uploads[i] \in Item
    BY <1>3, <1>8, OpenQueue DEF RemoveUpload
  <2>2. token \in Nat /\ token >= uploads[i].runToken
    BY <2>1 DEF Item
  <2>3. Pump([uploads EXCEPT ![i] = q], Aborted(i), activeCount)
    BY <1>8 DEF RemoveUpload
  <2> HIDE DEF token
  <2>4. /\ q \in Item /\ q.runToken = token /\ q.status = uploads[i].status
        /\ q.retryable = uploads[i].retryable /\ q.retained = uploads[i].retained
    BY <2>1, <2>2 DEF Item
  <2> HIDE DEF q
  <2>5. q.status = "queued" \/ (q.status = "failed" /\ q.retryable) => q.retained
    BY <2>1, <2>4, OpenQueue DEF Sourced
  <2> QED BY <2>1, <2>2, <2>3, <2>4, <2>5, MovedOn
<1>9. ASSUME NEW call \in uploadCalls, NEW bytes \in 0..ByteSize, ReportProgress(call, bytes)
      PROVE  UploaderInv'
  BY <1>9, ProgressKeeps
<1>10. ASSUME NEW call \in uploadCalls, NEW answer \in {"reference", "retryable", "refused"},
              SettleUpload(call, answer)
       PROVE  UploaderInv'
  BY <1>10, SettleKeeps
<1>11. CASE Dispose
  BY <1>11, DisposeKeeps
<1> QED BY <1>1, <1>2, <1>4, <1>5, <1>6, <1>7, <1>8, <1>9, <1>10, <1>11 DEF UploaderNext

LEMMA InitSlots == UploaderInit => UploaderInv
<1> SUFFICES ASSUME UploaderInit
             PROVE  UploaderInv
  OBVIOUS
<1>1. uploads = <<>> /\ uploadCalls = {} /\ activeCount = 0 /\ disposed = FALSE
  BY DEF UploaderInit
<1>2. uploads \in Seq(Item) /\ Len(uploads) = 0 /\ DOMAIN uploads = {}
  BY <1>1, EmptySeq
<1>3. IsFiniteSet(uploadCalls) /\ Cardinality(uploadCalls) = 0
  BY <1>1, FS_EmptySet
<1>4. WaitingIn(uploads) = {} /\ Sourced(uploads)
  BY <1>2 DEF WaitingIn, Sourced
<1>5. UploaderTypeOK
  <2>1. 0 <= MaxItems
    BY UploaderAssumption
  <2> QED BY <1>1, <1>2, <2>1 DEF UploaderTypeOK
<1>6. Genuine(uploadCalls, uploads) /\ Abandoned(uploadCalls, uploads)
  BY <1>1, <1>3 DEF Genuine, Abandoned
<1>7. 0 <= Concurrency
  BY UploaderAssumption
<1> QED BY <1>1, <1>3, <1>4, <1>5, <1>6, <1>7 DEF UploaderInv

\* Whatever is enqueued, held back, cancelled, retried, removed or restored while uploads
\* are under way, and whatever the adapter answers and when: every upload holds one slot,
\* never more than Concurrency, none is idle while a file waits, and an upload whose answer
\* will be dropped was aborted.
THEOREM SlotsAccounted == UploaderSpec => []SlotsAreAccounted
<1>1. UploaderInv /\ [UploaderNext]_uploaderVars => UploaderInv'
  BY StepKeepsSlots
<1>2. UploaderInv => SlotsAreAccounted
  BY DEF UploaderInv, SlotsAreAccounted, CurrentCall, Live, Sourced
<1> QED BY <1>1, <1>2, InitSlots, PTL DEF UploaderSpec

-----------------------------------------------------------------------------
(* Late answers *)

\* What the theorem below says of item i.
Unmoved(i) ==
  uploads[i].status \in {"cancelled", "ready"} =>
    \/ uploads'[i].restored /\ uploads'[i].status = "ready"
    \/ /\ uploads'[i].status = uploads[i].status
       /\ uploads'[i].reference = uploads[i].reference

\* #pump() takes items that wait and touches no other.
LEMMA PumpLeaves ==
  ASSUME NEW items, NEW calls, NEW active, Pump(items, calls, active),
         NEW i \in DOMAIN items, items[i].status # "queued"
  PROVE  uploads'[i] = items[i]
BY DEF Pump, WaitingIn

\* One item changes as the theorem allows, and the queue is pumped.
LEMMA PumpedItem ==
  ASSUME UploaderInv, NEW i \in DOMAIN uploads, NEW q, NEW calls, NEW active,
         Pump([uploads EXCEPT ![i] = q], calls, active),
         uploads[i].status \in {"cancelled", "ready"} =>
           \/ q.restored /\ q.status = "ready"
           \/ q.status = uploads[i].status /\ q.reference = uploads[i].reference,
         NEW j \in DOMAIN uploads
  PROVE  Unmoved(j)
<1> DEFINE next == [uploads EXCEPT ![i] = q]
<1>1. DOMAIN next = DOMAIN uploads /\ next[j] = IF j = i THEN q ELSE uploads[j]
  BY DEF UploaderInv, UploaderTypeOK
<1> HIDE DEF next
<1>2. next[j].status # "queued" => uploads'[j] = next[j]
  BY <1>1, PumpLeaves DEF next
<1> QED BY <1>1, <1>2 DEF Unmoved

\* A cancelled item stays cancelled and a ready one keeps its reference, whatever the
\* adapter answers for the uploads that were under way, unless another view of the file
\* has completed it.
THEOREM LateAnswersDropped == UploaderSpec => LateAnswersAreDropped
<1>1. ASSUME UploaderInv, [UploaderNext]_uploaderVars, NEW j \in DOMAIN uploads
      PROVE  Unmoved(j)
  <2>0. \A i : Listed(i) => i \in DOMAIN uploads /\ uploads[i] \in Item
    <3>1. \A i : Listed(i) => i \in DOMAIN uploads /\ disposed = FALSE
      BY <1>1 DEF Listed, UploaderInv, UploaderTypeOK
    <3> QED BY <1>1, <3>1, OpenQueue
  <2>1. CASE UNCHANGED uploaderVars
    BY <2>1 DEF uploaderVars, Unmoved
  <2>2. ASSUME NEW s \in Selections, NEW defer \in BOOLEAN, NEW restored \in BOOLEAN,
               Enqueue(s, defer, restored)
        PROVE  Unmoved(j)
    <3>1. PICK item : Pump(Append(uploads, item), uploadCalls, activeCount)
      BY <2>2 DEF Enqueue
    <3>2. j \in DOMAIN Append(uploads, item) /\ Append(uploads, item)[j] = uploads[j]
      BY <1>1, ElementOfSeq, LenProperties DEF UploaderInv, UploaderTypeOK
    <3>3. uploads[j].status # "queued" => uploads'[j] = uploads[j]
      BY <3>1, <3>2, PumpLeaves
    <3> QED BY <3>3 DEF Unmoved
  <2>3. ASSUME NEW i, StartUpload(i)
        PROVE  Unmoved(j)
    <3>1. Listed(i) /\ uploads[i].status = "queued"
      BY <2>3 DEF StartUpload
    <3>2. Pump([uploads EXCEPT ![i] = [uploads[i] EXCEPT !.held = FALSE]], uploadCalls, activeCount)
      BY <2>3 DEF StartUpload
    <3> QED BY <1>1, <2>0, <3>1, <3>2, PumpedItem
  <2>4. ASSUME NEW i, RetryUpload(i)
        PROVE  Unmoved(j)
    <3>1. Listed(i) /\ uploads[i].status = "failed"
      BY <2>4 DEF RetryUpload
    <3>2. PICK q : Pump([uploads EXCEPT ![i] = q], uploadCalls, activeCount)
      BY <2>4 DEF RetryUpload
    <3> QED BY <1>1, <2>0, <3>1, <3>2, PumpedItem
  <2>5. ASSUME NEW i, RestoreReady(i)
        PROVE  Unmoved(j)
    <3> DEFINE q == [uploads[i] EXCEPT !.runToken = @ + 1, !.retained = FALSE, !.held = FALSE,
                                       !.status = "ready", !.restored = TRUE, !.uploaded = ByteSize]
    <3>1. Listed(i) /\ Pump([uploads EXCEPT ![i] = q], Aborted(i), activeCount)
      BY <2>5 DEF RestoreReady
    <3>2. q.restored /\ q.status = "ready"
      BY <2>0, <3>1 DEF Item
    <3> HIDE DEF q
    <3> QED BY <1>1, <2>0, <3>1, <3>2, PumpedItem
  <2>6. ASSUME NEW i, CancelUpload(i)
        PROVE  Unmoved(j)
    <3>1. Listed(i) /\ uploads[i].status \in {"queued", "uploading"}
      BY <2>6 DEF CancelUpload
    <3>2. PICK q : Pump([uploads EXCEPT ![i] = q], Aborted(i), activeCount)
      BY <2>6 DEF CancelUpload
    <3> QED BY <1>1, <2>0, <3>1, <3>2, PumpedItem
  <2>7. ASSUME NEW i, RemoveUpload(i)
        PROVE  Unmoved(j)
    <3> DEFINE q == [uploads[i] EXCEPT !.listed = FALSE, !.runToken = @ + 1]
    <3>1. Listed(i) /\ Pump([uploads EXCEPT ![i] = q], Aborted(i), activeCount)
      BY <2>7 DEF RemoveUpload
    <3>2. q.status = uploads[i].status /\ q.reference = uploads[i].reference
      BY <2>0, <3>1 DEF Item
    <3> HIDE DEF q
    <3> QED BY <1>1, <2>0, <3>1, <3>2, PumpedItem
  <2>8. CASE Dispose
    <3>1. uploads[j] \in Item
      BY <1>1, ElementOfSeq, LenProperties DEF UploaderInv, UploaderTypeOK
    <3> QED BY <2>8, <3>1 DEF Dispose, Unmoved, Item
  <2>9. ASSUME NEW call \in uploadCalls, NEW bytes \in 0..ByteSize, ReportProgress(call, bytes)
        PROVE  Unmoved(j)
    <3>1. uploads[call.item].status = "uploading" /\ uploads' = [uploads EXCEPT ![call.item].uploaded = bytes]
      BY <2>9 DEF ReportProgress, CurrentCall
    <3>2. j # call.item => uploads'[j] = uploads[j]
      BY <1>1, <3>1 DEF UploaderInv, UploaderTypeOK
    <3> QED BY <3>1, <3>2 DEF Unmoved
  <2>10. ASSUME NEW call \in uploadCalls, NEW answer \in {"reference", "retryable", "refused"},
                SettleUpload(call, answer)
         PROVE  Unmoved(j)
    <3>1. CASE disposed
      BY <2>10, <3>1 DEF SettleUpload, Unmoved
    <3>2. CASE ~disposed /\ CurrentCall(call)
      <4>1. Pump([uploads EXCEPT ![call.item] = Taken(uploads[call.item], call, answer)],
                 uploadCalls \ {call}, activeCount - 1)
        BY <2>10, <3>2 DEF SettleUpload
      <4>2. uploads[call.item].status = "uploading" /\ call.item \in DOMAIN uploads
        BY <1>1, <3>2 DEF CurrentCall, UploaderInv, Genuine
      <4> QED BY <1>1, <4>1, <4>2, PumpedItem
    <3>3. CASE ~disposed /\ ~CurrentCall(call)
      <4>1. Pump(uploads, uploadCalls \ {call}, activeCount - 1)
        BY <2>10, <3>3 DEF SettleUpload
      <4>2. uploads[j].status # "queued" => uploads'[j] = uploads[j]
        BY <4>1, PumpLeaves
      <4> QED BY <4>2 DEF Unmoved
    <3> QED BY <3>1, <3>2, <3>3
  <2> QED BY <1>1, <2>1, <2>2, <2>3, <2>4, <2>5, <2>6, <2>7, <2>8, <2>9, <2>10 DEF UploaderNext
<1>2. UploaderInv /\ [UploaderNext]_uploaderVars =>
        UploaderInv' /\ [\A i \in DOMAIN uploads : Unmoved(i)]_uploaderVars
  BY <1>1, StepKeepsSlots
<1> QED BY <1>2, InitSlots, PTL DEF UploaderSpec, LateAnswersAreDropped, Unmoved

=============================================================================
