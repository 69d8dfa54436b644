---------------------------- MODULE RealtimeCall ----------------------------
(***************************************************************************)
(* The life of a realtime voice call: its record in the database           *)
(* (src/src/postgres/realtime-calls.ts), the lease its worker keeps on it  *)
(* (src/src/realtime/call-lease.ts), the tools it dispatched and what of   *)
(* them was read (src/src/postgres/realtime-tool-activity.ts), and the     *)
(* deletion of its conversation.  The host that uses these stores is the   *)
(* one of docs/realtime-call-lifecycle.md, and the provider is external.   *)
(*                                                                         *)
(* #update() reads and changes the record and then compares-and-sets it.   *)
(* Nothing happens at a caller between its call, or a conflict, and the    *)
(* read that follows: they are one step.  record() and markRead() hold the *)
(* lock of the conversation, which every write of a call takes as well:    *)
(* they are one step each.  admit() writes only if there is no record: its *)
(* earlier read adds nothing.  Workers and database share one clock.       *)
(***************************************************************************)
EXTENDS Naturals, FiniteSets

CONSTANTS
  CallWorkers,      \* worker ids
  CallTools,        \* ids of tool calls
  NoCallRecord, NoRequest, NoReceiptYet,
  LeaseTime,        \* leaseMs
  MaximumUpdates,   \* attempts of #update(), 4 in the code
  MaxTime,          \* bound: of the clock
  MaxCallFaults     \* bound: lost answers and crashes

ASSUME CallAssumption ==
  /\ LeaseTime \in Nat \ {0} /\ MaximumUpdates \in Nat \ {0}
  /\ MaxTime \in Nat /\ MaxCallFaults \in Nat /\ IsFiniteSet(CallTools)

VARIABLES
  now,
  voiceCall,          \* the record, with its version
  requests,      \* #update() in flight, one of each operation
  workers,       \* where each worker is with the call, and its provider reference
  leases,        \* createRealtimeCallLease() of each worker
  dialed,        \* calls the provider created, numbered: the number is the reference
  remote,        \* those that are running
  tools,         \* activity records
  dispatchedTools, \* tools that were handed to the host and have not returned
  displayed,     \* read tokens handed out
  reading,       \* the version readState() has read, before it counts
  receipt,       \* the retained read token
  conversationGone,
  callFaults

callVars ==
  <<now, voiceCall, requests, workers, leases, dialed, remote, tools, dispatchedTools,
    displayed, reading, receipt, conversationGone, callFaults>>

-----------------------------------------------------------------------------
(* Types *)

References == Nat   \* 0: null
Statuses == {"admitted", "starting", "active", "ending", "ended", "uncertain"}
CallRecord ==
  [status : Statuses, worker : CallWorkers, started : BOOLEAN, ref : References,
   expires : Nat, version : Nat]
ASSUME CallRecordAssumption == NoCallRecord \notin CallRecord
Operations == {"begin", "attach", "renew", "end", "confirm"}
CallRequest ==
  [pc : {"write", "answer"}, by : CallWorkers \cup {NoRequest}, ref : References,
   attempt : Nat, value : CallRecord \cup {NoCallRecord}]
Token == [version : Nat, total : Nat, completed : Nat, failed : Nat]
Settled == {"completed", "failed"}

CallTypeOK ==
  /\ now \in 0..MaxTime
  /\ voiceCall \in CallRecord \cup {NoCallRecord}
  /\ requests \in [Operations -> CallRequest \cup {NoRequest}]
  /\ workers \in [CallWorkers ->
       [pc : {"idle", "admitted", "begun", "dialed", "active", "stopped"}, ref : References]]
  /\ leases \in [CallWorkers -> [pc : {"none", "live", "closed"}, deadline : Nat]]
  /\ dialed \in References /\ remote \subseteq 1..dialed
  /\ tools \in [CallTools -> {"none", "running", "waiting"} \cup Settled]
  /\ dispatchedTools \subseteq CallTools
  /\ displayed \subseteq Token /\ reading \in Nat
  /\ receipt \in Token \cup {NoReceiptYet}
  /\ conversationGone \in BOOLEAN /\ callFaults \in 0..MaxCallFaults

NoLease == [pc |-> "none", deadline |-> 0]
AtWork(pc) == [pc |-> pc, ref |-> 0]

CallInit ==
  /\ now = 0 /\ voiceCall = NoCallRecord
  /\ requests = [o \in Operations |-> NoRequest]
  /\ workers = [w \in CallWorkers |-> AtWork("idle")]
  /\ leases = [w \in CallWorkers |-> NoLease]
  /\ dialed = 0 /\ remote = {}
  /\ tools = [t \in CallTools |-> "none"] /\ dispatchedTools = {}
  /\ displayed = {} /\ reading = 0 /\ receipt = NoReceiptYet
  /\ conversationGone = FALSE /\ callFaults = 0

SameProvider == UNCHANGED <<dialed, remote>>
SameActivity == UNCHANGED <<tools, dispatchedTools, displayed, reading, receipt>>
SameCall ==
  UNCHANGED <<now, voiceCall, requests, workers, leases, dialed, remote, conversationGone>>

-----------------------------------------------------------------------------
(* The record *)

\* #snapshot(): a lease that has run out makes the call uncertain, never ended.
Snapshot ==
  IF voiceCall.expires <= now /\ voiceCall.status \in {"admitted", "starting", "active"}
  THEN [voiceCall EXCEPT !.status = "uncertain"] ELSE voiceCall

\* What the operation makes of the record: nothing if it conflicts with it.
Changed(o, r, s) ==
  CASE o = "begin" ->
         {c \in {[s EXCEPT !.status = "starting", !.started = TRUE]} :
            s.worker = r.by /\ s.status = "admitted"}
    [] o = "attach" ->
         {c \in {[s EXCEPT !.ref = r.ref,
                           !.status = IF @ = "starting" THEN "active" ELSE @]} :
            s.worker = r.by /\ s.started /\ s.ref \in {0, r.ref}}
    [] o = "renew" ->
         {c \in {[s EXCEPT !.expires = now + LeaseTime]} :
            s.worker = r.by /\ s.status \in {"admitted", "starting", "active"}}
    [] o = "end" ->
         {[s EXCEPT !.status = IF @ = "ended" \/ ~s.started THEN "ended" ELSE "ending"]}
    [] o = "confirm" ->
         {c \in {[s EXCEPT !.status = "ended"]} :
            s.status \in {"ending", "ended"} /\ s.ref = r.ref}

\* The caller is told of a failure.
Refused(r) == [r EXCEPT !.pc = "answer", !.value = NoCallRecord]

\* get(): the record as it is now, changed.  A change of nothing is not written.
Tried(o, r) ==
  LET change == IF voiceCall = NoCallRecord THEN {} ELSE Changed(o, r, Snapshot) IN
  IF change = {} THEN Refused(r)
  ELSE [r EXCEPT !.pc = IF change = {Snapshot} THEN "answer" ELSE "write",
                 !.value = CHOOSE c \in change : TRUE]

\* Where the answer leaves the worker; NoCallRecord: #update() threw.  A claim without
\* an answer is not taken for granted, a reference is attached again, and a call that is
\* ending or uncertain does not go on.
Told(o, r) ==
  CASE o = "begin" ->
         [workers EXCEPT ![r.by] =
            AtWork(IF r.value = NoCallRecord THEN "stopped" ELSE "begun")]
    [] o = "attach" /\ r.value # NoCallRecord ->
         [workers EXCEPT ![r.by].pc = IF r.value.status = "active" THEN "active" ELSE "stopped"]
    [] OTHER -> workers

\* An answer that comes late matters to the lease and to the host that hangs up; the
\* others are taken when they are given.
Waits(o, r) == r.pc = "write" \/ o \in {"renew", "end"}
Proceeds(o, r) ==
  /\ requests' = [requests EXCEPT ![o] = IF Waits(o, r) THEN r ELSE NoRequest]
  /\ workers' = IF Waits(o, r) THEN workers ELSE Told(o, r)

\* compareAndSetDocument(), fenced by the deletion of the conversation.
Writable(r) == voiceCall.version = r.value.version /\ ~conversationGone
Committed(r) == voiceCall' = [r.value EXCEPT !.version = @ + 1]

\* Mutant: the version is not compared.
WriteCallBlindly(o) ==
  LET r == requests[o] IN
  /\ r # NoRequest /\ r.pc = "write"
  /\ Committed(r) /\ Proceeds(o, [r EXCEPT !.pc = "answer"])
  /\ UNCHANGED <<now, leases, conversationGone, callFaults>>
  /\ SameProvider /\ SameActivity

WriteCall(o) ==
  LET r == requests[o] IN
  /\ r # NoRequest /\ r.pc = "write"
  /\ \/ /\ Writable(r) /\ Committed(r)
        /\ Proceeds(o, [r EXCEPT !.pc = "answer"]) /\ UNCHANGED callFaults
     \/ /\ Writable(r)                                      \* it fails, or seems to
        /\ Committed(r) \/ UNCHANGED voiceCall
        /\ callFaults < MaxCallFaults /\ callFaults' = callFaults + 1
        /\ Proceeds(o, Refused(r))
     \/ /\ ~Writable(r) /\ UNCHANGED <<voiceCall, callFaults>>
        /\ Proceeds(o, IF conversationGone \/ r.attempt = MaximumUpdates THEN Refused(r)
                       ELSE Tried(o, [r EXCEPT !.attempt = @ + 1]))
  /\ UNCHANGED <<now, leases, conversationGone>> /\ SameProvider /\ SameActivity

First(w, ref) ==
  [pc |-> "write", by |-> w, ref |-> ref, attempt |-> 1, value |-> NoCallRecord]
Asks(o, w, ref) ==
  /\ requests[o] = NoRequest /\ Proceeds(o, Tried(o, First(w, ref)))
  /\ UNCHANGED <<now, voiceCall, leases, conversationGone, callFaults>>
  /\ SameProvider /\ SameActivity

Answered(o) == requests[o] # NoRequest /\ requests[o].pc = "answer"

-----------------------------------------------------------------------------
(* The worker *)

Stops(w) == workers' = [workers EXCEPT ![w] = AtWork("stopped")]

\* admit(): whoever finds the record goes on as well; beginCreation() must tell.
Admit(w) ==
  /\ workers[w].pc = "idle"
  /\ \/ /\ voiceCall # NoCallRecord
        /\ workers' = [workers EXCEPT ![w] = AtWork("admitted")]
        /\ UNCHANGED <<voiceCall, callFaults>>
     \/ /\ voiceCall = NoCallRecord /\ ~conversationGone
        /\ voiceCall' = [status |-> "admitted", worker |-> w, started |-> FALSE, ref |-> 0,
                         expires |-> now + LeaseTime, version |-> 1]
        /\ \/ workers' = [workers EXCEPT ![w] = AtWork("admitted")] /\ UNCHANGED callFaults
           \/ /\ callFaults < MaxCallFaults /\ callFaults' = callFaults + 1
              /\ UNCHANGED workers
  /\ UNCHANGED <<now, requests, leases, conversationGone>> /\ SameProvider /\ SameActivity

BeginCreation(w) == workers[w].pc = "admitted" /\ Asks("begin", w, 0)

\* The provider creates the call and answers, or does not.
Dial(w) ==
  /\ workers[w].pc = "begun"
  /\ \/ /\ dialed' = dialed + 1 /\ remote' = remote \cup {dialed'}
        /\ \/ workers' = [workers EXCEPT ![w] = [pc |-> "dialed", ref |-> dialed']]
           \/ Stops(w)
     \/ Stops(w) /\ SameProvider
  /\ UNCHANGED <<now, voiceCall, requests, leases, conversationGone, callFaults>>
  /\ SameActivity

AttachProviderCall(w) == workers[w].pc = "dialed" /\ Asks("attach", w, workers[w].ref)

\* The process is gone, with what it knew; what it dispatched goes on.
WorkerCrashes(w) ==
  /\ callFaults < MaxCallFaults /\ callFaults' = callFaults + 1
  /\ workers[w].pc # "idle"
  /\ workers' = [workers EXCEPT ![w] = AtWork("idle")]
  /\ leases' = [leases EXCEPT ![w] = NoLease]
  /\ requests' = [o \in Operations |->
       IF o \in {"begin", "attach", "renew"} /\ requests[o] # NoRequest /\ requests[o].by = w
       THEN NoRequest ELSE requests[o]]
  /\ UNCHANGED <<now, voiceCall, conversationGone>> /\ SameProvider /\ SameActivity

-----------------------------------------------------------------------------
(* createRealtimeCallLease() *)

\* The first renewal, when creation is claimed, and the heartbeat, perhaps late.
RenewLease(w) ==
  /\ \/ leases[w].pc = "none" /\ workers[w].pc = "begun"
     \/ leases[w].pc = "live"
  /\ Asks("renew", w, 0)

\* arm(), when the renewal is answered.
Armed(lease, value) ==
  IF lease.pc = "closed" THEN lease
  ELSE IF value = NoCallRecord \/ value.expires <= now
       THEN [pc |-> "closed", deadline |-> lease.deadline]
       ELSE [pc |-> "live", deadline |-> value.expires]

LeaseRenewed ==
  /\ Answered("renew") /\ requests' = [requests EXCEPT !["renew"] = NoRequest]
  /\ LET r == requests["renew"] IN
     leases' = [leases EXCEPT ![r.by] = Armed(@, r.value)]
  /\ UNCHANGED <<now, voiceCall, workers, conversationGone, callFaults>>
  /\ SameProvider /\ SameActivity

\* The watchdog, or close().
LeaseCloses(w) ==
  /\ leases[w].pc = "live"
  /\ leases' = [leases EXCEPT ![w].pc = "closed"]
  /\ UNCHANGED <<now, voiceCall, requests, workers, conversationGone, callFaults>>
  /\ SameProvider /\ SameActivity

\* Of a call that is not admitted, or is ending, the time is never looked at.
Tick ==
  /\ voiceCall # NoCallRecord /\ voiceCall.status \in {"admitted", "starting", "active"}
  /\ now < MaxTime /\ now' = now + 1
  /\ UNCHANGED <<voiceCall, requests, workers, leases, conversationGone, callFaults>>
  /\ SameProvider /\ SameActivity

-----------------------------------------------------------------------------
(* The end *)

\* Any process may ask for the end, again and again; of a call that has ended nothing
\* changes any more.
RequestEnd ==
  /\ voiceCall # NoCallRecord /\ voiceCall.status # "ended"
  /\ Asks("end", NoRequest, 0)

\* The host hangs up the call of the reference it was told, and confirms it.
HangUp ==
  /\ Answered("end") /\ requests["confirm"] = NoRequest
  /\ LET value == requests["end"].value
         known == value # NoCallRecord /\ value.ref # 0
         confirm == Tried("confirm", First(NoRequest, value.ref)) IN
     /\ remote' = IF known THEN remote \ {value.ref} ELSE remote
     /\ requests' = [requests EXCEPT !["end"] = NoRequest,
          !["confirm"] = IF known /\ Waits("confirm", confirm) THEN confirm ELSE @]
  /\ UNCHANGED <<now, voiceCall, workers, leases, dialed, conversationGone, callFaults>>
  /\ SameActivity

-----------------------------------------------------------------------------
(* Tool activity *)

\* Mutant: a late callback of the live transport is recorded as it comes.
RecordableAgain(t, status) ==
  /\ ~conversationGone
  /\ CASE status = "running" -> tools[t] = "none" /\ Snapshot.status = "active"
       [] OTHER -> tools[t] # "none"

\* #record(), where it changes the record.
Recordable(t, status) ==
  /\ ~conversationGone
  /\ CASE status = "running" -> tools[t] = "none" /\ Snapshot.status = "active"
       [] status = "waiting" -> tools[t] = "running"
       [] status \in Settled -> tools[t] \in {"running", "waiting"}

\* A worker of an active call records the tool before it dispatches it; without an
\* answer it records it again, and is told of the retained record.
ToolStarts(w, t) ==
  /\ workers[w].pc = "active" /\ leases[w].pc = "live" /\ voiceCall.worker = w
  /\ Recordable(t, "running") \/ (tools[t] = "running" /\ t \notin dispatchedTools)
  /\ tools' = [tools EXCEPT ![t] = "running"]
  /\ \/ dispatchedTools' = dispatchedTools \cup {t} /\ UNCHANGED callFaults
     \/ /\ callFaults < MaxCallFaults /\ callFaults' = callFaults + 1
        /\ UNCHANGED dispatchedTools
  /\ SameCall /\ UNCHANGED <<displayed, reading, receipt>>

\* The tool asks for an approval, or returns, after the call has ended perhaps; its
\* callbacks come in any order.
ToolReports(w, t, status) ==
  /\ workers[w].pc \in {"active", "stopped"}
  /\ voiceCall # NoCallRecord /\ voiceCall.worker = w
  /\ status \in {"waiting"} \cup Settled /\ Recordable(t, status)
  /\ status = "waiting" \/ t \in dispatchedTools
  /\ tools' = [tools EXCEPT ![t] = status]
  /\ dispatchedTools' = IF status \in Settled THEN dispatchedTools \ {t} ELSE dispatchedTools
  /\ SameCall /\ UNCHANGED <<displayed, reading, receipt, callFaults>>

\* What summary() counts.
Count(status) == Cardinality({t \in CallTools : tools[t] \in status})
Counts(version) ==
  [version |-> version, total |-> Cardinality(CallTools) - Count({"none"}),
   completed |-> Count({"completed"}), failed |-> Count({"failed"})]
Covers(seen, counts) ==
  /\ seen.total >= counts.total /\ seen.completed >= counts.completed
  /\ seen.failed >= counts.failed

\* Only the confirmed end of a call that was dispatched can be read.
CallEnded == voiceCall # NoCallRecord /\ Snapshot.status = "ended" /\ voiceCall.started
Read ==
  /\ receipt # NoReceiptYet /\ receipt.version >= voiceCall.version
  /\ Covers(receipt, Counts(voiceCall.version))

\* readState(), in its steps: the call, then the counts, with which it is displayed.
ReadState ==
  /\ CallEnded /\ reading = 0 /\ reading' = voiceCall.version
  /\ SameCall /\ UNCHANGED <<tools, dispatchedTools, displayed, receipt, callFaults>>

Display ==
  /\ reading # 0 /\ reading' = 0
  /\ displayed' = displayed \cup {Counts(reading)}
  /\ SameCall /\ UNCHANGED <<tools, dispatchedTools, receipt, callFaults>>

Larger(a, b) == IF a > b THEN a ELSE b
Merged(a, b) ==
  [version |-> b.version, total |-> Larger(a.total, b.total),
   completed |-> Larger(a.completed, b.completed), failed |-> Larger(a.failed, b.failed)]

\* markRead(), with a token that may be old, again and again.
MarkRead(token) ==
  /\ token \in displayed /\ ~conversationGone /\ CallEnded
  /\ token.version = voiceCall.version /\ Covers(Counts(voiceCall.version), token)
  /\ receipt # NoReceiptYet => receipt.version <= token.version
  /\ receipt' = IF receipt # NoReceiptYet /\ receipt.version = token.version
                THEN Merged(receipt, token) ELSE token
  /\ SameCall /\ UNCHANGED <<tools, dispatchedTools, displayed, reading, callFaults>>

\* assertPostgresConversationIdle() and the deletion, in one transaction.
DeleteConversation ==
  /\ ~conversationGone /\ conversationGone' = TRUE
  /\ voiceCall # NoCallRecord => voiceCall.status = "ended"
  /\ \A t \in CallTools : tools[t] \in {"none"} \cup Settled
  /\ receipt' = NoReceiptYet
  /\ UNCHANGED <<now, voiceCall, requests, workers, leases, tools, dispatchedTools, displayed,
                 reading, callFaults>>
  /\ SameProvider

CallNext ==
  \/ \E o \in Operations : WriteCall(o)
  \/ \E w \in CallWorkers :
       \/ Admit(w) \/ BeginCreation(w) \/ Dial(w) \/ AttachProviderCall(w) \/ WorkerCrashes(w)
       \/ RenewLease(w) \/ LeaseCloses(w)
       \/ \E t \in CallTools : ToolStarts(w, t)
       \/ \E t \in CallTools, s \in {"waiting"} \cup Settled : ToolReports(w, t, s)
  \/ LeaseRenewed \/ HangUp \/ Tick \/ RequestEnd \/ ReadState \/ Display \/ DeleteConversation
  \/ \E token \in displayed : MarkRead(token)

CallSpec == CallInit /\ [][CallNext]_callVars

-----------------------------------------------------------------------------
(* Properties *)

\* Whoever restarts, retries, ends or loses an answer: the provider creates at most one
\* call; once the record says ended, none is running and no worker is about to create
\* one; a conversation is gone only when that is so and every tool has returned; and a
\* lease that is live runs out no later than the record says, so that a call others see
\* as uncertain is one whose worker is being aborted.
CallIsAccounted ==
  /\ dialed <= 1
  /\ voiceCall # NoCallRecord /\ voiceCall.status = "ended" =>
       remote = {} /\ \A w \in CallWorkers : workers[w].pc # "begun"
  /\ conversationGone => remote = {} /\ dispatchedTools = {}
  /\ \A w \in CallWorkers : leases[w].pc = "live" => leases[w].deadline <= voiceCall.expires

\* A call is shown as read only if one view showed exactly what it is now: no mark made
\* with an older view, or with two views together, hides an outcome nobody saw.
ReadIsSeen == CallEnded /\ Read => Counts(voiceCall.version) \in displayed
=============================================================================
