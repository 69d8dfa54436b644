------------------------- MODULE RealtimeToolBridge -------------------------
(***************************************************************************)
(* The bridge from a realtime voice call to the tools of the server        *)
(* (src/src/realtime/tool-bridge.ts).  A provider repeats a call while the *)
(* first is in flight, or after it reconnected, and a hangup terminates    *)
(* the session while its calls wait for the binding store, the host's      *)
(* approval workflow or the executor.                                      *)
(*                                                                         *)
(* The executor with its ledger and the approval's claim are those of      *)
(* ApprovalExecution; here a call is dispatched to it and settles.  The    *)
(* fingerprint of a call is a digest of the whole envelope: the envelope   *)
(* stands for it.  A finished operation leaves the tables in the step in   *)
(* which it settles: a request that joins it later is answered the same.   *)
(***************************************************************************)
EXTENDS Naturals, Sequences, FiniteSets

CONSTANTS
  ToolSessions,        \* session ids
  Capabilities,        \* capability references
  Envelopes,           \* [session, capability, call, key, arguments] a provider may send
  Gated,               \* envelopes of tools that need an approval
  MaxRequests,         \* bound: calls of execute(), in the order they come
  MaxRegistrations,    \* bound: calls of registerSession() that succeed
  MaximumTrackedSessions,
  MaximumTrackedCalls, \* of one session
  MaximumBindings      \* of the binding store

ASSUME BridgeAssumption ==
  /\ MaxRegistrations \in Nat /\ MaxRequests \in Nat /\ MaximumTrackedSessions \in Nat \ {0}
  /\ MaximumTrackedCalls \in Nat \ {0} /\ MaximumBindings \in Nat \ {0}
  /\ Gated \subseteq Envelopes
  /\ \A e \in Envelopes : e.session \in ToolSessions /\ e.capability \in Capabilities

VARIABLES
  voiceSessions,     \* session records, in the order of their registration
  terminalSessions,  \* #terminalSessions, oldest first
  bindings,          \* envelopes in the binding store
  bridgeCalls,       \* execute(), for each request
  operations,        \* #callOperations
  proposal,          \* status of the proposal of each envelope
  published,         \* envelopes whose proposal is in the conversation
  toolRuns           \* envelopes that were handed to the tool

bridgeVars == <<voiceSessions, terminalSessions, bindings, bridgeCalls, operations,
                proposal, published, toolRuns>>

-----------------------------------------------------------------------------
(* Types *)

\* listed: it is in #sessions.
VoiceSession ==
  [id : ToolSessions, capability : Capabilities, calls : SUBSET {e.call : e \in Envelopes},
   terminal : BOOLEAN, listed : BOOLEAN]

\* hears: the abort listeners are attached.
BridgeOperation ==
  [session : 1..MaxRegistrations, envelope : Envelopes,
   pc : {"resolve", "execute", "run", "review", "propose", "read", "publish"},
   approved : BOOLEAN, hears : BOOLEAN, aborted : BOOLEAN]

BridgeCall ==
  [pc : {"idle", "bind", "admit", "done"}, session : 0..MaxRegistrations,
   envelope : Envelopes]

NoCall(pc) == [pc |-> pc, session |-> 0, envelope |-> CHOOSE e \in Envelopes : TRUE]

BridgeTypeOK ==
  /\ voiceSessions \in Seq(VoiceSession) /\ Len(voiceSessions) <= MaxRegistrations
  /\ terminalSessions \in Seq(ToolSessions)
  /\ bindings \subseteq Envelopes
  /\ bridgeCalls \in [1..MaxRequests -> BridgeCall]
  /\ operations \subseteq BridgeOperation
  /\ proposal \in [Envelopes -> {"none", "pending", "confirmed", "rejected"}]
  /\ published \subseteq Envelopes /\ toolRuns \subseteq Envelopes

BridgeInit ==
  /\ voiceSessions = <<>> /\ terminalSessions = <<>>
  /\ bindings = {}
  /\ bridgeCalls = [q \in 1..MaxRequests |-> NoCall("idle")]
  /\ operations = {}
  /\ proposal = [e \in Envelopes |-> "none"]
  /\ published = {} /\ toolRuns = {}

-----------------------------------------------------------------------------
(* Sessions *)

Tracked == {i \in DOMAIN voiceSessions : voiceSessions[i].listed}

RegisterSession(id, capability) ==
  /\ Len(voiceSessions) < MaxRegistrations
  /\ \A n \in DOMAIN terminalSessions : terminalSessions[n] # id
  /\ \A i \in Tracked : voiceSessions[i].id # id
  /\ Cardinality(Tracked) < MaximumTrackedSessions
  /\ voiceSessions' = Append(voiceSessions,
       [id |-> id, capability |-> capability, calls |-> {}, terminal |-> FALSE, listed |-> TRUE])
  /\ UNCHANGED <<terminalSessions, bindings, bridgeCalls, operations, proposal, published,
                 toolRuns>>

\* #rememberTerminal(): a set in insertion order, the oldest entry is dropped.
Remembered(id) ==
  LET known == \E n \in DOMAIN terminalSessions : terminalSessions[n] = id
      all == IF known THEN terminalSessions ELSE Append(terminalSessions, id) IN
  IF Len(all) > MaximumTrackedSessions THEN Tail(all) ELSE all

\* terminateSession(): from now on the session takes no call, and what hears is aborted.
TerminateSession(id) ==
  /\ \A i \in Tracked : voiceSessions[i].id = id => ~voiceSessions[i].terminal
  /\ LET ended == {i \in Tracked : voiceSessions[i].id = id} IN
     /\ voiceSessions' = [i \in DOMAIN voiceSessions |->
          [voiceSessions[i] EXCEPT !.terminal = @ \/ i \in ended]]
     /\ operations' = {[o EXCEPT !.aborted = @ \/ (o.hears /\ o.session \in ended)] :
                         o \in operations}
  /\ terminalSessions' = Remembered(id)
  /\ UNCHANGED <<bindings, bridgeCalls, proposal, published, toolRuns>>

\* All operations have settled: the record is dropped and the hangup is answered.  No
\* operation joins a terminal session, so those it waits for are those there are.
SessionEnds(i) ==
  /\ i \in Tracked /\ voiceSessions[i].terminal
  /\ \A o \in operations : o.session # i
  /\ voiceSessions' = [voiceSessions EXCEPT ![i].listed = FALSE]
  /\ UNCHANGED <<terminalSessions, bindings, bridgeCalls, operations, proposal, published,
                 toolRuns>>

-----------------------------------------------------------------------------
(* execute() *)

Identity(e) == <<e.session, e.call>>

Answers(q) == bridgeCalls' = [bridgeCalls EXCEPT ![q] = NoCall("done")]

\* The checks before the first await, and the call that is tracked.
BeginCall(q, e) ==
  /\ bridgeCalls[q].pc = "idle" /\ \A p \in 1..(q - 1) : bridgeCalls[p].pc # "idle"
  /\ \/ \E i \in Tracked :
          LET s == voiceSessions[i] IN
          /\ s.id = e.session /\ ~s.terminal /\ s.capability = e.capability
          /\ e.call \in s.calls \/ Cardinality(s.calls) < MaximumTrackedCalls
          /\ voiceSessions' = [voiceSessions EXCEPT ![i].calls = @ \cup {e.call}]
          /\ bridgeCalls' = [bridgeCalls EXCEPT ![q] =
               [pc |-> "bind", session |-> i, envelope |-> e]]
     \/ /\ \A i \in Tracked :
             LET s == voiceSessions[i] IN
             s.id = e.session =>
               \/ s.terminal \/ s.capability # e.capability
               \/ e.call \notin s.calls /\ Cardinality(s.calls) >= MaximumTrackedCalls
        /\ Answers(q) /\ UNCHANGED voiceSessions
  /\ UNCHANGED <<terminalSessions, bindings, operations, proposal, published, toolRuns>>

Conflicts(e) ==
  \E b \in bindings : b # e /\ (Identity(b) = Identity(e) \/ b.key = e.key)

\* bindingStore.bind(); without an answer the binding may have been made.
BindCall(q) ==
  LET e == bridgeCalls[q].envelope
      room == e \in bindings \/ Cardinality(bindings) < MaximumBindings
      bound == bindings' = bindings \cup {e} IN
  /\ bridgeCalls[q].pc = "bind"
  /\ \/ ~Conflicts(e) /\ room /\ bound
        /\ bridgeCalls' = [bridgeCalls EXCEPT ![q].pc = "admit"]
     \/ Answers(q) /\ UNCHANGED bindings
     \/ ~Conflicts(e) /\ room /\ bound /\ Answers(q)
  /\ UNCHANGED <<voiceSessions, terminalSessions, operations, proposal, published, toolRuns>>

Started(i, e) ==
  [session |-> i, envelope |-> e, pc |-> "resolve", approved |-> FALSE, hears |-> TRUE,
   aborted |-> FALSE]

\* Mutant: a session that was terminated during the binding goes unnoticed.
AdmitCallUnchecked(q) ==
  LET c == bridgeCalls[q]
      running == \E o \in operations : Identity(o.envelope) = Identity(c.envelope) IN
  /\ c.pc = "admit" /\ Answers(q)
  /\ operations' = IF running THEN operations
                   ELSE operations \cup {Started(c.session, c.envelope)}
  /\ UNCHANGED <<voiceSessions, terminalSessions, bindings, proposal, published, toolRuns>>

\* After the binding: a terminal session refuses, and a call that is in flight is joined.
AdmitCall(q) ==
  LET c == bridgeCalls[q]
      running == \E o \in operations : Identity(o.envelope) = Identity(c.envelope) IN
  /\ c.pc = "admit" /\ Answers(q)
  /\ operations' = IF voiceSessions[c.session].terminal \/ running THEN operations
                   ELSE operations \cup {Started(c.session, c.envelope)}
  /\ UNCHANGED <<voiceSessions, terminalSessions, bindings, proposal, published, toolRuns>>

-----------------------------------------------------------------------------
(* #executeOnce() *)

Becomes(o, p) == operations' = (operations \ {o}) \cup {p}
GoesTo(o, pc) == Becomes(o, [o EXCEPT !.pc = pc])
Settles(o) == operations' = operations \ {o}
SameTables == UNCHANGED <<voiceSessions, terminalSessions, bindings, bridgeCalls>>

\* The caller's signal, or the deadline of the provider's adapter.
CallerAborts(o) ==
  /\ o.hears /\ ~o.aborted
  /\ Becomes(o, [o EXCEPT !.aborted = TRUE])
  /\ SameTables /\ UNCHANGED <<proposal, published, toolRuns>>

\* #resolveApproval(): a confirmed proposal is recorded in the conversation before it
\* is taken up; any failure settles the call.
ResolveApproval(o) ==
  /\ o.pc = "resolve"
  /\ \/ GoesTo(o, "execute") /\ UNCHANGED published
     \/ /\ proposal[o.envelope] = "confirmed"
        /\ Becomes(o, [o EXCEPT !.pc = "execute", !.approved = TRUE])
        /\ published' = published \cup {o.envelope}
     \/ Settles(o) /\ UNCHANGED published
  /\ SameTables /\ UNCHANGED <<proposal, toolRuns>>

\* executor.executeDetailed() up to the dispatch.  It may also refuse.
ExecuteDetailed(o) ==
  /\ o.pc = "execute"
  /\ \/ ~o.aborted /\ o.envelope \in Gated /\ ~o.approved /\ GoesTo(o, "review")
        /\ UNCHANGED toolRuns
     \/ ~o.aborted /\ (o.envelope \in Gated => o.approved) /\ GoesTo(o, "run")
        /\ toolRuns' = toolRuns \cup {o.envelope}
     \/ Settles(o) /\ UNCHANGED toolRuns
  /\ SameTables /\ UNCHANGED <<proposal, published>>

\* The tool returns, fails, or is left behind when the signal is aborted.
ToolReturns(o) ==
  /\ o.pc = "run" /\ Settles(o)
  /\ SameTables /\ UNCHANGED <<proposal, published, toolRuns>>

\* #approvalRequired(): it is returned and not awaited, so that the listeners are removed
\* as soon as it waits for reviewArguments().
ApprovalRequired(o) ==
  /\ o.pc = "review"
  /\ IF o.aborted THEN Settles(o)
     ELSE Becomes(o, [o EXCEPT !.pc = "propose", !.hears = FALSE])
  /\ SameTables /\ UNCHANGED <<proposal, published, toolRuns>>

\* reviewArguments() and proposalStore.create(), which is idempotent.
CreateProposal(o) ==
  /\ o.pc = "propose"
  /\ \/ GoesTo(o, "read")
        /\ proposal' = [proposal EXCEPT ![o.envelope] = IF @ = "none" THEN "pending" ELSE @]
     \/ Settles(o) /\ UNCHANGED proposal
  /\ SameTables /\ UNCHANGED <<published, toolRuns>>

\* Only a proposal that is still pending is published.
ReadProposal(o) ==
  /\ o.pc = "read"
  /\ IF proposal[o.envelope] = "pending" THEN GoesTo(o, "publish") ELSE Settles(o)
  /\ SameTables /\ UNCHANGED <<proposal, published, toolRuns>>

\* recordProposalEvent(), with its retries.
PublishProposal(o) ==
  /\ o.pc = "publish" /\ Settles(o)
  /\ published' \in {published, published \cup {o.envelope}}
  /\ SameTables /\ UNCHANGED <<proposal, toolRuns>>

\* The reviewers decide.
DecideProposal(e, decision) ==
  /\ proposal[e] = "pending"
  /\ proposal' = [proposal EXCEPT ![e] = decision]
  /\ SameTables /\ UNCHANGED <<operations, published, toolRuns>>

BridgeNext ==
  \/ \E id \in ToolSessions, capability \in Capabilities : RegisterSession(id, capability)
  \/ \E id \in ToolSessions : TerminateSession(id)
  \/ \E i \in 1..MaxRegistrations : SessionEnds(i)
  \/ \E q \in 1..MaxRequests : BindCall(q) \/ AdmitCall(q) \/ \E e \in Envelopes : BeginCall(q, e)
  \/ \E o \in operations :
       \/ CallerAborts(o) \/ ResolveApproval(o) \/ ExecuteDetailed(o) \/ ToolReturns(o)
       \/ ApprovalRequired(o) \/ CreateProposal(o) \/ ReadProposal(o) \/ PublishProposal(o)
  \/ \E e \in Envelopes, decision \in {"confirmed", "rejected"} : DecideProposal(e, decision)

BridgeSpec == BridgeInit /\ [][BridgeNext]_bridgeVars

-----------------------------------------------------------------------------
(* Properties *)

\* However often a call is repeated, in this session or in a later one of the same id:
\* no two operations of one call are in flight; no tool runs for two envelopes that
\* share a call or an idempotency key; a tool that needs an approval runs only after its
\* proposal was shown in the conversation; a session whose hangup is answered has no
\* operation left, and one that is being terminated none that could still start a tool.
CallsAreExact ==
  /\ \A o, p \in operations : Identity(o.envelope) = Identity(p.envelope) => o = p
  /\ \A e, f \in toolRuns : Identity(e) = Identity(f) \/ e.key = f.key => e = f
  /\ toolRuns \cap Gated \subseteq published
  /\ \A o \in operations :
       /\ voiceSessions[o.session].listed
       /\ voiceSessions[o.session].terminal /\ o.pc \in {"resolve", "execute"} => o.aborted
=============================================================================
