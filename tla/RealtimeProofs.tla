--------------------------- MODULE RealtimeProofs ----------------------------
(* Theorems about RealtimeToolBridge and RealtimeCall, for any sessions, calls *)
(* and limits, any workers and any number of attempts, crashes and lost        *)
(* answers.                                                                    *)
EXTENDS RealtimeToolBridge, RealtimeCall, SequenceTheorems, FiniteSetTheorems, TLAPS

-----------------------------------------------------------------------------
(* The inductive invariant of the bridge *)

\* What the binding store takes for one call.
SameBinding(e, f) == Identity(e) = Identity(f) \/ e.key = f.key

\* execute() of a request, that names some envelope even when it has none.
Requested ==
  [pc : {"idle", "bind", "admit", "done"}, session : 0..MaxRegistrations,
   envelope : Envelopes \cup {NoCall("idle").envelope}]

\* A session that is dropped was terminated.
SessionsInv ==
  /\ voiceSessions \in Seq(VoiceSession) /\ Len(voiceSessions) <= MaxRegistrations
  /\ \A i \in DOMAIN voiceSessions : voiceSessions[i].terminal \/ voiceSessions[i].listed

\* A request waits with a session that was registered, and a call that is admitted was bound.
RequestsInv ==
  /\ bridgeCalls \in [1..MaxRequests -> Requested]
  /\ \A q \in 1..MaxRequests :
       /\ bridgeCalls[q].pc \in {"bind", "admit"} =>
            /\ bridgeCalls[q].session \in DOMAIN voiceSessions
            /\ bridgeCalls[q].envelope \in Envelopes
       /\ bridgeCalls[q].pc = "admit" => bridgeCalls[q].envelope \in bindings

\* An operation is one of a bound call in a session that is not dropped; it is approved
\* only if its proposal was shown; and until it reaches the executor it hears a hangup.
SoundOperation(o) ==
  /\ o.envelope \in bindings
  /\ o.session \in DOMAIN voiceSessions /\ voiceSessions[o.session].listed
  /\ o.approved => o.envelope \in published
  /\ o.pc \in {"resolve", "execute"} =>
       o.hears /\ (voiceSessions[o.session].terminal => o.aborted)

OperationsInv ==
  /\ operations \subseteq BridgeOperation
  /\ \A o \in operations : SoundOperation(o)
  /\ \A o, p \in operations : Identity(o.envelope) = Identity(p.envelope) => o = p

\* The binding store keeps one envelope of a call and of a key, and a tool runs for none
\* that it did not take.
ToolsInv ==
  /\ bindings \subseteq Envelopes
  /\ \A b, c \in bindings : SameBinding(b, c) => b = c
  /\ published \subseteq Envelopes
  /\ toolRuns \subseteq bindings /\ toolRuns \cap Gated \subseteq published

BridgeInv == SessionsInv /\ RequestsInv /\ OperationsInv /\ ToolsInv

LEMMA InitCalls == BridgeInit => BridgeInv
<1> SUFFICES ASSUME BridgeInit
             PROVE  BridgeInv
  OBVIOUS
<1>1. SessionsInv
  <2>1. voiceSessions = <<>> /\ 0 <= MaxRegistrations
    BY BridgeAssumption DEF BridgeInit
  <2> QED BY <2>1, EmptySeq DEF SessionsInv
<1>2. RequestsInv
  <2>1. NoCall("idle") \in Requested /\ NoCall("idle").pc = "idle"
    <3>1. 0 \in 0..MaxRegistrations
      BY BridgeAssumption
    <3> QED BY <3>1 DEF NoCall, Requested
  <2>2. bridgeCalls = [q \in 1..MaxRequests |-> NoCall("idle")]
    BY DEF BridgeInit
  <2> HIDE DEF BridgeInit
  <2> QED BY <2>1, <2>2 DEF RequestsInv
<1>3. OperationsInv /\ ToolsInv
  BY DEF BridgeInit, OperationsInv, ToolsInv
<1> QED BY <1>1, <1>2, <1>3 DEF BridgeInv

-----------------------------------------------------------------------------
(* What the steps do to the tables *)

\* A request goes on, or is answered; nothing else that it depends on changes.
LEMMA RequestGoesOn ==
  ASSUME RequestsInv, NEW q \in 1..MaxRequests, NEW c \in Requested,
         bridgeCalls' = [bridgeCalls EXCEPT ![q] = c],
         DOMAIN voiceSessions \subseteq DOMAIN voiceSessions', bindings \subseteq bindings',
         c.pc \in {"bind", "admit"} =>
           c.session \in DOMAIN voiceSessions' /\ c.envelope \in Envelopes,
         c.pc = "admit" => c.envelope \in bindings'
  PROVE  RequestsInv'
<1>1. bridgeCalls' \in [1..MaxRequests -> Requested]
  BY DEF RequestsInv
<1>2. \A p \in 1..MaxRequests : bridgeCalls'[p] = IF p = q THEN c ELSE bridgeCalls[p]
  BY DEF RequestsInv
<1> QED BY <1>1, <1>2 DEF RequestsInv, Requested

\* The requests stay, and what they depend on grows.
LEMMA RequestsWait ==
  ASSUME RequestsInv, UNCHANGED bridgeCalls,
         DOMAIN voiceSessions \subseteq DOMAIN voiceSessions', bindings \subseteq bindings'
  PROVE  RequestsInv'
BY DEF RequestsInv, Requested

LEMMA AnsweredRequest ==
  \A pc \in {"idle", "done"} : NoCall(pc) \in Requested /\ NoCall(pc).pc = pc
<1>1. 0 \in 0..MaxRegistrations
  BY BridgeAssumption
<1> QED BY <1>1 DEF NoCall, Requested

\* The operations stay, and so do their sessions, except for the calls they count.
LEMMA OperationsStay ==
  ASSUME OperationsInv, UNCHANGED operations,
         DOMAIN voiceSessions \subseteq DOMAIN voiceSessions',
         \A o \in operations :
           /\ voiceSessions'[o.session].listed = voiceSessions[o.session].listed
           /\ voiceSessions'[o.session].terminal = voiceSessions[o.session].terminal,
         bindings \subseteq bindings', published \subseteq published'
  PROVE  OperationsInv'
<1>1. \A o \in operations : SoundOperation(o)'
  BY DEF OperationsInv, SoundOperation
<1> QED BY <1>1 DEF OperationsInv

\* An operation settles or goes on: it keeps its call and its session, goes on hearing
\* until it has reached the executor, and nothing but these tables changes.
GoesOn(o, p) ==
  /\ p.session = o.session /\ p.envelope = o.envelope
  /\ p.approved => o.approved \/ p.envelope \in published'
  /\ p.pc \in {"resolve", "execute"} =>
       o.pc \in {"resolve", "execute"} /\ p.hears = o.hears /\ (o.aborted => p.aborted)

LEMMA OperationGoesOn ==
  ASSUME BridgeInv, SameTables, NEW o \in operations,
         \/ Settles(o)
         \/ \E p \in BridgeOperation : Becomes(o, p) /\ GoesOn(o, p),
         published \subseteq published', published' \subseteq Envelopes,
         toolRuns' \subseteq bindings, toolRuns' \cap Gated \subseteq published'
  PROVE  BridgeInv'
<1>1. SessionsInv' /\ RequestsInv'
  BY DEF BridgeInv, SessionsInv, RequestsInv, SameTables, VoiceSession, Requested
<1>2. ToolsInv'
  BY DEF BridgeInv, ToolsInv, SameTables
<1>3. \A x \in operations : SoundOperation(x)'
  BY DEF BridgeInv, OperationsInv, SoundOperation, SameTables
<1>4. CASE Settles(o)
  BY <1>1, <1>2, <1>3, <1>4 DEF BridgeInv, OperationsInv, Settles
<1>5. CASE \E p \in BridgeOperation : Becomes(o, p) /\ GoesOn(o, p)
  <2>1. PICK p \in BridgeOperation : Becomes(o, p) /\ GoesOn(o, p)
    BY <1>5
  <2>2. SoundOperation(o) /\ SoundOperation(o)'
    BY <1>3 DEF BridgeInv, OperationsInv
  <2>3. SoundOperation(p)'
    BY <2>1, <2>2 DEF GoesOn, SoundOperation, SameTables
  <2>4. operations' = (operations \ {o}) \cup {p} /\ p.envelope = o.envelope
    BY <2>1 DEF Becomes, GoesOn
  <2>5. OperationsInv'
    <3>1. operations' \subseteq BridgeOperation /\ \A x \in operations' : SoundOperation(x)'
      BY <1>3, <2>3, <2>4 DEF BridgeInv, OperationsInv
    <3>2. \A x, y \in operations' : Identity(x.envelope) = Identity(y.envelope) => x = y
      BY <2>4 DEF BridgeInv, OperationsInv
    <3> QED BY <3>1, <3>2 DEF OperationsInv
  <2> QED BY <1>1, <1>2, <2>5 DEF BridgeInv
<1> QED BY <1>4, <1>5

-----------------------------------------------------------------------------
(* Sessions and requests *)

LEMMA RegisterKeeps ==
  ASSUME BridgeInv, NEW id \in ToolSessions, NEW capability \in Capabilities,
         RegisterSession(id, capability)
  PROVE  BridgeInv'
<1> DEFINE s == [id |-> id, capability |-> capability, calls |-> {}, terminal |-> FALSE,
                 listed |-> TRUE]
<1>1. /\ voiceSessions' = Append(voiceSessions, s) /\ Len(voiceSessions) < MaxRegistrations
      /\ UNCHANGED <<terminalSessions, bindings, bridgeCalls, operations, proposal, published,
                     toolRuns>>
  BY DEF RegisterSession
<1>2. s \in VoiceSession /\ s.listed
  BY DEF VoiceSession
<1> HIDE DEF s
<1>3. voiceSessions \in Seq(VoiceSession)
  BY DEF BridgeInv, SessionsInv
<1>4. /\ voiceSessions' \in Seq(VoiceSession) /\ Len(voiceSessions') = Len(voiceSessions) + 1
      /\ \A i \in DOMAIN voiceSessions : voiceSessions'[i] = voiceSessions[i]
      /\ voiceSessions'[Len(voiceSessions) + 1] = s
      /\ DOMAIN voiceSessions = 1..Len(voiceSessions)
      /\ DOMAIN voiceSessions' = 1..(Len(voiceSessions) + 1)
      /\ Len(voiceSessions) \in Nat
  BY <1>1, <1>2, <1>3, AppendProperties, LenProperties
<1>5. SessionsInv'
  BY <1>1, <1>2, <1>4, BridgeAssumption DEF BridgeInv, SessionsInv
<1>6. DOMAIN voiceSessions \subseteq DOMAIN voiceSessions'
  BY <1>4
<1>7. RequestsInv'
  BY <1>1, <1>6, RequestsWait DEF BridgeInv
<1>8. OperationsInv'
  <2>1. \A o \in operations : voiceSessions'[o.session] = voiceSessions[o.session]
    BY <1>4 DEF BridgeInv, OperationsInv, SoundOperation
  <2> QED BY <1>1, <1>6, <2>1, OperationsStay DEF BridgeInv
<1> QED BY <1>1, <1>5, <1>7, <1>8 DEF BridgeInv, ToolsInv

\* What hears is aborted in the step that makes the session terminal.
LEMMA TerminateKeeps ==
  ASSUME BridgeInv, NEW id \in ToolSessions, TerminateSession(id)
  PROVE  BridgeInv'
<1> DEFINE ended == {i \in Tracked : voiceSessions[i].id = id}
           heard(o) == [o EXCEPT !.aborted = o.aborted \/ (o.hears /\ o.session \in ended)]
           session(i) == [voiceSessions[i] EXCEPT !.terminal = voiceSessions[i].terminal \/ i \in ended]
<1>1. /\ voiceSessions' = [i \in DOMAIN voiceSessions |-> session(i)]
      /\ operations' = {heard(o) : o \in operations}
      /\ UNCHANGED <<bindings, bridgeCalls, proposal, published, toolRuns>>
  BY DEF TerminateSession
<1>2. \A i \in DOMAIN voiceSessions : voiceSessions[i] \in VoiceSession
  BY ElementOfSeq, LenProperties DEF BridgeInv, SessionsInv
<1>3. \A i \in DOMAIN voiceSessions :
        /\ session(i) \in VoiceSession /\ session(i).listed = voiceSessions[i].listed
        /\ session(i).terminal = (voiceSessions[i].terminal \/ i \in ended)
  BY <1>2 DEF VoiceSession
<1>4. \A o \in operations :
        /\ heard(o) \in BridgeOperation
        /\ heard(o).envelope = o.envelope /\ heard(o).session = o.session /\ heard(o).pc = o.pc
        /\ heard(o).approved = o.approved /\ heard(o).hears = o.hears
        /\ heard(o).aborted = (o.aborted \/ (o.hears /\ o.session \in ended))
  BY DEF BridgeInv, OperationsInv, BridgeOperation
<1> HIDE DEF heard, session, ended
<1>5. SessionsInv'
  <2>1. /\ voiceSessions' \in Seq(VoiceSession) /\ Len(voiceSessions') = Len(voiceSessions)
        /\ DOMAIN voiceSessions' = DOMAIN voiceSessions
    <3>1. voiceSessions \in Seq(VoiceSession) /\ Len(voiceSessions) \in Nat
          /\ DOMAIN voiceSessions = 1..Len(voiceSessions)
      BY LenProperties DEF BridgeInv, SessionsInv
    <3>2. voiceSessions' \in [1..Len(voiceSessions) -> VoiceSession]
      BY <1>1, <1>3, <3>1
    <3> QED BY <3>1, <3>2, SeqDef, LenProperties
  <2> QED BY <1>1, <1>3, <2>1 DEF BridgeInv, SessionsInv
<1>6. DOMAIN voiceSessions \subseteq DOMAIN voiceSessions'
  BY <1>1
<1>7. RequestsInv'
  BY <1>1, <1>6, RequestsWait DEF BridgeInv
<1>8. OperationsInv'
  <2>1. \A o \in operations : SoundOperation(o)
    BY DEF BridgeInv, OperationsInv
  <2>2. \A p \in operations' : SoundOperation(p)'
    <3>1. ASSUME NEW o \in operations, NEW p, p = heard(o)
          PROVE  SoundOperation(p)'
      <4>1. /\ o.session \in DOMAIN voiceSessions
            /\ voiceSessions'[o.session] = session(o.session)
            /\ o.session \in DOMAIN voiceSessions'
        BY <1>1, <2>1 DEF SoundOperation
      <4> QED BY <1>1, <1>3, <1>4, <2>1, <3>1, <4>1 DEF SoundOperation
    <3> QED BY <1>1, <3>1
  <2>3. \A o, p \in operations : Identity(heard(o).envelope) = Identity(heard(p).envelope) => heard(o) = heard(p)
    BY <1>4 DEF BridgeInv, OperationsInv
  <2> QED BY <1>1, <1>4, <2>2, <2>3 DEF OperationsInv
<1> QED BY <1>1, <1>5, <1>7, <1>8 DEF BridgeInv, ToolsInv

\* A record that is dropped is terminal and has no operation.
LEMMA SessionEndsKeeps ==
  ASSUME BridgeInv, NEW i, SessionEnds(i)
  PROVE  BridgeInv'
<1> DEFINE s == [voiceSessions[i] EXCEPT !.listed = FALSE]
<1>1. /\ i \in DOMAIN voiceSessions /\ voiceSessions[i].terminal
      /\ \A o \in operations : o.session # i
      /\ voiceSessions' = [voiceSessions EXCEPT ![i] = s]
      /\ UNCHANGED <<terminalSessions, bindings, bridgeCalls, operations, proposal, published,
                     toolRuns>>
  BY DEF SessionEnds, Tracked
<1>2. voiceSessions \in Seq(VoiceSession) /\ voiceSessions[i] \in VoiceSession
  BY <1>1, ElementOfSeq, LenProperties DEF BridgeInv, SessionsInv
<1>3. s \in VoiceSession /\ s.terminal = voiceSessions[i].terminal
  BY <1>2 DEF VoiceSession
<1> HIDE DEF s
<1>4. /\ voiceSessions' \in Seq(VoiceSession) /\ Len(voiceSessions') = Len(voiceSessions)
      /\ DOMAIN voiceSessions' = DOMAIN voiceSessions /\ voiceSessions'[i] = s
      /\ \A j \in DOMAIN voiceSessions : j # i => voiceSessions'[j] = voiceSessions[j]
  BY <1>1, <1>2, <1>3, ExceptSeq, LenProperties
<1>5. SessionsInv'
  BY <1>1, <1>3, <1>4 DEF BridgeInv, SessionsInv
<1>6. RequestsInv'
  BY <1>1, <1>4, RequestsWait DEF BridgeInv
<1>7. OperationsInv'
  <2>1. \A o \in operations : voiceSessions'[o.session] = voiceSessions[o.session]
    BY <1>1, <1>4 DEF BridgeInv, OperationsInv, SoundOperation
  <2> QED BY <1>1, <1>4, <2>1, OperationsStay DEF BridgeInv
<1> QED BY <1>1, <1>5, <1>6, <1>7 DEF BridgeInv, ToolsInv

LEMMA BeginKeeps ==
  ASSUME BridgeInv, NEW q \in 1..MaxRequests, NEW e \in Envelopes, BeginCall(q, e)
  PROVE  BridgeInv'
<1>1. UNCHANGED <<terminalSessions, bindings, operations, proposal, published, toolRuns>>
  BY DEF BeginCall
<1>2. CASE Answers(q) /\ UNCHANGED voiceSessions
  <2>1. RequestsInv'
    BY <1>1, <1>2, AnsweredRequest, RequestGoesOn DEF Answers, BridgeInv
  <2> QED BY <1>1, <1>2, <2>1, OperationsStay DEF BridgeInv, SessionsInv, ToolsInv, VoiceSession
<1>3. ASSUME NEW i \in Tracked,
             voiceSessions' = [voiceSessions EXCEPT ![i].calls = @ \cup {e.call}],
             bridgeCalls' = [bridgeCalls EXCEPT ![q] = [pc |-> "bind", session |-> i, envelope |-> e]]
      PROVE  BridgeInv'
  <2> DEFINE s == [voiceSessions[i] EXCEPT !.calls = voiceSessions[i].calls \cup {e.call}]
             c == [pc |-> "bind", session |-> i, envelope |-> e]
  <2>1. i \in DOMAIN voiceSessions /\ voiceSessions' = [voiceSessions EXCEPT ![i] = s]
    BY <1>3 DEF Tracked
  <2>2. /\ voiceSessions \in Seq(VoiceSession) /\ voiceSessions[i] \in VoiceSession
        /\ i \in 1..Len(voiceSessions) /\ Len(voiceSessions) \in Nat
        /\ Len(voiceSessions) <= MaxRegistrations /\ MaxRegistrations \in Nat
    BY <2>1, ElementOfSeq, LenProperties, BridgeAssumption DEF BridgeInv, SessionsInv
  <2>3. /\ s \in VoiceSession /\ s.terminal = voiceSessions[i].terminal
        /\ s.listed = voiceSessions[i].listed
    BY <2>2 DEF VoiceSession
  <2>4. c \in Requested /\ c.session = i /\ c.envelope = e /\ c.pc = "bind"
    BY <2>2 DEF Requested
  <2>5. bridgeCalls' = [bridgeCalls EXCEPT ![q] = c]
    BY <1>3
  <2> HIDE DEF s, c
  <2>6. /\ voiceSessions' \in Seq(VoiceSession) /\ Len(voiceSessions') = Len(voiceSessions)
        /\ DOMAIN voiceSessions' = DOMAIN voiceSessions /\ voiceSessions'[i] = s
        /\ \A j \in DOMAIN voiceSessions : j # i => voiceSessions'[j] = voiceSessions[j]
    BY <2>1, <2>2, <2>3, ExceptSeq, LenProperties
  <2>7. SessionsInv'
    BY <2>3, <2>6 DEF BridgeInv, SessionsInv
  <2>8. RequestsInv'
    BY <1>1, <2>1, <2>4, <2>5, <2>6, RequestGoesOn DEF BridgeInv
  <2>9. OperationsInv'
    <3>1. \A o \in operations :
            /\ voiceSessions'[o.session].listed = voiceSessions[o.session].listed
            /\ voiceSessions'[o.session].terminal = voiceSessions[o.session].terminal
      BY <2>3, <2>6 DEF BridgeInv, OperationsInv, SoundOperation
    <3> QED BY <1>1, <2>6, <3>1, OperationsStay DEF BridgeInv
  <2> QED BY <1>1, <2>7, <2>8, <2>9 DEF BridgeInv, ToolsInv
<1> QED BY <1>2, <1>3 DEF BeginCall

\* What is bound conflicts with nothing that was bound.
LEMMA BindKeeps ==
  ASSUME BridgeInv, NEW q \in 1..MaxRequests, BindCall(q)
  PROVE  BridgeInv'
<1> DEFINE e == bridgeCalls[q].envelope
           c == [bridgeCalls[q] EXCEPT !.pc = "admit"]
<1>1. /\ bridgeCalls[q].pc = "bind"
      /\ UNCHANGED <<voiceSessions, terminalSessions, operations, proposal, published, toolRuns>>
  BY DEF BindCall
<1>2. bridgeCalls[q] \in Requested /\ bridgeCalls[q].session \in DOMAIN voiceSessions /\ e \in Envelopes
  BY <1>1 DEF BridgeInv, RequestsInv
<1>3. /\ c \in Requested /\ c.session = bridgeCalls[q].session /\ c.envelope = e
      /\ c.pc = "admit"
  BY <1>2 DEF Requested
<1>4. \/ UNCHANGED bindings
      \/ ~Conflicts(e) /\ bindings' = bindings \cup {e}
  BY DEF BindCall
<1>5. \/ Answers(q)
      \/ bridgeCalls' = [bridgeCalls EXCEPT ![q] = c] /\ bindings' = bindings \cup {e}
  BY DEF BindCall
<1> HIDE DEF c, e
<1>6. RequestsInv'
  <2>1. CASE Answers(q)
    BY <1>1, <1>4, <2>1, AnsweredRequest, RequestGoesOn DEF Answers, BridgeInv
  <2>2. CASE bridgeCalls' = [bridgeCalls EXCEPT ![q] = c] /\ bindings' = bindings \cup {e}
    BY <1>1, <1>2, <1>3, <2>2, RequestGoesOn DEF BridgeInv
  <2> QED BY <1>5, <2>1, <2>2
<1>7. ToolsInv'
  BY <1>1, <1>2, <1>4 DEF BridgeInv, ToolsInv, Conflicts, SameBinding
<1>8. OperationsInv'
  BY <1>1, <1>4, OperationsStay DEF BridgeInv
<1> QED BY <1>1, <1>6, <1>7, <1>8 DEF BridgeInv, SessionsInv, VoiceSession

\* What is started is bound, and no other operation is one of its call.
LEMMA AdmitKeeps ==
  ASSUME BridgeInv, NEW q \in 1..MaxRequests, AdmitCall(q)
  PROVE  BridgeInv'
<1> DEFINE c == bridgeCalls[q]
           started == Started(c.session, c.envelope)
<1>1. /\ c.pc = "admit" /\ Answers(q)
      /\ UNCHANGED <<voiceSessions, terminalSessions, bindings, proposal, published, toolRuns>>
  BY DEF AdmitCall
<1>2. /\ c.session \in DOMAIN voiceSessions /\ c.envelope \in Envelopes
      /\ c.envelope \in bindings /\ c.session \in 1..MaxRegistrations
  BY <1>1, LenProperties, BridgeAssumption DEF BridgeInv, RequestsInv, SessionsInv
<1>3. RequestsInv'
  BY <1>1, AnsweredRequest, RequestGoesOn DEF Answers, BridgeInv
<1>4. SessionsInv' /\ ToolsInv'
  BY <1>1 DEF BridgeInv, SessionsInv, ToolsInv, VoiceSession
<1>5. CASE UNCHANGED operations
  BY <1>1, <1>3, <1>4, <1>5, OperationsStay DEF BridgeInv
<1>6. CASE /\ operations' = operations \cup {started}
           /\ ~voiceSessions[c.session].terminal
           /\ \A o \in operations : Identity(o.envelope) # Identity(c.envelope)
  <2>1. /\ started \in BridgeOperation /\ started.envelope = c.envelope
        /\ started.session = c.session /\ ~started.approved /\ started.hears
    BY <1>2 DEF Started, BridgeOperation
  <2> HIDE DEF started
  <2>2. SoundOperation(started)
    BY <1>2, <1>6, <2>1 DEF SoundOperation, BridgeInv, SessionsInv
  <2>3. \A o \in operations' : SoundOperation(o)'
    BY <1>1, <1>6, <2>2 DEF BridgeInv, OperationsInv, SoundOperation
  <2>4. OperationsInv'
    BY <1>6, <2>1, <2>3 DEF BridgeInv, OperationsInv
  <2> QED BY <1>3, <1>4, <2>4 DEF BridgeInv
<1> QED BY <1>5, <1>6 DEF AdmitCall

-----------------------------------------------------------------------------
(* Operations *)

LEMMA OperationKeeps ==
  ASSUME BridgeInv, NEW o \in operations,
         \/ CallerAborts(o) \/ ResolveApproval(o) \/ ExecuteDetailed(o) \/ ToolReturns(o)
         \/ ApprovalRequired(o) \/ CreateProposal(o) \/ ReadProposal(o) \/ PublishProposal(o)
  PROVE  BridgeInv'
<1>1. /\ o \in BridgeOperation /\ SoundOperation(o) /\ o.envelope \in Envelopes
      /\ published \subseteq Envelopes
      /\ toolRuns \subseteq bindings /\ toolRuns \cap Gated \subseteq published
  BY DEF BridgeInv, OperationsInv, ToolsInv, SoundOperation
<1>2. CASE CallerAborts(o)
  <2> DEFINE p == [o EXCEPT !.aborted = TRUE]
  <2>1. p \in BridgeOperation /\ GoesOn(o, p)
    BY <1>1 DEF BridgeOperation, GoesOn
  <2>2. Becomes(o, p) /\ SameTables /\ UNCHANGED <<proposal, published, toolRuns>>
    BY <1>2 DEF CallerAborts
  <2> HIDE DEF p
  <2> QED BY <1>1, <2>1, <2>2, OperationGoesOn
<1>3. CASE ResolveApproval(o)
  <2> DEFINE p == [o EXCEPT !.pc = "execute"]
             r == [o EXCEPT !.pc = "execute", !.approved = TRUE]
  <2>1. o.pc = "resolve" /\ SameTables /\ UNCHANGED <<proposal, toolRuns>>
    BY <1>3 DEF ResolveApproval
  <2>2. p \in BridgeOperation /\ GoesOn(o, p)
    BY <1>1, <2>1 DEF BridgeOperation, GoesOn
  <2>3. CASE GoesTo(o, "execute") /\ UNCHANGED published
    <3>1. Becomes(o, p)
      BY <2>3 DEF GoesTo
    <3> HIDE DEF p
    <3> QED BY <1>1, <2>1, <2>2, <2>3, <3>1, OperationGoesOn
  <2>4. CASE Becomes(o, r) /\ published' = published \cup {o.envelope}
    <3>1. r \in BridgeOperation /\ GoesOn(o, r)
      BY <1>1, <2>1, <2>4 DEF BridgeOperation, GoesOn
    <3> HIDE DEF r
    <3> QED BY <1>1, <2>1, <2>4, <3>1, OperationGoesOn
  <2>5. CASE Settles(o) /\ UNCHANGED published
    BY <1>1, <2>1, <2>5, OperationGoesOn
  <2> QED BY <1>3, <2>3, <2>4, <2>5 DEF ResolveApproval
<1>4. CASE ExecuteDetailed(o)
  <2>1. o.pc = "execute" /\ SameTables /\ UNCHANGED <<proposal, published>>
    BY <1>4 DEF ExecuteDetailed
  <2>2. \A pc \in {"review", "run"} :
          [o EXCEPT !.pc = pc] \in BridgeOperation /\ GoesOn(o, [o EXCEPT !.pc = pc])
    BY <1>1 DEF BridgeOperation, GoesOn
  <2>3. toolRuns' \subseteq bindings /\ toolRuns' \cap Gated \subseteq published
    BY <1>1, <1>4 DEF ExecuteDetailed, SoundOperation
  <2>4. Settles(o) \/ Becomes(o, [o EXCEPT !.pc = "review"]) \/ Becomes(o, [o EXCEPT !.pc = "run"])
    BY <1>4 DEF ExecuteDetailed, GoesTo
  <2>5. Settles(o) \/ \E p \in BridgeOperation : Becomes(o, p) /\ GoesOn(o, p)
    BY <2>2, <2>4
  <2> QED BY <1>1, <2>1, <2>3, <2>5, OperationGoesOn
<1>5. CASE ToolReturns(o)
  BY <1>1, <1>5, OperationGoesOn DEF ToolReturns
<1>6. CASE ApprovalRequired(o)
  <2> DEFINE p == [o EXCEPT !.pc = "propose", !.hears = FALSE]
  <2>1. p \in BridgeOperation /\ GoesOn(o, p)
    BY <1>1 DEF BridgeOperation, GoesOn
  <2>2. Settles(o) \/ Becomes(o, p)
    BY <1>6 DEF ApprovalRequired
  <2>3. SameTables /\ UNCHANGED <<proposal, published, toolRuns>>
    BY <1>6 DEF ApprovalRequired
  <2> HIDE DEF p
  <2> QED BY <1>1, <2>1, <2>2, <2>3, OperationGoesOn
<1>7. CASE CreateProposal(o)
  <2> DEFINE p == [o EXCEPT !.pc = "read"]
  <2>1. p \in BridgeOperation /\ GoesOn(o, p)
    BY <1>1 DEF BridgeOperation, GoesOn
  <2>2. Settles(o) \/ Becomes(o, p)
    BY <1>7 DEF CreateProposal, GoesTo
  <2>3. SameTables /\ UNCHANGED <<published, toolRuns>>
    BY <1>7 DEF CreateProposal
  <2> HIDE DEF p
  <2> QED BY <1>1, <2>1, <2>2, <2>3, OperationGoesOn
<1>8. CASE ReadProposal(o)
  <2> DEFINE p == [o EXCEPT !.pc = "publish"]
  <2>1. p \in BridgeOperation /\ GoesOn(o, p)
    BY <1>1 DEF BridgeOperation, GoesOn
  <2>2. Settles(o) \/ Becomes(o, p)
    BY <1>8 DEF ReadProposal, GoesTo
  <2>3. SameTables /\ UNCHANGED <<proposal, published, toolRuns>>
    BY <1>8 DEF ReadProposal
  <2> HIDE DEF p
  <2> QED BY <1>1, <2>1, <2>2, <2>3, OperationGoesOn
<1>9. CASE PublishProposal(o)
  BY <1>1, <1>9, OperationGoesOn DEF PublishProposal
<1> QED BY <1>2, <1>3, <1>4, <1>5, <1>6, <1>7, <1>8, <1>9

LEMMA StepKeepsCalls ==
  ASSUME BridgeInv, [BridgeNext]_bridgeVars
  PROVE  BridgeInv'
<1>1. CASE UNCHANGED bridgeVars
  BY <1>1 DEF bridgeVars, BridgeInv, SessionsInv, RequestsInv, OperationsInv, ToolsInv,
              SoundOperation, VoiceSession, Requested
<1>2. ASSUME NEW e \in Envelopes, NEW decision \in {"confirmed", "rejected"},
             DecideProposal(e, decision)
      PROVE  BridgeInv'
  BY <1>2 DEF DecideProposal, SameTables, BridgeInv, SessionsInv, RequestsInv, OperationsInv,
              ToolsInv, SoundOperation, VoiceSession, Requested
<1> QED BY <1>1, <1>2, RegisterKeeps, TerminateKeeps, SessionEndsKeeps, BeginKeeps, BindKeeps,
           AdmitKeeps, OperationKeeps DEF BridgeNext

\* However often a provider repeats a call, while the first is in flight or in a later
\* session of the same id, and whenever the session hangs up: no two operations of one call
\* are in flight, no tool runs for two envelopes of one call or of one idempotency key, a
\* tool that needs an approval runs only after its proposal was shown, and after the hangup
\* nothing starts.
THEOREM RealtimeCallsAreExact == BridgeSpec => []CallsAreExact
<1>1. BridgeInv => CallsAreExact
  BY DEF BridgeInv, OperationsInv, ToolsInv, SoundOperation, SameBinding, CallsAreExact
<1> QED BY <1>1, InitCalls, StepKeepsCalls, PTL DEF BridgeSpec

-----------------------------------------------------------------------------
(* The inductive invariant of a realtime call *)

Recorded == voiceCall # NoCallRecord

\* The provider was told to end the call of the reference, and it has: it is none of those
\* that are running.
HungUp(ref, running) == ref # 0 /\ ref \notin running

\* What #update() is about to write, if the record is still the one it read: whatever the
\* operation, the lease is not shortened; only beginCreation() starts a call, one that was
\* only admitted and is its own; and only a call that was not started, or that was hung up,
\* is said to have ended.
Proposed(o, r, c, running) ==
  /\ c.worker = voiceCall.worker
  /\ voiceCall.expires <= c.expires /\ c.expires <= now + LeaseTime
  /\ IF o = "begin"
     THEN /\ r.by = voiceCall.worker /\ c.started /\ c.status = "starting"
          /\ voiceCall.status = "admitted"
     ELSE /\ c.started = voiceCall.started
          /\ c.status = "admitted" => voiceCall.status = "admitted"
          /\ voiceCall.status = "ended" => c.status = "ended"
          /\ c.status = "ended" =>
               voiceCall.status = "ended" \/ ~voiceCall.started \/ HungUp(voiceCall.ref, running)

\* #update() in flight, and an answer that is not taken yet.
SoundUpdate(o, r, running) ==
  /\ r \in CallRequest /\ r.ref <= dialed
  /\ o \in {"begin", "attach", "renew"} => r.by \in CallWorkers
  /\ o = "confirm" => HungUp(r.ref, running)
  /\ r.value # NoCallRecord => Recorded /\ r.value.ref <= dialed
  /\ r.pc = "write" =>
       /\ r.value # NoCallRecord /\ r.value.version <= voiceCall.version
       /\ r.value.version = voiceCall.version => Proposed(o, r, r.value, running)
  /\ r.pc = "answer" /\ r.value # NoCallRecord => r.value.expires <= voiceCall.expires

UpdatesInv ==
  /\ requests = [o \in Operations |-> requests[o]]
  /\ \A o \in Operations : requests[o] # NoRequest => SoundUpdate(o, requests[o], remote)

\* The provider's call is one of a record that was started, and is gone once it is ended.
RecordInv ==
  /\ now \in Nat /\ dialed \in 0..1 /\ remote \subseteq 1..dialed
  /\ voiceCall \in CallRecord \cup {NoCallRecord}
  /\ dialed = 1 => Recorded /\ voiceCall.started
  /\ Recorded =>
       /\ voiceCall.ref <= dialed /\ voiceCall.expires <= now + LeaseTime
       /\ voiceCall.status = "admitted" => ~voiceCall.started
       /\ voiceCall.status = "ended" => remote = {}

CallWorker ==
  [pc : {"idle", "admitted", "begun", "dialed", "active", "stopped"}, ref : References]

\* A worker is about to create the call only if it is its own, started and not created.
WorkersInv ==
  /\ workers \in [CallWorkers -> CallWorker]
  /\ \A w \in CallWorkers :
       /\ workers[w].ref <= dialed
       /\ workers[w].pc = "begun" =>
            /\ Recorded /\ voiceCall.worker = w /\ voiceCall.started
            /\ voiceCall.status # "ended" /\ dialed = 0

LeasesInv ==
  /\ leases \in [CallWorkers -> [pc : {"none", "live", "closed"}, deadline : Nat]]
  /\ \A w \in CallWorkers :
       leases[w].pc = "live" => Recorded /\ leases[w].deadline <= voiceCall.expires

\* What was dispatched is under way, and a conversation that is gone has nothing under way.
ActivityInv ==
  /\ tools \in [CallTools -> {"none", "running", "waiting"} \cup Settled]
  /\ \A t \in dispatchedTools : t \in CallTools /\ tools[t] \in {"running", "waiting"}
  /\ conversationGone =>
       /\ \A t \in CallTools : tools[t] \in {"none"} \cup Settled
       /\ Recorded => voiceCall.status = "ended"

\* Counts only grow: of two views one covers the other, and the receipt is one of them.
ReceiptInv ==
  /\ displayed \subseteq Token /\ reading \in Nat
  /\ \A a, b \in displayed : Covers(a, b) \/ Covers(b, a)
  /\ \A a \in displayed :
       Covers(Counts(0), a) /\ Recorded /\ a.version <= voiceCall.version
  /\ reading # 0 => Recorded /\ reading <= voiceCall.version
  /\ receipt \in displayed \cup {NoReceiptYet}

CallInv ==
  UpdatesInv /\ RecordInv /\ WorkersInv /\ LeasesInv /\ ActivityInv /\ ReceiptInv

-----------------------------------------------------------------------------
(* What #update() makes of the record *)

LEMMA SnapshotIs ==
  ASSUME voiceCall \in CallRecord
  PROVE  /\ Snapshot \in CallRecord
         /\ Snapshot = [voiceCall EXCEPT !.status = Snapshot.status]
         /\ Snapshot.worker = voiceCall.worker /\ Snapshot.started = voiceCall.started
         /\ Snapshot.ref = voiceCall.ref /\ Snapshot.expires = voiceCall.expires
         /\ Snapshot.version = voiceCall.version
         /\ \/ Snapshot.status = voiceCall.status
            \/ /\ Snapshot.status = "uncertain"
               /\ voiceCall.status \in {"admitted", "starting", "active"}
BY DEF Snapshot, CallRecord, Statuses

LEMMA ChangeIsSound ==
  ASSUME RecordInv, Recorded, NEW running,
         NEW o \in Operations, NEW r \in CallRequest, r.ref <= dialed,
         o = "confirm" => HungUp(r.ref, running), NEW c \in Changed(o, r, Snapshot)
  PROVE  /\ c \in CallRecord /\ c.version = voiceCall.version /\ c.ref <= dialed
         /\ Proposed(o, r, c, running) /\ (o = "begin" => c # Snapshot)
<1> DEFINE s == Snapshot
<1>1. voiceCall \in CallRecord /\ voiceCall.ref <= dialed /\ voiceCall.expires <= now + LeaseTime
  BY DEF RecordInv, Recorded
<1>2. /\ s \in CallRecord /\ s.worker = voiceCall.worker /\ s.started = voiceCall.started
      /\ s.ref = voiceCall.ref /\ s.expires = voiceCall.expires /\ s.version = voiceCall.version
      /\ \/ s.status = voiceCall.status
         \/ s.status = "uncertain" /\ voiceCall.status \in {"admitted", "starting", "active"}
  BY <1>1, SnapshotIs
<1>3. /\ now \in Nat /\ LeaseTime \in Nat /\ voiceCall.expires \in Nat /\ dialed \in Nat
      /\ now + LeaseTime \in Nat /\ r.ref \in Nat
  BY <1>1, CallAssumption DEF RecordInv, CallRecord, CallRequest, References
<1>4. c \in Changed(o, r, s)
  OBVIOUS
<1> HIDE DEF s
<1>5. CASE o = "begin"
  <2>1. /\ c = [s EXCEPT !.status = "starting", !.started = TRUE]
        /\ s.worker = r.by /\ s.status = "admitted"
    BY <1>4, <1>5 DEF Changed
  <2>2. /\ c \in CallRecord /\ c.version = s.version /\ c.ref = s.ref /\ c.worker = s.worker
        /\ c.expires = s.expires /\ c.started /\ c.status = "starting"
    BY <1>2, <2>1 DEF CallRecord, Statuses
  <2>3. c # Snapshot
    BY <2>1, <2>2 DEF s
  <2>4. Proposed(o, r, c, running)
    BY <1>1, <1>2, <1>3, <1>5, <2>1, <2>2 DEF Proposed
  <2> QED BY <1>1, <1>2, <2>2, <2>3, <2>4
<1>6. CASE o = "attach"
  <2> DEFINE status == IF s.status = "starting" THEN "active" ELSE s.status
  <2>1. c = [s EXCEPT !.ref = r.ref, !.status = status]
    BY <1>4, <1>6 DEF Changed
  <2>2. /\ status \in Statuses /\ (status = "admitted" => s.status = "admitted")
        /\ (status = "ended" <=> s.status = "ended")
    BY <1>2 DEF CallRecord, Statuses
  <2> HIDE DEF status
  <2>3. /\ c \in CallRecord /\ c.version = s.version /\ c.ref = r.ref /\ c.worker = s.worker
        /\ c.expires = s.expires /\ c.started = s.started /\ c.status = status
    BY <1>2, <1>3, <2>1, <2>2 DEF CallRecord, References
  <2> QED BY <1>1, <1>2, <1>3, <1>6, <2>2, <2>3 DEF Proposed
<1>7. CASE o = "renew"
  <2> DEFINE expires == now + LeaseTime
  <2>1. c = [s EXCEPT !.expires = expires] /\ s.status \in {"admitted", "starting", "active"}
    BY <1>4, <1>7 DEF Changed
  <2>2. expires \in Nat /\ voiceCall.expires <= expires /\ expires <= now + LeaseTime
    BY <1>1, <1>3
  <2> HIDE DEF expires
  <2>3. /\ c \in CallRecord /\ c.version = s.version /\ c.ref = s.ref /\ c.worker = s.worker
        /\ c.expires = expires /\ c.started = s.started /\ c.status = s.status
    BY <1>2, <2>1, <2>2 DEF CallRecord
  <2> QED BY <1>1, <1>2, <1>3, <1>7, <2>1, <2>2, <2>3 DEF Proposed
<1>8. CASE o = "end"
  <2> DEFINE status == IF s.status = "ended" \/ ~s.started THEN "ended" ELSE "ending"
  <2>1. c = [s EXCEPT !.status = status]
    BY <1>4, <1>8 DEF Changed
  <2>2. /\ status \in Statuses /\ status # "admitted" /\ (s.status = "ended" => status = "ended")
        /\ (status = "ended" => s.status = "ended" \/ ~s.started)
    BY DEF Statuses
  <2> HIDE DEF status
  <2>3. /\ c \in CallRecord /\ c.version = s.version /\ c.ref = s.ref /\ c.worker = s.worker
        /\ c.expires = s.expires /\ c.started = s.started /\ c.status = status
    BY <1>2, <2>1, <2>2 DEF CallRecord
  <2> QED BY <1>1, <1>2, <1>3, <1>8, <2>2, <2>3 DEF Proposed
<1>9. CASE o = "confirm"
  <2>1. c = [s EXCEPT !.status = "ended"] /\ s.ref = r.ref
    BY <1>4, <1>9 DEF Changed
  <2>2. /\ c \in CallRecord /\ c.version = s.version /\ c.ref = s.ref /\ c.worker = s.worker
        /\ c.expires = s.expires /\ c.started = s.started /\ c.status = "ended"
    BY <1>2, <2>1 DEF CallRecord, Statuses
  <2> QED BY <1>1, <1>2, <1>3, <1>9, <2>1, <2>2 DEF Proposed
<1> QED BY <1>5, <1>6, <1>7, <1>8, <1>9 DEF Operations

\* What get() and the operation leave #update() with.
LEMMA TriedIsSound ==
  ASSUME RecordInv, NEW running, NEW o \in Operations, NEW r \in CallRequest, r.ref <= dialed,
         o \in {"begin", "attach", "renew"} => r.by \in CallWorkers,
         o = "confirm" => HungUp(r.ref, running)
  PROVE  /\ SoundUpdate(o, Tried(o, r), running)
         /\ o = "begin" /\ Tried(o, r).pc = "answer" => Tried(o, r).value = NoCallRecord
<1> DEFINE change == IF voiceCall = NoCallRecord THEN {} ELSE Changed(o, r, Snapshot)
           t == Tried(o, r)
<1>1. CASE change = {}
  <2>1. t = [r EXCEPT !.pc = "answer", !.value = NoCallRecord]
    BY <1>1 DEF Tried, Refused
  <2>2. t \in CallRequest /\ t.pc = "answer" /\ t.value = NoCallRecord /\ t.by = r.by /\ t.ref = r.ref
    BY <2>1 DEF CallRequest
  <2> QED BY <2>2 DEF SoundUpdate
<1>2. CASE change # {}
  <2> DEFINE c == CHOOSE c \in change : TRUE
             pc == IF change = {Snapshot} THEN "answer" ELSE "write"
  <2>1. t = [r EXCEPT !.pc = pc, !.value = c]
    BY <1>2 DEF Tried
  <2>2. c \in change /\ Recorded
    BY <1>2 DEF Recorded
  <2>3. pc \in {"write", "answer"} /\ (pc = "answer" => c = Snapshot)
    BY <2>2
  <2>4. c \in Changed(o, r, Snapshot)
    BY <2>2 DEF Recorded
  <2> HIDE DEF c, pc, change, t
  <2>5. /\ c \in CallRecord /\ c.version = voiceCall.version /\ c.ref <= dialed
        /\ Proposed(o, r, c, running) /\ (o = "begin" => c # Snapshot)
    BY <2>2, <2>4, ChangeIsSound
  <2>6. /\ t \in CallRequest /\ t.pc = pc /\ t.value = c /\ t.by = r.by /\ t.ref = r.ref
    BY <2>1, <2>3, <2>5 DEF CallRequest
  <2>7. /\ voiceCall \in CallRecord /\ Snapshot.expires = voiceCall.expires
        /\ voiceCall.expires \in Nat /\ voiceCall.version \in Nat
    BY <2>2, SnapshotIs DEF RecordInv, Recorded, CallRecord
  <2>8. Proposed(o, t, c, running)
    BY <2>5, <2>6 DEF Proposed
  <2>9. SoundUpdate(o, t, running)
    BY <2>2, <2>3, <2>5, <2>6, <2>7, <2>8, CallRecordAssumption DEF SoundUpdate
  <2> QED BY <2>3, <2>5, <2>6, <2>9 DEF t
<1> QED BY <1>1, <1>2

\* Where an answer leaves the workers.
LEMMA ToldIsSound ==
  ASSUME WorkersInv, NEW o \in Operations, NEW r,
         o \in {"begin", "attach"} => r.by \in CallWorkers, NEW w \in CallWorkers
  PROVE  /\ Told(o, r) \in [CallWorkers -> CallWorker]
         /\ Told(o, r)[w].ref \in {0, workers[w].ref}
         /\ Told(o, r)[w].pc = "begun" =>
              \/ workers[w].pc = "begun"
              \/ o = "begin" /\ w = r.by /\ r.value # NoCallRecord
<1>1. workers \in [CallWorkers -> CallWorker]
  BY DEF WorkersInv
<1>2. CASE o = "begin"
  <2> DEFINE pc == IF r.value = NoCallRecord THEN "stopped" ELSE "begun"
  <2>1. Told(o, r) = [workers EXCEPT ![r.by] = [pc |-> pc, ref |-> 0]]
    BY <1>2 DEF Told, AtWork
  <2>2. [pc |-> pc, ref |-> 0] \in CallWorker
    BY DEF References, CallWorker
  <2> QED BY <1>1, <1>2, <2>1, <2>2
<1>3. CASE o = "attach" /\ r.value # NoCallRecord
  <2> DEFINE pc == IF r.value.status = "active" THEN "active" ELSE "stopped"
             me == [workers[r.by] EXCEPT !.pc = pc]
  <2>1. Told(o, r) = [workers EXCEPT ![r.by] = me]
    BY <1>3 DEF Told
  <2>2. pc \in {"active", "stopped"} /\ workers[r.by] \in CallWorker
    BY <1>1, <1>3
  <2> HIDE DEF pc
  <2>3. me \in CallWorker /\ me.ref = workers[r.by].ref /\ me.pc = pc
    BY <2>2 DEF CallWorker
  <2> HIDE DEF me
  <2> QED BY <1>1, <1>3, <2>1, <2>2, <2>3
<1>4. CASE o # "begin" /\ ~(o = "attach" /\ r.value # NoCallRecord)
  <2>1. Told(o, r) = workers
    BY <1>4 DEF Told, Operations
  <2> QED BY <1>1, <2>1
<1> QED BY <1>2, <1>3, <1>4

-----------------------------------------------------------------------------
(* What stays true when something else moves *)

\* The record, if it is written, is written by the rules.
Later ==
  /\ Recorded => Recorded'
  /\ \/ UNCHANGED voiceCall
     \/ Recorded => voiceCall'.version > voiceCall.version /\ voiceCall.expires <= voiceCall'.expires
  /\ now \in Nat /\ now' \in Nat /\ now <= now' /\ dialed \in Nat /\ dialed' \in Nat /\ dialed <= dialed'
  /\ remote' \subseteq remote \/ dialed = 0

LEMMA UpdateStays ==
  ASSUME RecordInv, RecordInv', Later, NEW o \in Operations, NEW r, SoundUpdate(o, r, remote)
  PROVE  SoundUpdate(o, r, remote)'
<1>1. /\ r.ref \in Nat /\ LeaseTime \in Nat
      /\ r.value # NoCallRecord =>
           /\ r.value \in CallRecord /\ r.value.ref \in Nat /\ r.value.version \in Nat
           /\ r.value.expires \in Nat
  BY CallAssumption DEF SoundUpdate, CallRequest, CallRecord, References
<1>2. Recorded =>
        /\ Recorded' /\ voiceCall.version \in Nat /\ voiceCall.expires \in Nat /\ voiceCall.ref \in Nat
        /\ voiceCall'.version \in Nat /\ voiceCall'.expires \in Nat /\ voiceCall.ref <= dialed
        /\ voiceCall.version <= voiceCall'.version /\ voiceCall.expires <= voiceCall'.expires
  BY DEF RecordInv, Recorded, Later, CallRecord, References
<1>3. \A ref \in Nat : ref <= dialed /\ HungUp(ref, remote) => HungUp(ref, remote)'
  BY DEF Later, HungUp
<1>4. r \in CallRequest /\ r.ref <= dialed' /\ (o = "confirm" => HungUp(r.ref, remote)')
  BY <1>1, <1>3 DEF SoundUpdate, Later
<1>5. r.value # NoCallRecord => Recorded' /\ r.value.ref <= dialed'
  BY <1>1, <1>2 DEF SoundUpdate, Later
<1>6. ASSUME r.pc = "write"
      PROVE  /\ r.value # NoCallRecord /\ r.value.version <= voiceCall'.version
             /\ r.value.version = voiceCall'.version => Proposed(o, r, r.value, remote)'
  <2>1. r.value # NoCallRecord /\ r.value.version <= voiceCall.version /\ Recorded
    BY <1>6 DEF SoundUpdate
  <2>2. CASE r.value.version = voiceCall'.version
    <3>1. UNCHANGED voiceCall /\ Proposed(o, r, r.value, remote)
      BY <1>1, <1>2, <1>6, <2>1, <2>2 DEF Later, SoundUpdate
    <3>2. HungUp(voiceCall.ref, remote) => HungUp(voiceCall.ref, remote)'
      BY <1>2, <1>3, <2>1, <3>1 DEF HungUp
    <3>3. r.value.expires <= now + LeaseTime => r.value.expires <= now' + LeaseTime
      BY <1>1, <2>1 DEF Later
    <3> QED BY <2>1, <2>2, <3>1, <3>2, <3>3 DEF Proposed
  <2> QED BY <1>1, <1>2, <2>1, <2>2
<1>7. r.pc = "answer" /\ r.value # NoCallRecord => r.value.expires <= voiceCall'.expires
  BY <1>1, <1>2 DEF SoundUpdate
<1> QED BY <1>4, <1>5, <1>6, <1>7 DEF SoundUpdate

\* A lease, and what is read, only depend on a record that grows.
LEMMA LeasesStay ==
  ASSUME RecordInv, RecordInv', Later, LeasesInv, UNCHANGED leases
  PROVE  LeasesInv'
BY DEF RecordInv, Recorded, Later, LeasesInv, CallRecord

LEMMA ReceiptStays ==
  ASSUME RecordInv, RecordInv', Later, ReceiptInv, SameActivity
  PROVE  ReceiptInv'
<1>1. Counts(0)' = Counts(0)
  BY DEF SameActivity, Counts, Count
<1> QED BY <1>1 DEF RecordInv, Recorded, Later, ReceiptInv, CallRecord, SameActivity, Covers, Token

\* #update() goes on with what it read, or tells the caller, and nothing else changes.
LEMMA UpdateGoesOn ==
  ASSUME CallInv, NEW o \in Operations, NEW r, SoundUpdate(o, r, remote), Proceeds(o, r),
         o = "begin" /\ r.pc = "answer" => r.value = NoCallRecord,
         UNCHANGED <<now, voiceCall, leases, conversationGone>>, SameProvider, SameActivity
  PROVE  CallInv'
<1>1. RecordInv' /\ ActivityInv' /\ Recorded' = Recorded
  BY DEF CallInv, RecordInv, ActivityInv, Recorded, SameProvider, SameActivity
<1>2. Later
  BY DEF Later, CallInv, RecordInv, Recorded, SameProvider
<1>3. LeasesInv' /\ ReceiptInv'
  BY <1>1, <1>2, LeasesStay, ReceiptStays DEF CallInv
<1>4. UpdatesInv'
  <2>1. requests' = [requests EXCEPT ![o] = IF Waits(o, r) THEN r ELSE NoRequest]
    BY DEF Proceeds
  <2>2. \A p \in Operations : requests'[p] \in {requests[p], NoRequest} \/ (p = o /\ requests'[p] = r)
    BY <2>1 DEF CallInv, UpdatesInv
  <2>3. \A p \in Operations : requests'[p] # NoRequest => SoundUpdate(p, requests'[p], remote)
    BY <2>2 DEF CallInv, UpdatesInv
  <2>4. ASSUME NEW p \in Operations, NEW x, SoundUpdate(p, x, remote)
        PROVE  SoundUpdate(p, x, remote)'
    BY <1>1, <1>2, <2>4, UpdateStays DEF CallInv
  <2>5. requests' = [p \in Operations |-> requests'[p]]
    BY <2>1 DEF CallInv, UpdatesInv
  <2> QED BY <2>3, <2>4, <2>5 DEF UpdatesInv
<1>5. WorkersInv'
  <2>1. CASE UNCHANGED workers
    BY <1>1, <2>1 DEF CallInv, WorkersInv, SameProvider
  <2>2. CASE workers' = Told(o, r) /\ ~Waits(o, r)
    <3>1. o \in {"begin", "attach"} => r.by \in CallWorkers
      BY DEF SoundUpdate
    <3>2. r.pc = "answer"
      BY <2>2 DEF Waits, SoundUpdate, CallRequest
    <3>3. WorkersInv
      BY DEF CallInv
    <3>4. \A w \in CallWorkers :
            /\ workers' \in [CallWorkers -> CallWorker]
            /\ workers'[w].ref \in {0, workers[w].ref}
            /\ workers'[w].pc = "begun" => workers[w].pc = "begun"
      <4> SUFFICES ASSUME NEW w \in CallWorkers
                   PROVE  /\ workers' \in [CallWorkers -> CallWorker]
                          /\ workers'[w].ref \in {0, workers[w].ref}
                          /\ workers'[w].pc = "begun" => workers[w].pc = "begun"
        OBVIOUS
      <4>1. /\ Told(o, r) \in [CallWorkers -> CallWorker]
            /\ Told(o, r)[w].ref \in {0, workers[w].ref}
            /\ Told(o, r)[w].pc = "begun" =>
                 \/ workers[w].pc = "begun"
                 \/ o = "begin" /\ w = r.by /\ r.value # NoCallRecord
        BY <3>1, <3>3, ToldIsSound
      <4> QED BY <2>2, <3>2, <4>1
    <3>5. workers' \in [CallWorkers -> CallWorker]
      <4>1. CASE CallWorkers = {}
        BY <2>2, <3>1, <3>3, <4>1 DEF Told, WorkersInv
      <4> QED BY <3>4, <4>1
    <3>6. dialed' = dialed /\ dialed \in Nat /\ UNCHANGED voiceCall
      BY DEF SameProvider, CallInv, RecordInv
    <3> QED BY <1>1, <3>3, <3>4, <3>5, <3>6 DEF WorkersInv
  <2> QED BY <2>1, <2>2 DEF Proceeds
<1> QED BY <1>1, <1>3, <1>4, <1>5 DEF CallInv

\* A caller asks for an operation.
LEMMA AskKeeps ==
  ASSUME CallInv, NEW o \in Operations \ {"confirm"}, NEW w \in CallWorkers \cup {NoRequest},
         NEW ref \in Nat, ref <= dialed,
         o \in {"begin", "attach", "renew"} => w \in CallWorkers, Asks(o, w, ref)
  PROVE  CallInv'
<1> DEFINE r == First(w, ref)
<1>1. r \in CallRequest /\ r.ref = ref /\ r.by = w
  BY DEF First, CallRequest, References
<1>2. /\ Proceeds(o, Tried(o, r)) /\ UNCHANGED <<now, voiceCall, leases, conversationGone>>
      /\ SameProvider /\ SameActivity
  BY DEF Asks
<1> HIDE DEF r
<1>3. /\ SoundUpdate(o, Tried(o, r), remote)
      /\ o = "begin" /\ Tried(o, r).pc = "answer" => Tried(o, r).value = NoCallRecord
  BY <1>1, TriedIsSound DEF CallInv
<1> QED BY <1>2, <1>3, UpdateGoesOn

\* The record is still the one that was read, and is written.
LEMMA CommitKeeps ==
  ASSUME CallInv, NEW o \in Operations, NEW n,
         requests[o] # NoRequest, requests[o].pc = "write",
         Writable(requests[o]), Committed(requests[o]), Proceeds(o, n),
         n \in {[requests[o] EXCEPT !.pc = "answer"], Refused(requests[o])},
         UNCHANGED <<now, leases, conversationGone>>, SameProvider, SameActivity
  PROVE  CallInv'
<1> DEFINE r == requests[o]
           c == r.value
           version == c.version + 1
<1>1. /\ SoundUpdate(o, r, remote) /\ c \in CallRecord /\ Recorded /\ c.ref <= dialed
      /\ c.version = voiceCall.version /\ ~conversationGone /\ Proposed(o, r, c, remote)
  <2>1. SoundUpdate(o, r, remote)
    BY DEF CallInv, UpdatesInv
  <2> QED BY <2>1 DEF SoundUpdate, CallRequest, Writable
<1>2. voiceCall' = [c EXCEPT !.version = version] /\ c.version \in Nat /\ version \in Nat /\ version > c.version
  BY <1>1 DEF Committed, CallRecord
<1> HIDE DEF version
<1>3. /\ voiceCall' \in CallRecord /\ Recorded' /\ voiceCall'.version = version
      /\ voiceCall'.ref = c.ref /\ voiceCall'.expires = c.expires /\ voiceCall'.status = c.status
      /\ voiceCall'.started = c.started /\ voiceCall'.worker = c.worker
  BY <1>1, <1>2, CallRecordAssumption DEF CallRecord, Recorded
<1>4. /\ voiceCall \in CallRecord /\ voiceCall.ref <= dialed /\ voiceCall.expires <= c.expires
      /\ (voiceCall.status = "admitted" => ~voiceCall.started)
      /\ (voiceCall.status = "ended" => remote = {})
      /\ (dialed = 1 => voiceCall.started) /\ dialed \in 0..1 /\ remote \subseteq 1..dialed
      /\ voiceCall.ref \in Nat /\ now \in Nat
  BY <1>1 DEF CallInv, RecordInv, Recorded, Proposed, CallRecord, References
<1>5. /\ (c.started = voiceCall.started \/ (c.started /\ ~voiceCall.started /\ c.status = "starting"))
      /\ (c.status = "admitted" => ~c.started)
      /\ (c.status = "ended" => remote = {})
  <2>1. ~voiceCall.started => dialed = 0 /\ remote = {}
    BY <1>4
  <2>2. HungUp(voiceCall.ref, remote) => remote = {}
    BY <1>4 DEF HungUp
  <2> QED BY <1>1, <1>4, <2>1, <2>2 DEF Proposed
<1>6. RecordInv'
  <2>1. now' = now /\ dialed' = dialed /\ remote' = remote
    BY DEF SameProvider
  <2>2. c.expires <= now + LeaseTime
    BY <1>1 DEF Proposed
  <2> HIDE DEF c
  <2>3. dialed' = 1 => voiceCall'.started
    BY <1>3, <1>4, <1>5, <2>1
  <2> QED BY <1>1, <1>3, <1>4, <1>5, <2>1, <2>2, <2>3 DEF RecordInv, Recorded
<1>7. Later
  BY <1>1, <1>2, <1>3, <1>4 DEF Later, SameProvider
<1>8. LeasesInv' /\ ReceiptInv'
  BY <1>6, <1>7, LeasesStay, ReceiptStays DEF CallInv
<1>9. ActivityInv'
  BY <1>1 DEF CallInv, ActivityInv, SameActivity
<1>10. SoundUpdate(o, n, remote)'
  <2>1. n \in CallRequest /\ n.by = r.by /\ n.ref = r.ref /\ n.pc = "answer"
        /\ n.value \in {c, NoCallRecord}
    BY <1>1 DEF SoundUpdate, CallRequest, Refused
  <2>2. ASSUME NEW x, x = r
        PROVE  SoundUpdate(o, x, remote)'
    BY <1>1, <1>6, <1>7, <2>2, UpdateStays DEF CallInv
  <2>3. voiceCall'.expires \in Nat /\ voiceCall'.expires = c.expires
    BY <1>1, <1>3 DEF CallRecord
  <2> QED BY <1>1, <1>3, <1>4, <2>1, <2>2, <2>3 DEF SoundUpdate, HungUp, SameProvider
<1>11. UpdatesInv'
  <2>1. requests' = [requests EXCEPT ![o] = IF Waits(o, n) THEN n ELSE NoRequest]
    BY DEF Proceeds
  <2>2. \A p \in Operations :
          \/ requests'[p] = NoRequest
          \/ p = o /\ requests'[p] = n
          \/ requests'[p] = requests[p]
    BY <2>1 DEF CallInv, UpdatesInv
  <2>3. \A p \in Operations : requests[p] # NoRequest => SoundUpdate(p, requests[p], remote)
    BY DEF CallInv, UpdatesInv
  <2>4. ASSUME NEW p \in Operations, NEW x, SoundUpdate(p, x, remote)
        PROVE  SoundUpdate(p, x, remote)'
    BY <1>6, <1>7, <2>4, UpdateStays DEF CallInv
  <2>5. ASSUME NEW p \in Operations, NEW x, x = requests'[p], x # NoRequest
        PROVE  SoundUpdate(p, x, remote)'
    BY <1>10, <2>2, <2>3, <2>4, <2>5
  <2>6. requests' = [p \in Operations |-> requests'[p]]
    BY <2>1 DEF CallInv, UpdatesInv
  <2> QED BY <2>5, <2>6 DEF UpdatesInv
<1>12. WorkersInv'
  <2>1. WorkersInv /\ dialed' = dialed /\ dialed \in Nat
    BY <1>4 DEF CallInv, SameProvider
  <2>2. ASSUME NEW w \in CallWorkers, workers[w].pc = "begun"
        PROVE  /\ Recorded' /\ voiceCall'.worker = w /\ voiceCall'.started
               /\ voiceCall'.status # "ended" /\ dialed' = 0
    <3>1. /\ voiceCall.worker = w /\ voiceCall.started /\ voiceCall.status # "ended" /\ dialed = 0
      BY <2>1, <2>2 DEF WorkersInv
    <3>2. ~HungUp(voiceCall.ref, remote)
      BY <1>4, <3>1 DEF HungUp
    <3>3. c.status # "ended" /\ c.started /\ c.worker = w
      BY <1>1, <1>4, <3>1, <3>2 DEF Proposed
    <3> QED BY <1>3, <2>1, <3>1, <3>3
  <2>3. ASSUME o = "begin"
        PROVE  /\ Recorded' /\ voiceCall'.worker = r.by /\ voiceCall'.started
               /\ voiceCall'.status # "ended" /\ dialed' = 0
    BY <1>1, <1>3, <1>4, <2>1, <2>3 DEF Proposed
  <2>4. n.by = r.by /\ (o \in {"begin", "attach"} => n.by \in CallWorkers)
    BY <1>1 DEF SoundUpdate, CallRequest, Refused
  <2>5. CASE UNCHANGED workers
    BY <2>1, <2>2, <2>5 DEF WorkersInv
  <2>6. CASE workers' = Told(o, n)
    <3>1. \A w \in CallWorkers :
            /\ workers' \in [CallWorkers -> CallWorker]
            /\ workers'[w].ref \in {0, workers[w].ref}
            /\ workers'[w].pc = "begun" => workers[w].pc = "begun" \/ (o = "begin" /\ w = n.by)
      <4> SUFFICES ASSUME NEW w \in CallWorkers
                   PROVE  /\ workers' \in [CallWorkers -> CallWorker]
                          /\ workers'[w].ref \in {0, workers[w].ref}
                          /\ workers'[w].pc = "begun" =>
                               workers[w].pc = "begun" \/ (o = "begin" /\ w = n.by)
        OBVIOUS
      <4>1. /\ Told(o, n) \in [CallWorkers -> CallWorker]
            /\ Told(o, n)[w].ref \in {0, workers[w].ref}
            /\ Told(o, n)[w].pc = "begun" =>
                 \/ workers[w].pc = "begun"
                 \/ o = "begin" /\ w = n.by /\ n.value # NoCallRecord
        BY <2>1, <2>4, ToldIsSound
      <4> QED BY <2>6, <4>1
    <3>2. CallWorkers # {}
      BY <1>3 DEF CallRecord
    <3> HIDE DEF r
    <3> QED BY <2>1, <2>2, <2>3, <2>4, <3>1, <3>2 DEF WorkersInv
  <2> QED BY <2>5, <2>6 DEF Proceeds
<1> QED BY <1>6, <1>8, <1>9, <1>11, <1>12 DEF CallInv

LEMMA WriteKeeps ==
  ASSUME CallInv, NEW o \in Operations, WriteCall(o)
  PROVE  CallInv'
<1> DEFINE r == requests[o]
<1>1. /\ r # NoRequest /\ r.pc = "write" /\ SoundUpdate(o, r, remote)
      /\ UNCHANGED <<now, leases, conversationGone>> /\ SameProvider /\ SameActivity
  BY DEF WriteCall, CallInv, UpdatesInv
<1>2. Refused(r) \in CallRequest /\ Refused(r).pc = "answer" /\ Refused(r).value = NoCallRecord
      /\ Refused(r).by = r.by /\ Refused(r).ref = r.ref
  BY <1>1 DEF SoundUpdate, Refused, CallRequest
<1>3. SoundUpdate(o, Refused(r), remote)
  BY <1>1, <1>2 DEF SoundUpdate
<1>4. CASE Writable(r) /\ Committed(r) /\ Proceeds(o, [r EXCEPT !.pc = "answer"])
  BY <1>1, <1>4, CommitKeeps
<1>5. CASE Writable(r) /\ Committed(r) /\ Proceeds(o, Refused(r))
  BY <1>1, <1>5, CommitKeeps
<1>6. CASE UNCHANGED voiceCall /\ Proceeds(o, Refused(r))
  BY <1>1, <1>2, <1>3, <1>6, UpdateGoesOn
<1>7. CASE UNCHANGED voiceCall /\ Proceeds(o, Tried(o, [r EXCEPT !.attempt = @ + 1]))
  <2> DEFINE attempt == r.attempt + 1
             n == [r EXCEPT !.attempt = attempt]
  <2>1. Proceeds(o, Tried(o, n))
    BY <1>7
  <2>2. attempt \in Nat
    BY <1>1 DEF SoundUpdate, CallRequest
  <2> HIDE DEF attempt
  <2>3. n \in CallRequest /\ n.ref = r.ref /\ n.by = r.by
    BY <1>1, <2>2 DEF SoundUpdate, CallRequest
  <2> HIDE DEF n
  <2>4. /\ SoundUpdate(o, Tried(o, n), remote)
        /\ o = "begin" /\ Tried(o, n).pc = "answer" => Tried(o, n).value = NoCallRecord
    BY <1>1, <2>3, TriedIsSound DEF CallInv, SoundUpdate
  <2> QED BY <1>1, <1>7, <2>1, <2>4, UpdateGoesOn
<1> QED BY <1>4, <1>5, <1>6, <1>7 DEF WriteCall

\* Requests that stay, or are dropped, are still sound.
LEMMA UpdatesRemain ==
  ASSUME UpdatesInv, RecordInv, RecordInv', Later,
         requests' = [o \in Operations |-> requests'[o]],
         \A o \in Operations : requests'[o] \in {requests[o], NoRequest}
  PROVE  UpdatesInv'
<1>1. \A o \in Operations : requests'[o] # NoRequest => SoundUpdate(o, requests'[o], remote)
  BY DEF UpdatesInv
<1>2. ASSUME NEW o \in Operations, NEW r, SoundUpdate(o, r, remote)
      PROVE  SoundUpdate(o, r, remote)'
  BY <1>2, UpdateStays
<1> QED BY <1>1, <1>2 DEF UpdatesInv

\* What other steps do not touch.
LEMMA CallWaits ==
  ASSUME CallInv, UNCHANGED <<now, voiceCall, dialed, remote>>
  PROVE  /\ RecordInv' /\ Later
         /\ UNCHANGED requests => UpdatesInv'
         /\ UNCHANGED workers => WorkersInv'
         /\ UNCHANGED leases => LeasesInv'
         /\ SameActivity => ReceiptInv'
         /\ SameActivity /\ UNCHANGED conversationGone => ActivityInv'
<1>1. RecordInv' /\ Later
  BY DEF CallInv, RecordInv, Recorded, Later
<1>2. UNCHANGED requests => UpdatesInv'
  BY <1>1, UpdatesRemain DEF CallInv, UpdatesInv
<1>3. UNCHANGED workers => WorkersInv'
  BY DEF CallInv, WorkersInv, Recorded
<1>4. SameActivity /\ UNCHANGED conversationGone => ActivityInv'
  BY DEF CallInv, ActivityInv, Recorded, SameActivity
<1> QED BY <1>1, <1>2, <1>3, <1>4, LeasesStay, ReceiptStays DEF CallInv

\* A worker goes elsewhere, without being about to create the call.
LEMMA WorkerMoves ==
  ASSUME WorkersInv, NEW w \in CallWorkers, NEW k \in CallWorker,
         workers' = [workers EXCEPT ![w] = k], k.pc # "begun", k.ref <= dialed,
         UNCHANGED <<voiceCall, dialed>>
  PROVE  WorkersInv'
BY DEF WorkersInv, Recorded

LEMMA AtWorkIs ==
  \A pc \in {"idle", "admitted", "begun", "dialed", "active", "stopped"} :
    AtWork(pc) \in CallWorker /\ AtWork(pc).pc = pc /\ AtWork(pc).ref = 0
BY DEF AtWork, CallWorker, References

-----------------------------------------------------------------------------
(* The steps of the workers and their leases *)

LEMMA AdmitKeepsCall ==
  ASSUME CallInv, NEW w \in CallWorkers, Admit(w)
  PROVE  CallInv'
<1>1. /\ UNCHANGED <<now, requests, leases, conversationGone>> /\ UNCHANGED <<dialed, remote>>
      /\ SameActivity /\ dialed \in 0..1 /\ WorkersInv
  BY DEF Admit, CallInv, RecordInv, SameProvider
<1>2. CASE UNCHANGED voiceCall
  <2>1. UNCHANGED workers \/ workers' = [workers EXCEPT ![w] = AtWork("admitted")]
    BY DEF Admit
  <2>2. WorkersInv'
    BY <1>1, <1>2, <2>1, AtWorkIs, WorkerMoves, CallWaits
  <2> QED BY <1>1, <1>2, <2>2, CallWaits DEF CallInv
<1>3. ASSUME voiceCall = NoCallRecord, ~conversationGone,
             voiceCall' = [status |-> "admitted", worker |-> w, started |-> FALSE, ref |-> 0,
                           expires |-> now + LeaseTime, version |-> 1]
      PROVE  CallInv'
  <2>1. dialed = 0 /\ remote = {} /\ now \in Nat /\ now + LeaseTime \in Nat
    BY <1>3, CallAssumption DEF CallInv, RecordInv, Recorded
  <2>2. voiceCall' \in CallRecord /\ Recorded' /\ ~Recorded
    <3> DEFINE expires == now + LeaseTime
    <3>1. voiceCall' = [status |-> "admitted", worker |-> w, started |-> FALSE, ref |-> 0,
                        expires |-> expires, version |-> 1]
      BY <1>3
    <3>2. expires \in Nat
      BY <2>1
    <3> HIDE DEF expires
    <3>3. voiceCall' \in CallRecord
      BY <3>1, <3>2 DEF CallRecord, Statuses, References
    <3> QED BY <1>3, <3>3, CallRecordAssumption DEF Recorded
  <2>3. RecordInv'
    BY <1>1, <1>3, <2>1, <2>2 DEF RecordInv
  <2>4. Later
    BY <1>1, <2>1, <2>2 DEF Later
  <2>5. UpdatesInv' /\ LeasesInv' /\ ReceiptInv'
    BY <1>1, <2>3, <2>4, UpdatesRemain, LeasesStay, ReceiptStays DEF CallInv, UpdatesInv
  <2>6. ActivityInv'
    BY <1>1, <1>3 DEF CallInv, ActivityInv, SameActivity
  <2>7. WorkersInv'
    <3>1. UNCHANGED workers \/ workers' = [workers EXCEPT ![w] = AtWork("admitted")]
      BY DEF Admit
    <3> QED BY <1>1, <2>1, <2>2, <3>1, AtWorkIs DEF WorkersInv
  <2> QED BY <2>3, <2>5, <2>6, <2>7 DEF CallInv
<1> QED BY <1>2, <1>3 DEF Admit

\* The worker that is about to create the call is the only one, and the first.
LEMMA DialKeeps ==
  ASSUME CallInv, NEW w \in CallWorkers, Dial(w)
  PROVE  CallInv'
<1>1. /\ UNCHANGED <<now, voiceCall, requests, leases, conversationGone>> /\ SameActivity
      /\ workers[w].pc = "begun" /\ WorkersInv
  BY DEF Dial, CallInv
<1>2. /\ Recorded /\ voiceCall.worker = w /\ voiceCall.started /\ voiceCall.status # "ended"
      /\ dialed = 0 /\ remote = {} /\ voiceCall \in CallRecord
  BY <1>1 DEF CallInv, WorkersInv, RecordInv, Recorded
<1>3. CASE Stops(w) /\ SameProvider
  <2>1. /\ AtWork("stopped") \in CallWorker /\ AtWork("stopped").pc = "stopped"
        /\ AtWork("stopped").ref <= dialed
    BY <1>2, AtWorkIs
  <2>2. workers' = [workers EXCEPT ![w] = AtWork("stopped")] /\ UNCHANGED <<voiceCall, dialed>>
    BY <1>1, <1>3 DEF Stops, SameProvider
  <2>3. WorkersInv'
    BY <1>1, <2>1, <2>2, WorkerMoves
  <2> QED BY <1>1, <1>3, <2>3, CallWaits DEF CallInv, SameProvider
<1>4. ASSUME dialed' = dialed + 1, remote' = remote \cup {dialed'},
             \/ workers' = [workers EXCEPT ![w] = [pc |-> "dialed", ref |-> dialed']]
             \/ Stops(w)
      PROVE  CallInv'
  <2>1. dialed' = 1 /\ remote' = {1}
    BY <1>2, <1>4
  <2>2. RecordInv'
    <3>1. voiceCall.ref = 0
      BY <1>2 DEF CallInv, RecordInv, CallRecord, References
    <3> QED BY <1>1, <1>2, <2>1, <3>1 DEF CallInv, RecordInv, Recorded
  <2>3. Later
    BY <1>1, <1>2, <2>1 DEF Later, CallInv, RecordInv, Recorded
  <2>4. UpdatesInv' /\ LeasesInv' /\ ReceiptInv'
    BY <1>1, <2>2, <2>3, UpdatesRemain, LeasesStay, ReceiptStays DEF CallInv, UpdatesInv
  <2>5. ActivityInv'
    BY <1>1 DEF CallInv, ActivityInv, Recorded, SameActivity
  <2>6. WorkersInv'
    <3>1. PICK k \in CallWorker :
            workers' = [workers EXCEPT ![w] = k] /\ k.ref <= 1 /\ k.pc # "begun"
      <4>1. [pc |-> "dialed", ref |-> 1] \in CallWorker
        BY DEF CallWorker, References
      <4> QED BY <1>4, <2>1, <4>1, AtWorkIs DEF Stops
    <3>2. /\ workers' \in [CallWorkers -> CallWorker]
          /\ \A x \in CallWorkers : workers'[x] = IF x = w THEN k ELSE workers[x]
      BY <1>1, <3>1 DEF WorkersInv
    <3>3. \A x \in CallWorkers : x # w => workers[x].pc # "begun" /\ workers[x].ref <= 0
      BY <1>1, <1>2 DEF WorkersInv
    <3>4. \A x \in CallWorkers : workers[x].ref \in Nat
      BY <1>1 DEF WorkersInv, CallWorker, References
    <3> QED BY <2>1, <3>1, <3>2, <3>3, <3>4 DEF WorkersInv
  <2> QED BY <2>2, <2>4, <2>5, <2>6 DEF CallInv
<1> QED BY <1>3, <1>4 DEF Dial

LEMMA CrashKeeps ==
  ASSUME CallInv, NEW w \in CallWorkers, WorkerCrashes(w)
  PROVE  CallInv'
<1>1. /\ UNCHANGED <<now, voiceCall, dialed, remote, conversationGone>> /\ SameActivity
      /\ workers' = [workers EXCEPT ![w] = AtWork("idle")]
      /\ leases' = [leases EXCEPT ![w] = NoLease]
      /\ requests' = [o \in Operations |->
           IF o \in {"begin", "attach", "renew"} /\ requests[o] # NoRequest /\ requests[o].by = w
           THEN NoRequest ELSE requests[o]]
  BY DEF WorkerCrashes, SameProvider
<1>2. UpdatesInv'
  <2>1. \A o \in Operations : requests'[o] \in {requests[o], NoRequest}
    BY <1>1
  <2> QED BY <1>1, <2>1, UpdatesRemain, CallWaits DEF CallInv
<1>3. WorkersInv'
  <2>1. 0 <= dialed
    BY DEF CallInv, RecordInv
  <2> QED BY <1>1, <2>1, AtWorkIs, WorkerMoves DEF CallInv
<1>4. LeasesInv'
  <2>1. NoLease \in [pc : {"none", "live", "closed"}, deadline : Nat] /\ NoLease.pc = "none"
    BY DEF NoLease
  <2> QED BY <1>1, <2>1 DEF CallInv, LeasesInv, Recorded
<1> QED BY <1>1, <1>2, <1>3, <1>4, CallWaits DEF CallInv

\* The lease is armed with what the record said, and the record says no less now.
LEMMA RenewedKeeps ==
  ASSUME CallInv, LeaseRenewed
  PROVE  CallInv'
<1> DEFINE r == requests["renew"]
           lease == Armed(leases[r.by], r.value)
<1>1. /\ UNCHANGED <<now, voiceCall, dialed, remote, workers, conversationGone>> /\ SameActivity
      /\ r # NoRequest /\ r.pc = "answer"
      /\ requests' = [requests EXCEPT !["renew"] = NoRequest]
      /\ leases' = [leases EXCEPT ![r.by] = lease]
  BY DEF LeaseRenewed, Answered, SameProvider
<1>2. SoundUpdate("renew", r, remote) /\ r.by \in CallWorkers
  BY <1>1 DEF CallInv, UpdatesInv, Operations, SoundUpdate
<1>3. LeasesInv
  BY DEF CallInv
<1>4. /\ lease \in [pc : {"none", "live", "closed"}, deadline : Nat]
      /\ lease.pc = "live" => Recorded /\ lease.deadline <= voiceCall.expires
  <2>1. leases[r.by] \in [pc : {"none", "live", "closed"}, deadline : Nat]
    BY <1>2, <1>3 DEF LeasesInv
  <2>2. CASE leases[r.by].pc = "closed"
    BY <2>1, <2>2 DEF Armed
  <2>3. CASE leases[r.by].pc # "closed" /\ (r.value = NoCallRecord \/ r.value.expires <= now)
    BY <2>1, <2>3 DEF Armed
  <2>4. CASE leases[r.by].pc # "closed" /\ ~(r.value = NoCallRecord \/ r.value.expires <= now)
    <3>1. /\ r.value \in CallRecord /\ Recorded /\ r.value.expires <= voiceCall.expires
          /\ r.value.expires \in Nat
      BY <1>1, <1>2, <2>4 DEF SoundUpdate, CallRequest, CallRecord
    <3>2. lease = [pc |-> "live", deadline |-> r.value.expires]
      BY <2>4 DEF Armed
    <3> QED BY <3>1, <3>2
  <2> QED BY <2>2, <2>3, <2>4
<1> HIDE DEF lease
<1>5. LeasesInv'
  BY <1>1, <1>2, <1>3, <1>4 DEF LeasesInv, Recorded
<1>6. UpdatesInv'
  <2>1. /\ requests' = [o \in Operations |-> requests'[o]]
        /\ \A o \in Operations : requests'[o] \in {requests[o], NoRequest}
    BY <1>1 DEF CallInv, UpdatesInv
  <2> QED BY <1>1, <2>1, UpdatesRemain, CallWaits DEF CallInv
<1> QED BY <1>1, <1>5, <1>6, CallWaits DEF CallInv

LEMMA LeaseClosesKeeps ==
  ASSUME CallInv, NEW w \in CallWorkers, LeaseCloses(w)
  PROVE  CallInv'
<1>1. /\ UNCHANGED <<now, voiceCall, dialed, remote, requests, workers, conversationGone>>
      /\ SameActivity /\ leases' = [leases EXCEPT ![w].pc = "closed"]
  BY DEF LeaseCloses, SameProvider
<1>2. LeasesInv'
  BY <1>1 DEF CallInv, LeasesInv, Recorded
<1> QED BY <1>1, <1>2, CallWaits DEF CallInv

LEMMA TickKeeps ==
  ASSUME CallInv, Tick
  PROVE  CallInv'
<1>1. /\ UNCHANGED <<voiceCall, requests, workers, leases, dialed, remote, conversationGone>>
      /\ SameActivity /\ now' = now + 1 /\ now \in Nat /\ LeaseTime \in Nat
  BY CallAssumption DEF Tick, CallInv, RecordInv, SameProvider
<1>2. RecordInv' /\ Later
  BY <1>1 DEF CallInv, RecordInv, Recorded, Later, CallRecord
<1>3. UpdatesInv' /\ LeasesInv' /\ ReceiptInv'
  BY <1>1, <1>2, UpdatesRemain, LeasesStay, ReceiptStays DEF CallInv, UpdatesInv
<1>4. WorkersInv' /\ ActivityInv'
  BY <1>1 DEF CallInv, WorkersInv, ActivityInv, Recorded, SameActivity
<1> QED BY <1>2, <1>3, <1>4 DEF CallInv

\* The confirmation of the hangup is prepared when the provider's call is gone.
LEMMA HangUpKeeps ==
  ASSUME CallInv, HangUp
  PROVE  CallInv'
<1> DEFINE value == requests["end"].value
           known == value # NoCallRecord /\ value.ref # 0
           confirm == Tried("confirm", First(NoRequest, value.ref))
<1>1. /\ UNCHANGED <<now, voiceCall, workers, leases, dialed, conversationGone>> /\ SameActivity
      /\ requests["end"] # NoRequest
      /\ remote' = IF known THEN remote \ {value.ref} ELSE remote
      /\ requests' = [requests EXCEPT !["end"] = NoRequest,
           !["confirm"] = IF known /\ Waits("confirm", confirm) THEN confirm ELSE requests["confirm"]]
  BY DEF HangUp, Answered
<1>2. SoundUpdate("end", requests["end"], remote)
  BY <1>1 DEF CallInv, UpdatesInv, Operations
<1>3. known => value \in CallRecord /\ value.ref \in Nat /\ value.ref <= dialed
  BY <1>2 DEF SoundUpdate, CallRequest, CallRecord, References
<1>4. ASSUME known
      PROVE  SoundUpdate("confirm", confirm, remote')
  <2> DEFINE r == First(NoRequest, value.ref)
  <2>1. r \in CallRequest /\ r.ref = value.ref
    BY <1>3, <1>4 DEF First, CallRequest, References
  <2>2. HungUp(r.ref, remote')
    BY <1>1, <1>4, <2>1 DEF HungUp
  <2> HIDE DEF r
  <2>3. SoundUpdate("confirm", Tried("confirm", r), remote')
    BY <1>3, <1>4, <2>1, <2>2, TriedIsSound DEF CallInv, Operations
  <2> QED BY <2>3 DEF r
<1>5. ASSUME NEW r, SoundUpdate("confirm", r, remote')
      PROVE  SoundUpdate("confirm", r, remote)'
  BY <1>1, <1>5 DEF SoundUpdate, Proposed, HungUp, Recorded
<1> HIDE DEF known, confirm
<1>6. RecordInv' /\ Later
  <2>1. remote' \subseteq remote
    BY <1>1
  <2>2. RecordInv /\ now' = now /\ voiceCall' = voiceCall /\ dialed' = dialed
    BY <1>1 DEF CallInv
  <2>3. now \in Nat /\ dialed \in Nat
    BY <2>2 DEF RecordInv
  <2>4. Later
    BY <2>1, <2>2, <2>3 DEF Recorded, Later
  <2>5. RecordInv'
    BY <2>1, <2>2 DEF RecordInv, Recorded
  <2> QED BY <2>4, <2>5
<1>7. UpdatesInv'
  <2>1. \A o \in Operations :
          requests'[o] \in {requests[o], NoRequest} \/ (o = "confirm" /\ known /\ requests'[o] = confirm)
    BY <1>1 DEF CallInv, UpdatesInv
  <2>2. requests' = [o \in Operations |-> requests'[o]]
    BY <1>1 DEF CallInv, UpdatesInv
  <2>3. ASSUME NEW o \in Operations, NEW r, SoundUpdate(o, r, remote)
        PROVE  SoundUpdate(o, r, remote)'
    BY <1>6, <2>3, UpdateStays DEF CallInv
  <2>4. ASSUME NEW o \in Operations, NEW r, r = requests'[o], r # NoRequest
        PROVE  SoundUpdate(o, r, remote)'
    BY <1>4, <1>5, <2>1, <2>3, <2>4 DEF CallInv, UpdatesInv
  <2> QED BY <2>2, <2>4 DEF UpdatesInv
<1>8. LeasesInv' /\ ReceiptInv'
  BY <1>1, <1>6, LeasesStay, ReceiptStays DEF CallInv
<1>9. WorkersInv' /\ ActivityInv'
  BY <1>1 DEF CallInv, WorkersInv, ActivityInv, Recorded, SameActivity
<1> QED BY <1>6, <1>7, <1>8, <1>9 DEF CallInv

-----------------------------------------------------------------------------
(* The tools, what is displayed of them, and the end *)

\* Count(), of the tools `f`.
CountIn(f, status) == Cardinality({t \in CallTools : f[t] \in status})

LEMMA CountGrows ==
  ASSUME NEW f, NEW g, NEW status, \A t \in CallTools : f[t] \in status => g[t] \in status
  PROVE  /\ CountIn(f, status) \in Nat /\ CountIn(g, status) \in Nat
         /\ CountIn(f, status) <= CountIn(g, status)
         /\ CountIn(g, status) <= Cardinality(CallTools) /\ Cardinality(CallTools) \in Nat
<1> DEFINE F == {t \in CallTools : f[t] \in status}
           G == {t \in CallTools : g[t] \in status}
<1>1. F \subseteq G /\ G \subseteq CallTools /\ IsFiniteSet(CallTools)
  BY CallAssumption
<1> HIDE DEF F, G
<1>2. IsFiniteSet(G) /\ Cardinality(G) <= Cardinality(CallTools)
  BY <1>1, FS_Subset
<1>3. IsFiniteSet(F) /\ Cardinality(F) <= Cardinality(G)
  BY <1>1, <1>2, FS_Subset
<1>4. Cardinality(F) \in Nat /\ Cardinality(G) \in Nat /\ Cardinality(CallTools) \in Nat
  BY <1>1, <1>2, <1>3, FS_CardinalityType
<1> QED BY <1>2, <1>3, <1>4 DEF CountIn, F, G

LEMMA CountsAre ==
  \A v \in Nat :
    /\ Counts(v) \in Token /\ Counts(v).version = v
    /\ Counts(v).total = Cardinality(CallTools) - CountIn(tools, {"none"})
    /\ Counts(v).completed = CountIn(tools, {"completed"})
    /\ Counts(v).failed = CountIn(tools, {"failed"})
<1>1. /\ CountIn(tools, {"none"}) \in Nat /\ CountIn(tools, {"none"}) <= Cardinality(CallTools)
      /\ Cardinality(CallTools) \in Nat
      /\ CountIn(tools, {"completed"}) \in Nat /\ CountIn(tools, {"failed"}) \in Nat
  BY CountGrows
<1>2. Cardinality(CallTools) - CountIn(tools, {"none"}) \in Nat
  BY <1>1
<1>3. \A status : Count(status) = CountIn(tools, status)
  BY DEF Count, CountIn
<1> HIDE DEF Count, CountIn
<1> QED BY <1>1, <1>2, <1>3 DEF Counts, Token

\* A tool goes on as it may: it is never forgotten, and settles once.
ToolsGoOn ==
  /\ tools' \in [CallTools -> {"none", "running", "waiting"} \cup Settled]
  /\ \A t \in CallTools :
       /\ tools'[t] = "none" => tools[t] = "none"
       /\ tools[t] \in Settled => tools'[t] = tools[t]

\* What is counted is never less than it was.
LEMMA CountsGrow ==
  ASSUME ToolsGoOn, NEW a \in Token, Covers(Counts(0), a)
  PROVE  Covers(Counts(0)', a)
<1> DEFINE none == CountIn(tools, {"none"})
           noneNow == CountIn(tools', {"none"})
<1>1. /\ none \in Nat /\ noneNow \in Nat /\ noneNow <= none
      /\ Cardinality(CallTools) \in Nat
  BY CountGrows DEF ToolsGoOn
<1>2. /\ CountIn(tools, {"completed"}) \in Nat /\ CountIn(tools', {"completed"}) \in Nat
      /\ CountIn(tools, {"completed"}) <= CountIn(tools', {"completed"})
  BY CountGrows DEF ToolsGoOn, Settled
<1>3. /\ CountIn(tools, {"failed"}) \in Nat /\ CountIn(tools', {"failed"}) \in Nat
      /\ CountIn(tools, {"failed"}) <= CountIn(tools', {"failed"})
  BY CountGrows DEF ToolsGoOn, Settled
<1>4. /\ Counts(0).total = Cardinality(CallTools) - none
      /\ Counts(0).completed = CountIn(tools, {"completed"})
      /\ Counts(0).failed = CountIn(tools, {"failed"})
  BY CountsAre
<1>5. /\ Counts(0)'.total = Cardinality(CallTools) - noneNow
      /\ Counts(0)'.completed = CountIn(tools', {"completed"})
      /\ Counts(0)'.failed = CountIn(tools', {"failed"})
  BY DEF Counts, Count, CountIn
<1> HIDE DEF none, noneNow
<1> QED BY <1>1, <1>2, <1>3, <1>4, <1>5 DEF Covers, Token

LEMMA ActivityKeeps ==
  ASSUME CallInv, SameCall, ToolsGoOn, UNCHANGED <<displayed, reading, receipt>>,
         \A t \in dispatchedTools' : t \in CallTools /\ tools'[t] \in {"running", "waiting"},
         ~conversationGone \/ tools' = tools
  PROVE  CallInv'
<1>1. UNCHANGED <<now, voiceCall, requests, workers, leases, dialed, remote, conversationGone>>
  BY DEF SameCall
<1>2. ActivityInv'
  BY <1>1 DEF CallInv, ActivityInv, ToolsGoOn, Recorded
<1>3. ReceiptInv'
  <2>1. \A a \in displayed : Covers(Counts(0)', a)
    BY CountsGrow DEF CallInv, ReceiptInv
  <2>2. /\ displayed' \subseteq Token /\ reading' \in Nat
        /\ \A a, b \in displayed' : Covers(a, b) \/ Covers(b, a)
        /\ receipt' \in displayed' \cup {NoReceiptYet}
    BY DEF CallInv, ReceiptInv, Covers
  <2>3. /\ \A a \in displayed' : Recorded' /\ a.version <= voiceCall'.version
        /\ reading' # 0 => Recorded' /\ reading' <= voiceCall'.version
    BY <1>1 DEF CallInv, ReceiptInv, Recorded
  <2>4. \A a \in displayed' : Covers(Counts(0), a)'
    BY <2>1 DEF Covers
  <2> QED BY <2>2, <2>3, <2>4 DEF ReceiptInv, Covers
<1> QED BY <1>1, <1>2, <1>3, CallWaits DEF CallInv

LEMMA ToolStartsKeeps ==
  ASSUME CallInv, NEW w \in CallWorkers, NEW t \in CallTools, ToolStarts(w, t)
  PROVE  CallInv'
<1>1. /\ tools' = [tools EXCEPT ![t] = "running"]
      /\ dispatchedTools' \subseteq dispatchedTools \cup {t}
      /\ SameCall /\ UNCHANGED <<displayed, reading, receipt>>
      /\ (tools[t] = "none" /\ ~conversationGone) \/ tools[t] = "running"
  <2>1. Recordable(t, "running") => tools[t] = "none" /\ ~conversationGone
    BY DEF Recordable, Settled
  <2>2. Recordable(t, "running") \/ tools[t] = "running"
    BY DEF ToolStarts
  <2>3. dispatchedTools' = dispatchedTools \cup {t} \/ UNCHANGED dispatchedTools
    BY DEF ToolStarts
  <2>4. /\ tools' = [tools EXCEPT ![t] = "running"]
        /\ SameCall /\ UNCHANGED <<displayed, reading, receipt>>
    BY DEF ToolStarts
  <2> QED BY <2>1, <2>2, <2>3, <2>4
<1>2. ActivityInv
  BY DEF CallInv
<1>3. ToolsGoOn
  BY <1>1, <1>2 DEF ActivityInv, ToolsGoOn, Settled
<1>4. ~conversationGone \/ tools' = tools
  BY <1>1, <1>2 DEF ActivityInv
<1>5. \A x \in dispatchedTools' : x \in CallTools /\ tools'[x] \in {"running", "waiting"}
  BY <1>1, <1>2 DEF ActivityInv
<1> QED BY <1>1, <1>3, <1>4, <1>5, ActivityKeeps

LEMMA ToolReportsKeeps ==
  ASSUME CallInv, NEW w \in CallWorkers, NEW t \in CallTools, NEW status \in {"waiting"} \cup Settled,
         ToolReports(w, t, status)
  PROVE  CallInv'
<1>1. /\ tools' = [tools EXCEPT ![t] = status]
      /\ dispatchedTools' = IF status \in Settled THEN dispatchedTools \ {t} ELSE dispatchedTools
      /\ SameCall /\ UNCHANGED <<displayed, reading, receipt>>
      /\ tools[t] \in {"running", "waiting"} /\ ~conversationGone
  BY DEF ToolReports, Recordable, Settled
<1>2. ActivityInv
  BY DEF CallInv
<1>3. ToolsGoOn
  BY <1>1, <1>2 DEF ActivityInv, ToolsGoOn, Settled
<1>4. \A x \in dispatchedTools' : x \in CallTools /\ tools'[x] \in {"running", "waiting"}
  BY <1>1, <1>2 DEF ActivityInv, Settled
<1> QED BY <1>1, <1>3, <1>4, ActivityKeeps

\* What is displayed now covers every earlier view.
LEMMA DisplayKeeps ==
  ASSUME CallInv, Display
  PROVE  CallInv'
<1>1. /\ SameCall /\ UNCHANGED <<tools, dispatchedTools, receipt>>
      /\ reading # 0 /\ reading' = 0 /\ displayed' = displayed \cup {Counts(reading)}
  BY DEF Display
<1>2. UNCHANGED <<now, voiceCall, requests, workers, leases, dialed, remote, conversationGone>>
  BY <1>1 DEF SameCall
<1>3. ReceiptInv /\ reading \in Nat
  BY DEF CallInv, ReceiptInv
<1>4. /\ Counts(reading) \in Token /\ Counts(reading).version = reading
      /\ Counts(reading).total = Counts(0).total
      /\ Counts(reading).completed = Counts(0).completed
      /\ Counts(reading).failed = Counts(0).failed
  BY <1>3, CountsAre
<1>5. \A a \in displayed : Covers(Counts(reading), a)
  BY <1>3, <1>4 DEF ReceiptInv, Covers
<1>6. Covers(Counts(reading), Counts(reading)) /\ Covers(Counts(0), Counts(reading))
  BY <1>4 DEF Covers, Token
<1>7. Counts(0)' = Counts(0)
  BY <1>1 DEF Counts, Count
<1> DEFINE seen == Counts(reading)
<1> HIDE DEF seen
<1>8. \A a \in displayed' : a \in displayed \/ a = seen
  BY <1>1 DEF seen
<1>9. ReceiptInv'
  <2>1. displayed' \subseteq Token /\ \A a, b \in displayed' : Covers(a, b) \/ Covers(b, a)
    BY <1>3, <1>4, <1>5, <1>6, <1>8 DEF ReceiptInv, seen
  <2>2. \A a \in displayed' : Covers(Counts(0), a) /\ Recorded /\ a.version <= voiceCall.version
    BY <1>1, <1>3, <1>4, <1>6, <1>8 DEF ReceiptInv, seen
  <2>3. receipt' \in displayed' \cup {NoReceiptYet}
    BY <1>1, <1>3 DEF ReceiptInv
  <2> QED BY <1>1, <1>2, <1>7, <2>1, <2>2, <2>3 DEF ReceiptInv, Recorded, Covers
<1>10. ActivityInv'
  BY <1>1, <1>2 DEF CallInv, ActivityInv, Recorded
<1> QED BY <1>2, <1>9, <1>10, CallWaits DEF CallInv

LEMMA ReadStateKeeps ==
  ASSUME CallInv, ReadState
  PROVE  CallInv'
<1>1. /\ UNCHANGED <<now, voiceCall, requests, workers, leases, dialed, remote, conversationGone>>
      /\ UNCHANGED <<tools, dispatchedTools, displayed, receipt>>
      /\ Recorded /\ reading' = voiceCall.version
  BY DEF ReadState, SameCall, CallEnded, Recorded
<1>2. voiceCall.version \in Nat
  BY <1>1 DEF CallInv, RecordInv, Recorded, CallRecord
<1>3. Counts(0)' = Counts(0)
  BY <1>1 DEF Counts, Count
<1>4. ReceiptInv' /\ ActivityInv'
  BY <1>1, <1>2, <1>3 DEF CallInv, ReceiptInv, ActivityInv, Recorded, Covers
<1> QED BY <1>1, <1>4, CallWaits DEF CallInv

\* Of two views of one version the larger one covers the other: together they are one
\* of them.
LEMMA MergedIs ==
  ASSUME NEW a \in Token, NEW b \in Token, a.version = b.version, Covers(a, b) \/ Covers(b, a)
  PROVE  Merged(a, b) \in {a, b}
<1>1. /\ a = [version |-> a.version, total |-> a.total, completed |-> a.completed, failed |-> a.failed]
      /\ b = [version |-> b.version, total |-> b.total, completed |-> b.completed, failed |-> b.failed]
      /\ a.total \in Nat /\ a.completed \in Nat /\ a.failed \in Nat
      /\ b.total \in Nat /\ b.completed \in Nat /\ b.failed \in Nat
  BY DEF Token
<1>2. \A m, n \in Nat : m >= n => Larger(m, n) = m /\ Larger(n, m) = m
  BY DEF Larger
<1>3. CASE Covers(a, b)
  <2>1. /\ Larger(a.total, b.total) = a.total /\ Larger(a.completed, b.completed) = a.completed
        /\ Larger(a.failed, b.failed) = a.failed
    BY <1>1, <1>2, <1>3 DEF Covers
  <2> QED BY <1>1, <2>1 DEF Merged
<1>4. CASE Covers(b, a)
  <2>1. /\ Larger(a.total, b.total) = b.total /\ Larger(a.completed, b.completed) = b.completed
        /\ Larger(a.failed, b.failed) = b.failed
    BY <1>1, <1>2, <1>4 DEF Covers
  <2> QED BY <1>1, <2>1 DEF Merged
<1> QED BY <1>3, <1>4

LEMMA MarkReadKeeps ==
  ASSUME CallInv, NEW token \in displayed, MarkRead(token)
  PROVE  CallInv'
<1>1. /\ UNCHANGED <<now, voiceCall, requests, workers, leases, dialed, remote, conversationGone>>
      /\ UNCHANGED <<tools, dispatchedTools, displayed, reading>>
      /\ receipt' = IF receipt # NoReceiptYet /\ receipt.version = token.version
                    THEN Merged(receipt, token) ELSE token
  BY DEF MarkRead, SameCall
<1>2. ReceiptInv
  BY DEF CallInv
<1>3. receipt' \in displayed
  <2>1. CASE receipt # NoReceiptYet /\ receipt.version = token.version
    BY <1>1, <1>2, <2>1, MergedIs DEF ReceiptInv
  <2> QED BY <1>1, <2>1
<1>4. Counts(0)' = Counts(0)
  BY <1>1 DEF Counts, Count
<1>5. ReceiptInv' /\ ActivityInv'
  BY <1>1, <1>2, <1>3, <1>4 DEF CallInv, ReceiptInv, ActivityInv, Recorded, Covers
<1> QED BY <1>1, <1>5, CallWaits DEF CallInv

LEMMA DeleteKeeps ==
  ASSUME CallInv, DeleteConversation
  PROVE  CallInv'
<1>1. /\ UNCHANGED <<now, voiceCall, requests, workers, leases, dialed, remote>>
      /\ UNCHANGED <<tools, dispatchedTools, displayed, reading>>
      /\ receipt' = NoReceiptYet
      /\ voiceCall # NoCallRecord => voiceCall.status = "ended"
      /\ \A t \in CallTools : tools[t] \in {"none"} \cup Settled
  BY DEF DeleteConversation, SameProvider
<1>2. Counts(0)' = Counts(0)
  BY <1>1 DEF Counts, Count
<1>3. ReceiptInv' /\ ActivityInv'
  BY <1>1, <1>2 DEF CallInv, ReceiptInv, ActivityInv, Recorded, Covers
<1> QED BY <1>1, <1>3, CallWaits DEF CallInv

-----------------------------------------------------------------------------
(* The theorems about a call *)

LEMMA InitCall == CallInit => CallInv
<1> SUFFICES ASSUME CallInit
             PROVE  CallInv
  OBVIOUS
<1>1. UpdatesInv /\ RecordInv /\ ActivityInv /\ ReceiptInv
  BY DEF CallInit, UpdatesInv, RecordInv, ActivityInv, ReceiptInv, Recorded
<1>2. WorkersInv
  BY AtWorkIs DEF CallInit, WorkersInv
<1>3. LeasesInv
  BY DEF CallInit, LeasesInv, NoLease
<1> QED BY <1>1, <1>2, <1>3 DEF CallInv

LEMMA StepKeepsCall ==
  ASSUME CallInv, [CallNext]_callVars
  PROVE  CallInv'
<1>1. CASE UNCHANGED callVars
  BY <1>1, CallWaits DEF callVars, SameActivity, CallInv
<1>2. ASSUME NEW w \in CallWorkers, BeginCreation(w) \/ AttachProviderCall(w) \/ RenewLease(w)
      PROVE  CallInv'
  <2>1. /\ workers[w].ref \in Nat /\ workers[w].ref <= dialed /\ 0 <= dialed
    BY DEF CallInv, WorkersInv, CallWorker, References, RecordInv
  <2>2. Asks("begin", w, 0) \/ Asks("attach", w, workers[w].ref) \/ Asks("renew", w, 0)
    BY <1>2 DEF BeginCreation, AttachProviderCall, RenewLease
  <2> QED BY <2>1, <2>2, AskKeeps DEF Operations
<1>3. CASE RequestEnd
  <2>1. Asks("end", NoRequest, 0) /\ 0 <= dialed
    BY <1>3 DEF RequestEnd, CallInv, RecordInv
  <2> QED BY <2>1, AskKeeps DEF Operations
<1>4. ASSUME NEW o \in Operations, WriteCall(o)
      PROVE  CallInv'
  BY <1>4, WriteKeeps
<1>5. ASSUME NEW w \in CallWorkers,
             Admit(w) \/ Dial(w) \/ WorkerCrashes(w) \/ LeaseCloses(w)
      PROVE  CallInv'
  BY <1>5, AdmitKeepsCall, DialKeeps, CrashKeeps, LeaseClosesKeeps
<1>6. ASSUME NEW w \in CallWorkers, NEW t \in CallTools,
             ToolStarts(w, t) \/ \E status \in {"waiting"} \cup Settled : ToolReports(w, t, status)
      PROVE  CallInv'
  BY <1>6, ToolStartsKeeps, ToolReportsKeeps
<1>7. CASE LeaseRenewed \/ HangUp \/ Tick \/ ReadState \/ Display \/ DeleteConversation
  BY <1>7, RenewedKeeps, HangUpKeeps, TickKeeps, ReadStateKeeps, DisplayKeeps, DeleteKeeps
<1>8. ASSUME NEW token \in displayed, MarkRead(token)
      PROVE  CallInv'
  BY <1>8, MarkReadKeeps
<1> QED BY <1>1, <1>2, <1>3, <1>4, <1>5, <1>6, <1>7, <1>8 DEF CallNext

\* Whoever restarts, retries, ends or loses an answer: the provider creates at most one
\* call, it is gone and nobody is about to create one when the record says ended, a
\* conversation is deleted only then and when every tool has returned, and a live lease
\* runs out no later than the record says.
THEOREM CallsAreAccounted == CallSpec => []CallIsAccounted
<1>1. CallInv => CallIsAccounted
  <2> SUFFICES ASSUME CallInv
               PROVE  CallIsAccounted
    OBVIOUS
  <2>1. dialed <= 1 /\ (~Recorded => remote = {})
    BY DEF CallInv, RecordInv
  <2>2. voiceCall # NoCallRecord /\ voiceCall.status = "ended" =>
          remote = {} /\ \A w \in CallWorkers : workers[w].pc # "begun"
    BY DEF CallInv, RecordInv, WorkersInv, Recorded
  <2>3. conversationGone => dispatchedTools = {}
    BY DEF CallInv, ActivityInv, Settled
  <2>4. conversationGone => remote = {}
    BY <2>1, <2>2 DEF CallInv, ActivityInv, Recorded
  <2> QED BY <2>1, <2>2, <2>3, <2>4 DEF CallInv, LeasesInv, CallIsAccounted
<1> QED BY <1>1, InitCall, StepKeepsCall, PTL DEF CallSpec

\* However old the tokens a call is marked as read with, and however often: it is shown as
\* read only if one view showed exactly the outcome that it has now.
THEOREM ReadsAreSeen == CallSpec => []ReadIsSeen
<1>1. CallInv => ReadIsSeen
  <2> SUFFICES ASSUME CallInv, CallEnded, Read
               PROVE  Counts(voiceCall.version) \in displayed
    BY DEF ReadIsSeen
  <2>1. receipt \in displayed /\ receipt \in Token /\ Recorded /\ receipt.version <= voiceCall.version
    BY DEF Read, CallInv, ReceiptInv
  <2>2. voiceCall.version \in Nat
    BY <2>1 DEF CallInv, RecordInv, Recorded, CallRecord
  <2> DEFINE counts == Counts(voiceCall.version)
  <2>3. /\ counts \in Token /\ counts.version = voiceCall.version /\ counts.total = Counts(0).total
        /\ counts.completed = Counts(0).completed /\ counts.failed = Counts(0).failed
    BY <2>2, CountsAre
  <2>4. Covers(Counts(0), receipt) /\ Covers(receipt, counts) /\ receipt.version >= voiceCall.version
    BY <2>1 DEF Read, CallInv, ReceiptInv
  <2> HIDE DEF counts
  <2>5. /\ receipt.version = counts.version /\ receipt.total = counts.total
        /\ receipt.completed = counts.completed /\ receipt.failed = counts.failed
    BY <2>1, <2>2, <2>3, <2>4 DEF Covers, Token
  <2>6. receipt = counts
    BY <2>1, <2>3, <2>5 DEF Token
  <2> QED BY <2>1, <2>6 DEF counts
<1> QED BY <1>1, InitCall, StepKeepsCall, PTL DEF CallSpec
=============================================================================
