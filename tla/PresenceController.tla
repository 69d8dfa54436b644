------------------------- MODULE PresenceController -------------------------
(***************************************************************************)
(* The presence of a local participant and what is known of the others     *)
(* (src/src/presence/controller.ts): a connection that publishes heartbeats*)
(* and typing by timers, and a subscription that is opened asynchronously  *)
(* and may be there only when the controller has moved on.                 *)
(*                                                                         *)
(* Of the clock only whether the participant has been active within        *)
(* idleMilliseconds is kept.  Records of others are told apart by the      *)
(* conversation that they come from.                                       *)
(***************************************************************************)
EXTENDS Naturals, Sequences, FiniteSets

CONSTANTS
  Conversations,
  NoPresence,
  MaxSubscriptions,  \* bound: calls of subscribePresence()
  MaxGenerations     \* bound: subscriptionGeneration when the conversation changes

ASSUME PresenceAssumption ==
  MaxSubscriptions \in Nat /\ MaxGenerations \in Nat /\ NoPresence \notin Conversations

VARIABLES
  presence,          \* the controller
  presenceFeeds      \* its calls of subscribePresence(), in order

presenceVars == <<presence, presenceFeeds>>

-----------------------------------------------------------------------------
(* Types *)

\* published: the record last given to publishPresence(); remote: conversations whose
\* records are in remoteRecords; installed: transportSubscription.
Presence ==
  [conversation : Conversations, connected : BOOLEAN, destroyed : BOOLEAN,
   state : {"offline", "active", "idle"}, recent : BOOLEAN,
   typingRequested : BOOLEAN, typingActive : BOOLEAN,
   timers : SUBSET {"heartbeat", "idle", "debounce", "refresh"},
   published : [conversation : Conversations, state : {"offline", "active", "idle"},
                typing : BOOLEAN] \cup {NoPresence},
   remote : SUBSET Conversations, generation : Nat, installed : 0..MaxSubscriptions]

\* reading: its updates are read; closed: close() was called.
Feed == [conversation : Conversations, generation : Nat,
         phase : {"opening", "reading", "ended"}, closed : BOOLEAN]

PresenceTypeOK ==
  /\ presence \in Presence
  /\ presenceFeeds \in Seq(Feed) /\ Len(presenceFeeds) <= MaxSubscriptions

PresenceInit ==
  /\ \E c \in Conversations :
       presence = [conversation |-> c, connected |-> FALSE, destroyed |-> FALSE,
                   state |-> "offline", recent |-> TRUE, typingRequested |-> FALSE,
                   typingActive |-> FALSE, timers |-> {}, published |-> NoPresence,
                   remote |-> {}, generation |-> 0, installed |-> 0]
  /\ presenceFeeds = <<>>

-----------------------------------------------------------------------------
(* The private methods, on a controller `p` *)

\* publishLocal(): when forced, or when there is something new.
PublishLocal(p, force, allowDisconnected) ==
  LET typing == p.state # "offline" /\ p.typingActive
      same == p.published # NoPresence /\ p.published.state = p.state
              /\ p.published.typing = typing IN
  IF p.destroyed \/ ~(p.connected \/ allowDisconnected) \/ (~force /\ same) THEN p
  ELSE [p EXCEPT !.published = [conversation |-> p.conversation, state |-> p.state,
                                typing |-> typing]]

\* scheduleHeartbeat(), scheduleIdle(), scheduleTypingStart() and scheduleTypingRefresh()
Schedule(p, timer) ==
  LET due == CASE timer = "debounce" -> p.typingRequested
               [] timer = "refresh" -> p.typingRequested /\ p.typingActive
               [] OTHER -> TRUE IN
  [p EXCEPT !.timers = IF p.connected /\ ~p.destroyed /\ due THEN @ \cup {timer} ELSE @ \ {timer}]

NotTyping(p) ==
  [p EXCEPT !.typingRequested = FALSE, !.typingActive = FALSE,
            !.timers = @ \ {"debounce", "refresh"}]

\* closeTransportSubscription(): a new generation, and the installed feed is closed.
CloseFeed(p) == [p EXCEPT !.generation = @ + 1, !.installed = 0]
FeedsClosed ==
  [i \in DOMAIN presenceFeeds |->
     IF i = presence.installed THEN [presenceFeeds[i] EXCEPT !.closed = TRUE]
     ELSE presenceFeeds[i]]

\* openTransportSubscription(), up to its first await.
Opening(p) == [conversation |-> p.conversation, generation |-> p.generation,
               phase |-> "opening", closed |-> FALSE]

Usable == ~presence.destroyed

-----------------------------------------------------------------------------
(* The operations *)

Connect ==
  LET p == [CloseFeed(presence) EXCEPT
              !.connected = TRUE, !.timers = @ \ {"heartbeat", "idle"},
              !.state = IF presence.connected THEN @
                        ELSE IF presence.recent THEN "active" ELSE "idle"]
      timed == Schedule(Schedule(PublishLocal(p, TRUE, FALSE), "heartbeat"), "idle") IN
  /\ Usable /\ Len(presenceFeeds) < MaxSubscriptions
  /\ presence' = IF p.typingRequested /\ ~p.typingActive THEN Schedule(timed, "debounce")
                 ELSE IF p.typingActive THEN Schedule(timed, "refresh") ELSE timed
  /\ presenceFeeds' = Append(FeedsClosed, Opening(p))

\* noteActivity()
Noted(p) ==
  LET active == [p EXCEPT !.recent = TRUE, !.state = IF p.connected THEN "active" ELSE @] IN
  Schedule(IF active.state # p.state THEN PublishLocal(active, FALSE, FALSE) ELSE active, "idle")

NoteActivity ==
  /\ Usable
  /\ presence' = IF presence.connected THEN Noted(presence) ELSE [presence EXCEPT !.recent = TRUE]
  /\ UNCHANGED presenceFeeds

SetTyping ==
  /\ Usable
  /\ presence' =
       IF ~presence.connected THEN [presence EXCEPT !.recent = TRUE]
       ELSE IF presence.typingRequested THEN Noted(presence)
       ELSE Schedule([Noted(presence) EXCEPT !.typingRequested = TRUE], "debounce")
  /\ UNCHANGED presenceFeeds

StopTyping ==
  /\ Usable
  /\ presence' = PublishLocal(NotTyping(presence), TRUE, FALSE)
  /\ UNCHANGED presenceFeeds

\* disconnect(): one record without typing, one that says offline.
Disconnected(p) ==
  LET quiet == PublishLocal([NotTyping(p) EXCEPT !.timers = {}], TRUE, FALSE) IN
  CloseFeed(PublishLocal([quiet EXCEPT !.connected = FALSE, !.state = "offline"], TRUE, TRUE))

Disconnect ==
  /\ Usable /\ presence.connected
  /\ presence' = Disconnected(presence)
  /\ presenceFeeds' = FeedsClosed

SwitchConversation(c) ==
  LET left == CloseFeed(PublishLocal([NotTyping(presence) EXCEPT !.timers = {}], TRUE, TRUE))
      there == [left EXCEPT !.conversation = c, !.remote = {}, !.published = NoPresence,
                            !.state = IF left.connected THEN "active" ELSE "offline",
                            !.recent = TRUE] IN
  /\ Usable /\ c # presence.conversation /\ presence.generation < MaxGenerations
  /\ IF presence.connected
     THEN /\ Len(presenceFeeds) < MaxSubscriptions
          /\ presence' = Schedule(Schedule(PublishLocal(there, TRUE, FALSE), "heartbeat"), "idle")
          /\ presenceFeeds' = Append(FeedsClosed, Opening(there))
     ELSE /\ presence' = there
          /\ presenceFeeds' = FeedsClosed

Destroy ==
  LET last == IF presence.connected THEN Disconnected(presence)
              ELSE PublishLocal([NotTyping(presence) EXCEPT !.state = "offline"], TRUE, TRUE) IN
  /\ Usable
  /\ presence' = [CloseFeed(last) EXCEPT !.destroyed = TRUE, !.timers = {}]
  /\ presenceFeeds' = FeedsClosed

-----------------------------------------------------------------------------
(* Timers *)

\* The callback of a timer, which has been removed from `p`.
Fired(p, timer) ==
  CASE timer = "heartbeat" -> Schedule(PublishLocal(p, TRUE, FALSE), "heartbeat")
    [] timer = "idle" ->
         IF p.recent THEN Schedule(p, "idle")
         ELSE PublishLocal([NotTyping(p) EXCEPT !.state = "idle"], FALSE, FALSE)
    [] timer = "debounce" ->
         IF ~p.typingRequested THEN p
         ELSE Schedule(PublishLocal([p EXCEPT !.typingActive = TRUE], FALSE, FALSE), "refresh")
    [] timer = "refresh" ->
         IF ~(p.typingRequested /\ p.typingActive) THEN p
         ELSE Schedule(PublishLocal(p, TRUE, FALSE), "refresh")

TimerFires(timer) ==
  LET p == [presence EXCEPT !.timers = @ \ {timer}] IN
  /\ timer \in presence.timers
  /\ presence' = IF p.connected /\ ~p.destroyed THEN Fired(p, timer) ELSE p
  /\ UNCHANGED presenceFeeds

\* idleMilliseconds pass without activity; expired records of others are dropped.
TimePasses ==
  /\ presence' \in {[presence EXCEPT !.recent = FALSE],
                    [presence EXCEPT !.remote = IF Usable THEN {} ELSE @]}
  /\ UNCHANGED presenceFeeds

-----------------------------------------------------------------------------
(* The subscription *)

\* Mutant: that the controller is connected is enough.
CurrentWhileConnected(feed) == Usable /\ presence.connected

\* The check after the await, and before an update is applied.
CurrentFeed(feed) ==
  Usable /\ presence.connected /\ feed.generation = presence.generation

\* subscribePresence() answers: with a subscription, which is installed or closed, or not.
FeedOpens(i) ==
  /\ presenceFeeds[i].phase = "opening"
  /\ \/ /\ CurrentFeed(presenceFeeds[i])
        /\ presence' = [presence EXCEPT !.installed = i]
        /\ presenceFeeds' = [presenceFeeds EXCEPT ![i].phase = "reading"]
     \/ /\ ~CurrentFeed(presenceFeeds[i])
        /\ presenceFeeds' = [presenceFeeds EXCEPT ![i].phase = "ended", ![i].closed = TRUE]
        /\ UNCHANGED presence
     \/ /\ presenceFeeds' = [presenceFeeds EXCEPT ![i].phase = "ended"]
        /\ UNCHANGED presence

\* An update arrives, even one that was on its way when the feed was closed.
FeedUpdates(i) ==
  /\ presenceFeeds[i].phase = "reading"
  /\ IF CurrentFeed(presenceFeeds[i])
     THEN /\ presence' = [presence EXCEPT !.remote = @ \cup {presenceFeeds[i].conversation}]
          /\ UNCHANGED presenceFeeds
     ELSE /\ presenceFeeds' = [presenceFeeds EXCEPT ![i].phase = "ended"]
          /\ UNCHANGED presence

\* The feed ends or fails.
FeedEnds(i) ==
  /\ presenceFeeds[i].phase = "reading"
  /\ presence' = IF presenceFeeds[i].generation = presence.generation
                 THEN [presence EXCEPT !.installed = 0] ELSE presence
  /\ presenceFeeds' = [presenceFeeds EXCEPT ![i].phase = "ended"]

PresenceNext ==
  \/ Connect \/ NoteActivity \/ SetTyping \/ StopTyping \/ Disconnect \/ Destroy \/ TimePasses
  \/ \E c \in Conversations : SwitchConversation(c)
  \/ \E timer \in {"heartbeat", "idle", "debounce", "refresh"} : TimerFires(timer)
  \/ \E i \in DOMAIN presenceFeeds : FeedOpens(i) \/ FeedUpdates(i) \/ FeedEnds(i)

PresenceSpec == PresenceInit /\ [][PresenceNext]_presenceVars

-----------------------------------------------------------------------------
(* Properties *)

\* Whatever was under way when the controller moved on: the records that it shows are of
\* its conversation, only the installed subscription is open, it is one of this connection,
\* and the others see the participant type only while typing was not stopped.
PresenceIsCurrent ==
  /\ presence.remote \subseteq {presence.conversation}
  /\ \A i \in DOMAIN presenceFeeds :
       presenceFeeds[i].phase = "reading" /\ ~presenceFeeds[i].closed =>
         /\ i = presence.installed /\ presence.connected /\ Usable
         /\ presenceFeeds[i].conversation = presence.conversation
  /\ presence.published # NoPresence /\ presence.published.typing =>
       presence.connected /\ presence.typingRequested
=============================================================================
