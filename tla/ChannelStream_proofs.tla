------------------------- MODULE ChannelStream_proofs -------------------------
(***************************************************************************)
(* Proofs about the page that follows a Channel, for every window size,    *)
(* every limit and every finite set of Messages and connections.           *)
(*                                                                         *)
(* The hub is used through its own theorems: every step of ChannelStream   *)
(* is a step of MessageHub, a step that leaves the hub alone, or the end   *)
(* of the process, which puts it back into an initial state; so HubInv of  *)
(* MessageHub_proofs holds here too.  StreamInv adds what holds along one  *)
(* connection, from the subscription over the handler and the wire to the  *)
(* page.                                                                   *)
(***************************************************************************)
EXTENDS ChannelStream, SequenceFacts, FiniteSetTheorems

HubTheorems == INSTANCE MessageHub_proofs

\* Cursors of the page's Channel, and the frames a handler writes.
PageCursors == [generation: Generations, channel: {Channel}, position: 0..MaxPosition]
ReadyFrames == [event: {"ready"}, id: PageCursors]
CreatedFrames == [event: {"message.created"}, id: PageCursors, message: Messages]
ControlFrames == {Resync, Revoked}
Frames == ReadyFrames \cup CreatedFrames \cup ControlFrames

Records == [position: Nat, messageID: Messages]
Handlers == [pc: Pcs, pending: Seq(Records)]
Wires == [stage: Stages, frames: Seq(Frames), lastID: PageCursors \cup {NoCursor}]
Sources == [state: {"connecting", "open", "failed", "closed"},
            conn: Subscriptions \cup {None}, last: PageCursors \cup {NoCursor}]
Pages == [status: {"connecting", "loading-history", "ready", "error"},
          initialReady: BOOLEAN, probed: BOOLEAN, probing: BOOLEAN,
          history: {"none", "asked", "read"},
          read: SUBSET Messages, buffer: SUBSET Messages, shown: SUBSET Messages]
Commands == {"idle", "committed", "announced", "ack lost", "crashed"}

\* Types: the handlers, the wire, the EventSource, the page and the store.
TypesOK ==
    /\ process \in {"up", "draining", "down"}
    /\ process = "draining" => generation < MaxRestarts
    /\ committed \subseteq Messages
    /\ command \in [Messages -> Commands]
    /\ access \in BOOLEAN
    /\ sealed \subseteq committed
    /\ handler \in [Subscriptions -> Handlers]
    /\ wire \in [Subscriptions -> Wires]
    /\ source \in Sources
    /\ page \in Pages
    /\ faults \in 0..MaxFaults

\* The reducer's states.
PageOK ==
    /\ page.initialReady <=> source.last # NoCursor
    /\ page.status \in {"connecting", "error"} =>
          /\ ~page.initialReady /\ page.history = "none"
          /\ page.read = {} /\ page.buffer = {} /\ page.shown = {}
    /\ page.status = "loading-history" =>
          /\ page.initialReady /\ page.history \in {"asked", "read"} /\ page.shown = {}
    /\ page.status = "ready" =>
          /\ page.initialReady /\ page.history = "none"
          /\ page.read = {} /\ page.buffer = {}
    /\ page.history # "read" => page.read = {}
    /\ page.status = "error" => source.state = "closed"
    /\ source.conn # None => source.state \in {"connecting", "open"}

\* Nothing is announced or on the page that was not committed, and nothing on the
\* page that the viewer may not see; nothing is sealed while access lasts.
StoreOK ==
    /\ \A m \in Messages : command[m] = "idle" <=> m \notin committed
    /\ \A c \in Channels : \A i \in DOMAIN log[c] : log[c][i] \in committed
    /\ PageHolds \subseteq committed \ (Hidden \cup sealed)
    /\ access => sealed = {}

\* Cursors belong to a generation and never point past what it announced.
CursorOK(id) ==
    /\ id.generation <= generation
    /\ id.generation = generation => id.position <= position[Channel]

\* While the page's history is settled, it holds the log up to its cursor.
Settled == page.status = "ready" \/ page.history = "read"
OnPage(j) == log[Channel][j] \in Hidden \cup PageHolds
PageCursorOK ==
    /\ source.last # NoCursor => CursorOK(source.last)
    /\ Settled /\ source.last.generation = generation =>
          \A j \in 1..source.last.position : OnPage(j)

\* A subscription, the goroutine that serves it and the connection it writes to
\* live and die together; the page has at most one connection, and only that one
\* holds frames.
ConnectionOf(s) ==
    /\ handler[s].pc # "none" <=> wire[s].stage \in {"stream", "cut"}
    /\ handler[s].pc # "none" <=> subs[s].open
    /\ subs[s].open => subs[s].channel = Channel
    /\ handler[s].pc \in {"authorize", "load"} <=> handler[s].pending # <<>>
    /\ source.conn = s <=> wire[s].stage \notin {"free", "cut"}
    /\ wire[s].stage \notin {"stream", "ended"} => wire[s].frames = <<>>
    /\ wire[s].stage = "request" => wire[s].lastID = source.last

\* What a handler holds was committed; what is on its way may also be seen.
SafeOf(s) ==
    /\ \A i \in DOMAIN handler[s].pending : handler[s].pending[i].messageID \in committed
    /\ \A i \in DOMAIN wire[s].frames :
          wire[s].frames[i].event = "message.created" =>
              wire[s].frames[i].message \in committed \ (Hidden \cup sealed)

\* A handler past its drain owes nothing it was not woken for.
WakeOf(s) ==
    handler[s].pc \in {"authorize", "load", "wait"}
    /\ (subs[s].position < position[Channel] \/ closed) => subs[s].wake

\* Along a connection positions only grow: from the cursor the page has, over the
\* frames on their way, to the records the handler holds and the subscription's own.
HasID(f) == f.event \in {"ready", "message.created"}

FrameOrder(s, i) ==
    /\ CursorOK(wire[s].frames[i].id)
    /\ wire[s].stage = "stream" => /\ wire[s].frames[i].id.generation = generation
                                   /\ wire[s].frames[i].id.position <= subs[s].position
    /\ source.last # NoCursor => wire[s].frames[i].id.generation = source.last.generation
    /\ wire[s].frames[i].event = "ready" =>
          i = 1 /\ (source.last # NoCursor => wire[s].frames[i].id = source.last)
    /\ wire[s].frames[i].event = "message.created" /\ source.last # NoCursor =>
          source.last.position < wire[s].frames[i].id.position
    /\ \A k \in DOMAIN wire[s].frames : i < k /\ HasID(wire[s].frames[k]) =>
          /\ wire[s].frames[i].id.generation = wire[s].frames[k].id.generation
          /\ wire[s].frames[i].id.position < wire[s].frames[k].id.position
PendingOrder(s, i) ==
    /\ handler[s].pending[i].position <= subs[s].position
    /\ source.last # NoCursor => source.last.position < handler[s].pending[i].position
    /\ \A k \in DOMAIN wire[s].frames : HasID(wire[s].frames[k]) =>
          wire[s].frames[k].id.position < handler[s].pending[i].position
    /\ \A k \in DOMAIN handler[s].pending : i < k =>
          handler[s].pending[i].position < handler[s].pending[k].position
CursorOrder(s) ==
    source.last # NoCursor => /\ source.last.generation = generation
                              /\ source.last.position <= subs[s].position
OrderOf(s) ==
    /\ \A i \in DOMAIN wire[s].frames : HasID(wire[s].frames[i]) => FrameOrder(s, i)
    /\ wire[s].stage = "stream" =>
          CursorOrder(s) /\ \A i \in DOMAIN handler[s].pending : PendingOrder(s, i)

\* What the page holds and what is on its way to it cover the log: up to each
\* frame, up to each record the handler holds, up to the subscription.
InFrames(s, n, j) ==
    \E k \in 1..n : /\ wire[s].frames[k].event = "message.created"
                    /\ wire[s].frames[k].message = log[Channel][j]
InPending(s, n, j) == \E k \in 1..n : handler[s].pending[k].messageID = log[Channel][j]
FrameCover(s, i) == \A j \in 1..wire[s].frames[i].id.position : OnPage(j) \/ InFrames(s, i, j)
PendingCover(s, i) ==
    \A j \in 1..handler[s].pending[i].position :
        OnPage(j) \/ InFrames(s, Len(wire[s].frames), j) \/ InPending(s, i, j)
SubscriptionCover(s) ==
    \A j \in 1..subs[s].position :
        OnPage(j) \/ InFrames(s, Len(wire[s].frames), j) \/ InPending(s, Len(handler[s].pending), j)
CoverOf(s) ==
    Settled =>
        /\ \A i \in DOMAIN wire[s].frames :
              HasID(wire[s].frames[i]) /\ wire[s].frames[i].id.generation = generation =>
                  FrameCover(s, i)
        /\ wire[s].stage = "stream" =>
              SubscriptionCover(s) /\ \A i \in DOMAIN handler[s].pending : PendingCover(s, i)

StreamOf(s) == ConnectionOf(s) /\ SafeOf(s) /\ WakeOf(s) /\ OrderOf(s) /\ CoverOf(s)

StreamInv ==
    /\ HubTheorems!HubInv
    /\ TypesOK /\ PageOK /\ StoreOK /\ PageCursorOK
    /\ \A s \in Subscriptions : StreamOf(s)

-----------------------------------------------------------------------------
(* The hub's theorems. *)

\* What NewHub requires holds here.
LEMMA HubAssumptions == HubTheorems!LimitsAssumption /\ HubTheorems!UniverseAssumption
<1>1. HubTheorems!LimitsAssumption
  BY StreamAssumption DEF HubTheorems!LimitsAssumption
<1>2. HubTheorems!UniverseAssumption
  BY StreamAssumption, FS_CardinalityType
  DEF HubTheorems!UniverseAssumption, MaxPosition, HubTheorems!IsFiniteSet, IsFiniteSet
<1> QED BY <1>1, <1>2

LEMMA ChannelIsOne == Channel \in Channels /\ Viewer \in Users /\ MaxPosition \in Nat
BY StreamAssumption, FS_CardinalityType DEF Channel, Viewer, MaxPosition

\* The operators of the two instances are the same.
LEMMA SameUnseen ==
    ASSUME NEW r, NEW p
    PROVE  Hub!Unseen(r, p) = HubTheorems!Unseen(r, p)
BY DEF Hub!Unseen, HubTheorems!Unseen, Hub!Cardinality, HubTheorems!Cardinality

LEMMA SameNotify ==
    ASSUME NEW m \in Messages, Hub!NotifyMessageCreated(Channel, m)
    PROVE  HubTheorems!Next
<1>1. HubTheorems!NotifyMessageCreated(Channel, m)
  BY DEF Hub!NotifyMessageCreated, HubTheorems!NotifyMessageCreated, Hub!Woken, HubTheorems!Woken,
         Hub!TrimToLimit, HubTheorems!TrimToLimit, Hub!counters, HubTheorems!counters
<1> QED BY <1>1, ChannelIsOne DEF HubTheorems!Next

LEMMA SameSubscribe ==
    ASSUME NEW s \in Subscriptions, NEW cursor \in PageCursors \cup {NoCursor},
           Hub!Subscribe(s, Channel, Viewer, cursor)
    PROVE  HubTheorems!Next
<1>1. HubTheorems!Subscribe(s, Channel, Viewer, cursor)
  BY DEF Hub!Subscribe, HubTheorems!Subscribe, Hub!CanResume, HubTheorems!CanResume,
         Hub!HasCapacity, HubTheorems!HasCapacity, Hub!StartPosition, HubTheorems!StartPosition,
         Hub!ReplayUnavailable, HubTheorems!ReplayUnavailable
<1>2. cursor \in HubTheorems!Cursors
  BY ChannelIsOne DEF HubTheorems!Cursors, PageCursors
<1> QED BY <1>1, <1>2, ChannelIsOne DEF HubTheorems!Next

LEMMA SameDrain ==
    ASSUME NEW s \in Subscriptions, Hub!Drain(s)
    PROVE  HubTheorems!Next
<1>1. Hub!DrainedRecords(s) = HubTheorems!DrainedRecords(s)
  BY SameUnseen DEF Hub!DrainedRecords, HubTheorems!DrainedRecords
<1>2. HubTheorems!Drain(s)
  BY <1>1 DEF Hub!Drain, HubTheorems!Drain, Hub!ReplayUnavailable, HubTheorems!ReplayUnavailable,
              Hub!counters, HubTheorems!counters
<1> QED BY <1>2 DEF HubTheorems!Next

LEMMA SameClose ==
    ASSUME NEW s \in Subscriptions, Hub!Close(s)
    PROVE  HubTheorems!Next
<1>1. HubTheorems!Close(s)
  BY DEF Hub!Close, HubTheorems!Close, Hub!Unused, HubTheorems!Unused
<1> QED BY <1>1 DEF HubTheorems!Next

LEMMA SameWake ==
    ASSUME NEW s \in Subscriptions, Hub!ReceiveWake(s)
    PROVE  HubTheorems!Next
<1>1. HubTheorems!ReceiveWake(s)
  BY DEF Hub!ReceiveWake, HubTheorems!ReceiveWake, Hub!counters, HubTheorems!counters
<1> QED BY <1>1 DEF HubTheorems!Next

LEMMA SameShutdown ==
    ASSUME Hub!Shutdown
    PROVE  HubTheorems!Next
<1>1. HubTheorems!Shutdown
  BY DEF Hub!Shutdown, HubTheorems!Shutdown, Hub!counters, HubTheorems!counters
<1> QED BY <1>1 DEF HubTheorems!Next

LEMMA HubStarts ==
    ASSUME Hub!Init
    PROVE  HubTheorems!HubInv
<1>1. HubTheorems!Init
  BY DEF Hub!Init, HubTheorems!Init, Hub!Unused, HubTheorems!Unused
<1> QED BY <1>1, HubAssumptions, HubTheorems!InitEstablishesHubInv

\* A new process starts with an empty hub of the next generation.
LEMMA HubRestarts ==
    ASSUME HubTheorems!HubInv, TypesOK, Stop
    PROVE  HubTheorems!HubInv'
<1>1. generation' \in Generations
  BY StreamAssumption DEF Stop, TypesOK, HubTheorems!HubInv, HubTheorems!TypeOK, Generations
<1>2. HubTheorems!Init'
  BY <1>1 DEF Stop, HubTheorems!Init, HubTheorems!Unused, Hub!Unused
<1>3. HubTheorems!Init' => HubTheorems!HubInv'
  BY HubAssumptions, HubTheorems!InitEstablishesHubInv, PTL
<1> QED BY <1>2, <1>3

\* What the rest of the proof uses of the hub.
LEMMA HubFacts ==
    ASSUME HubTheorems!HubInv
    PROVE  /\ generation \in Nat /\ generation <= MaxRestarts
           /\ position \in [Channels -> 0..MaxPosition]
           /\ subs \in [Subscriptions -> [open: BOOLEAN, channel: Channels, user: Users,
                                          position: Nat, wake: BOOLEAN]]
           /\ closed \in BOOLEAN
           /\ log \in [Channels -> Seq(Messages)]
           /\ \A c \in Channels : Len(log[c]) = position[c]
           /\ \A s \in Subscriptions : subs[s].open => subs[s].position <= position[subs[s].channel]
BY StreamAssumption
DEF HubTheorems!HubInv, HubTheorems!TypeOK, HubTheorems!WindowIsNewestLog, HubTheorems!DrainedIsUnbroken,
    HubTheorems!Subscription, Generations

\* Drain returns the records after the subscription's position, each with the
\* Message the log has there.
LEMMA HubDrains ==
    ASSUME HubTheorems!HubInv, NEW s \in Subscriptions, subs[s].open, subs[s].channel = Channel,
           ~Hub!ReplayUnavailable(Channel, subs[s].position)
    PROVE  LET r == Hub!DrainedRecords(s)
               p == subs[s].position
               n == position[Channel] - p
           IN  /\ r \in Seq(Records) /\ Len(r) = n /\ DOMAIN r = 1..n
               /\ \A i \in 1..n : /\ r[i].position = p + i
                                  /\ r[i].messageID = log[Channel][p + i]
<1> DEFINE p == subs[s].position
           n == position[Channel] - p
           e == HubTheorems!Unseen(records[Channel], p)
<1>1. Hub!DrainedRecords(s) = e
  BY SameUnseen DEF Hub!DrainedRecords
<1>2. p \in 0..position[Channel]
  BY HubFacts, ChannelIsOne
<1>3. ~HubTheorems!ReplayUnavailable(Channel, p)
  BY DEF Hub!ReplayUnavailable, HubTheorems!ReplayUnavailable
<1>4. HubTheorems!TypeOK /\ HubTheorems!WindowIsNewestLog
  BY DEF HubTheorems!HubInv
<1>5. /\ e \in Seq(HubTheorems!Record) /\ Len(e) = n
      /\ \A i \in 1..n : e[i].position = p + i /\ e[i].messageID = log[Channel][p + i]
  <2>1. Channel \in Channels /\ p \in 0..position[Channel]
    BY <1>2, ChannelIsOne
  <2> HIDE DEF p
  <2> QED BY <1>3, <1>4, <2>1, HubAssumptions, HubTheorems!WindowHoldsTheRest
<1>6. HubTheorems!Record = Records
  BY DEF HubTheorems!Record, Records
<1>7. DOMAIN e = 1..n
  BY <1>5
<1> HIDE DEF p, n, e
<1>8. /\ e \in Seq(Records) /\ Len(e) = n /\ DOMAIN e = 1..n
      /\ \A i \in 1..n : e[i].position = p + i /\ e[i].messageID = log[Channel][p + i]
  BY <1>5, <1>6, <1>7
<1> QED BY <1>1, <1>8 DEF p, n, e

\* Every step keeps the hub's invariant.
LEMMA HubStep ==
    ASSUME HubTheorems!HubInv, TypesOK, [Next]_vars
    PROVE  HubTheorems!HubInv'
<1> DEFINE Goal == HubTheorems!HubInv'
<1> SUFFICES Goal OBVIOUS
<1>1. ASSUME HubTheorems!Next \/ UNCHANGED hubVars PROVE Goal
  BY <1>1, HubAssumptions, HubTheorems!HubInvStep DEF hubVars, HubTheorems!hubVars
<1>2. ASSUME NEW s \in Subscriptions, NEW frames, Return(s, frames) PROVE Goal
  BY <1>1, <1>2, SameClose DEF Return
<1> HIDE DEF Goal
<1>3. ASSUME NEW m \in Messages, Commit(m) \/ Announce(m) \/ LoseAck(m) PROVE Goal
  BY <1>1, <1>3, SameNotify DEF Commit, Announce, LoseAck
<1>4. ASSUME NEW s \in Subscriptions,
             \/ RefuseRequest(s) \/ ResyncRequest(s) \/ ProxyRefuses(s) \/ ConnectionLost(s)
      PROVE  Goal
  BY <1>1, <1>4 DEF RefuseRequest, ResyncRequest, ProxyRefuses, ConnectionLost
<1>5. ASSUME NEW s \in Subscriptions, AcceptRequest(s) PROVE Goal
  <2>1. wire[s].lastID \in PageCursors \cup {NoCursor}
    BY DEF TypesOK, Wires
  <2> QED BY <1>1, <1>5, <2>1, SameSubscribe DEF AcceptRequest
<1>6. ASSUME NEW s \in Subscriptions, DrainHub(s) PROVE Goal
  BY <1>1, <1>6, SameDrain DEF DrainHub
<1>7. ASSUME NEW s \in Subscriptions,
             \/ DrainFails(s) \/ AuthorizeEvent(s) \/ LoadEvent(s) \/ Heartbeat(s)
             \/ ClientGone(s) \/ ReadFails(s)
      PROVE  Goal
  BY <1>1, <1>2, <1>7 DEF DrainFails, AuthorizeEvent, LoadEvent, Heartbeat, ClientGone, ReadFails
<1>8. ASSUME NEW s \in Subscriptions, ReceiveWake(s) PROVE Goal
  BY <1>1, <1>8, SameWake DEF ReceiveWake
<1>9. ASSUME Withdraw \/ Restart PROVE Goal
  BY <1>1, <1>9 DEF Withdraw, Restart
<1>10. ASSUME Signal PROVE Goal
  BY <1>1, <1>10, SameShutdown DEF Signal
<1>11. ASSUME Stop PROVE Goal
  BY <1>11, HubRestarts DEF Goal
<1>12. ASSUME Follow \/ ProbeAnswers PROVE Goal
  BY <1>1, <1>12
  DEF Follow, ProbeAnswers, OpenConnection, OnReady, OnMessageCreated, OnResyncRequired, OnAccessRevoked,
      StreamEnds, OnRefused, ReadHistory, HistoryFails, HistoryArrives
<1>13. ASSUME UNCHANGED vars PROVE Goal
  BY <1>1, <1>13 DEF vars
<1> QED
  BY <1>3, <1>4, <1>5, <1>6, <1>7, <1>8, <1>9, <1>10, <1>11, <1>12, <1>13 DEF Next, Serve

-----------------------------------------------------------------------------
(* Frames and sequences. *)

LEMMA OneMore ==
    ASSUME NEW S, NEW f \in Seq(S), NEW x \in S
    PROVE  LET g == f \o <<x>>
           IN  /\ g \in Seq(S) /\ Len(g) = Len(f) + 1 /\ DOMAIN g = 1..(Len(f) + 1)
               /\ Len(f) \in Nat /\ DOMAIN f = 1..Len(f)
               /\ \A i \in 1..Len(f) : g[i] = f[i]
               /\ g[Len(f) + 1] = x
OBVIOUS

LEMMA OneLess ==
    ASSUME NEW S, NEW f \in Seq(S), f # <<>>
    PROVE  LET g == Tail(f)
           IN  /\ g \in Seq(S) /\ Len(g) = Len(f) - 1 /\ DOMAIN g = 1..(Len(f) - 1)
               /\ Len(f) \in Nat /\ Len(f) >= 1 /\ DOMAIN f = 1..Len(f)
               /\ \A i \in 1..(Len(f) - 1) : g[i] = f[i + 1]
               /\ Head(f) = f[1] /\ f[1] \in S
OBVIOUS

LEMMA Single ==
    ASSUME NEW S, NEW x \in S
    PROVE  <<x>> \in Seq(S) /\ Len(<<x>>) = 1 /\ DOMAIN <<x>> = 1..1 /\ <<x>>[1] = x
OBVIOUS

LEMMA FrameTypes ==
    ASSUME NEW f \in Frames
    PROVE  /\ HasID(f) => /\ f.id \in PageCursors
                          /\ f.id.generation \in Nat /\ f.id.position \in Nat
           /\ f.event = "message.created" => f.message \in Messages
           /\ f.event \in {"ready", "message.created", "resync-required", "access-revoked"}
<1>1. CASE f \in ReadyFrames
  BY <1>1, ChannelIsOne, StreamAssumption DEF ReadyFrames, HasID, PageCursors, Generations
<1>2. CASE f \in CreatedFrames
  BY <1>2, ChannelIsOne, StreamAssumption DEF CreatedFrames, HasID, PageCursors, Generations
<1>3. CASE f \in ControlFrames
  BY <1>3 DEF ControlFrames, HasID, Resync, Revoked
<1> QED BY <1>1, <1>2, <1>3 DEF Frames

LEMMA ControlTypes ==
    ASSUME NEW f \in ControlFrames
    PROVE  f \in Frames /\ ~HasID(f) /\ f.event # "message.created"
BY DEF ControlFrames, Frames, Resync, Revoked, HasID

LEMMA ReadyTypes ==
    ASSUME HubTheorems!HubInv, NEW p \in 0..MaxPosition
    PROVE  /\ Ready(p) \in Frames /\ HasID(Ready(p)) /\ Ready(p).event = "ready"
           /\ Ready(p).id = [generation |-> generation, channel |-> Channel, position |-> p]
BY HubFacts DEF Ready, Cursor, Frames, ReadyFrames, PageCursors, HasID, Generations

LEMMA CreatedTypes ==
    ASSUME HubTheorems!HubInv, NEW p \in 0..MaxPosition, NEW m \in Messages
    PROVE  /\ Created(p, m) \in Frames /\ HasID(Created(p, m))
           /\ Created(p, m).event = "message.created" /\ Created(p, m).message = m
           /\ Created(p, m).id = [generation |-> generation, channel |-> Channel, position |-> p]
BY HubFacts DEF Created, Cursor, Frames, CreatedFrames, PageCursors, HasID, Generations

LEMMA CursorTypes ==
    ASSUME NEW c \in PageCursors
    PROVE  c # NoCursor /\ c.generation \in Nat /\ c.position \in Nat /\ c.channel = Channel
BY ChannelIsOne, StreamAssumption DEF PageCursors, Generations

LEMMA Typing ==
    ASSUME TypesOK, NEW s \in Subscriptions
    PROVE  LET f == wire[s].frames
               r == handler[s].pending
           IN  /\ f \in Seq(Frames) /\ Len(f) \in Nat /\ DOMAIN f = 1..Len(f)
               /\ \A i \in DOMAIN f : f[i] \in Frames
               /\ r \in Seq(Records) /\ Len(r) \in Nat /\ DOMAIN r = 1..Len(r)
               /\ \A i \in DOMAIN r : /\ r[i] \in Records
                                      /\ r[i].position \in Nat /\ r[i].messageID \in Messages
               /\ handler[s] \in Handlers /\ handler[s].pc \in Pcs
               /\ wire[s] \in Wires /\ wire[s].stage \in Stages
               /\ wire[s].lastID \in PageCursors \cup {NoCursor}
<1> DEFINE f == wire[s].frames
           r == handler[s].pending
<1>1. handler[s] \in Handlers /\ wire[s] \in Wires
  BY DEF TypesOK
<1>2. /\ f \in Seq(Frames) /\ r \in Seq(Records) /\ handler[s].pc \in Pcs
      /\ wire[s].stage \in Stages /\ wire[s].lastID \in PageCursors \cup {NoCursor}
  BY <1>1 DEF Handlers, Wires
<1> HIDE DEF f, r
<1>3. /\ Len(f) \in Nat /\ DOMAIN f = 1..Len(f) /\ \A i \in DOMAIN f : f[i] \in Frames
      /\ Len(r) \in Nat /\ DOMAIN r = 1..Len(r) /\ \A i \in DOMAIN r : r[i] \in Records
  BY <1>2
<1>4. \A x \in Records : x.position \in Nat /\ x.messageID \in Messages
  BY DEF Records
<1> QED BY <1>1, <1>2, <1>3, <1>4 DEF f, r

-----------------------------------------------------------------------------
(* What a step leaves alone. *)

LEMMA ConnectionKept ==
    ASSUME NEW s \in Subscriptions, ConnectionOf(s),
           wire'[s] = wire[s], handler'[s] = handler[s],
           subs'[s].open = subs[s].open, subs'[s].channel = subs[s].channel,
           source'.conn = source.conn, source'.last = source.last
    PROVE  ConnectionOf(s)'
BY DEF ConnectionOf

LEMMA SafeKept ==
    ASSUME NEW s \in Subscriptions, SafeOf(s),
           wire'[s] = wire[s], handler'[s].pending = handler[s].pending,
           committed \subseteq committed', sealed' \cap committed \subseteq sealed
    PROVE  SafeOf(s)'
BY DEF SafeOf

LEMMA WakeKept ==
    ASSUME NEW s \in Subscriptions, WakeOf(s),
           handler'[s] = handler[s], subs'[s].position = subs[s].position,
           \/ subs'[s].wake
           \/ subs'[s].wake = subs[s].wake /\ position'[Channel] = position[Channel] /\ closed' = closed
    PROVE  WakeOf(s)'
BY DEF WakeOf

LEMMA OrderKept ==
    ASSUME HubTheorems!HubInv, TypesOK, NEW s \in Subscriptions, OrderOf(s),
           wire'[s] = wire[s], handler'[s].pending = handler[s].pending, subs'[s].position = subs[s].position,
           source'.last = source.last, generation' = generation,
           position'[Channel] \in Nat, position[Channel] <= position'[Channel]
    PROVE  OrderOf(s)'
<1>1. position[Channel] \in Nat
  BY HubFacts, ChannelIsOne
<1>2. \A i \in DOMAIN wire[s].frames : wire[s].frames[i] \in Frames
  BY DEF TypesOK, Wires
<1>3. ASSUME NEW i \in DOMAIN wire[s].frames, HasID(wire[s].frames[i]), FrameOrder(s, i)
      PROVE  FrameOrder(s, i)'
  <2>1. wire[s].frames[i].id.position \in Nat
    BY <1>2, <1>3, FrameTypes
  <2>2. CursorOK(wire[s].frames[i].id)'
    BY <1>1, <1>3, <2>1 DEF FrameOrder, CursorOK
  <2> QED BY <1>3, <2>2 DEF FrameOrder, HasID
<1>4. ASSUME NEW i \in DOMAIN handler[s].pending, PendingOrder(s, i)
      PROVE  PendingOrder(s, i)'
  BY <1>4 DEF PendingOrder, HasID
<1>5. CursorOrder(s) => CursorOrder(s)'
  BY DEF CursorOrder
<1> QED BY <1>3, <1>4, <1>5 DEF OrderOf, HasID

\* The page's cover survives a longer log and a page that holds more.
LEMMA CoverKept ==
    ASSUME HubTheorems!HubInv, TypesOK, NEW s \in Subscriptions, CoverOf(s), OrderOf(s), ConnectionOf(s),
           wire'[s] = wire[s], handler'[s].pending = handler[s].pending, subs'[s].position = subs[s].position,
           generation' = generation, Settled' => Settled, PageHolds \subseteq PageHolds',
           \A j \in 1..position[Channel] : log'[Channel][j] = log[Channel][j]
    PROVE  CoverOf(s)'
<1> SUFFICES ASSUME Settled' PROVE CoverOf(s)'
  BY DEF CoverOf
<1>1. position[Channel] \in Nat /\ subs[s].position \in Nat
  BY HubFacts, ChannelIsOne
<1>2. \A i \in DOMAIN wire[s].frames : wire[s].frames[i] \in Frames
  BY DEF TypesOK, Wires
<1>3. \A i \in DOMAIN handler[s].pending : handler[s].pending[i].position \in Nat
  BY Typing
<1>4. \A j \in 1..position[Channel] :
         /\ OnPage(j) => OnPage(j)'
         /\ \A n \in Nat : InFrames(s, n, j) => InFrames(s, n, j)'
         /\ \A n \in Nat : InPending(s, n, j) => InPending(s, n, j)'
  BY DEF OnPage, InFrames, InPending
<1>5. ASSUME NEW i \in DOMAIN wire[s].frames, HasID(wire[s].frames[i]),
             wire[s].frames[i].id.generation = generation, FrameCover(s, i)
      PROVE  FrameCover(s, i)'
  <2>1. wire[s].frames[i].id.position \in Nat /\ wire[s].frames[i].id.position <= position[Channel]
    BY <1>2, <1>5, FrameTypes DEF OrderOf, FrameOrder, CursorOK
  <2>2. i \in Nat
    BY DEF TypesOK, Wires
  <2> QED BY <1>1, <1>4, <1>5, <2>1, <2>2 DEF FrameCover
<1>6. ASSUME wire[s].stage = "stream", SubscriptionCover(s)
      PROVE  SubscriptionCover(s)'
  <2>1. subs[s].position <= position[Channel]
    BY <1>6, HubFacts DEF ConnectionOf
  <2>2. Len(wire[s].frames) \in Nat /\ Len(handler[s].pending) \in Nat
    BY DEF TypesOK, Wires, Handlers
  <2> QED BY <1>1, <1>4, <1>6, <2>1, <2>2 DEF SubscriptionCover
<1>7. ASSUME NEW i \in DOMAIN handler[s].pending, wire[s].stage = "stream", PendingCover(s, i)
      PROVE  PendingCover(s, i)'
  <2>1. subs[s].position <= position[Channel]
    BY <1>7, HubFacts DEF ConnectionOf
  <2>2. handler[s].pending[i].position <= position[Channel]
    BY <1>1, <1>3, <1>7, <2>1 DEF OrderOf, PendingOrder
  <2>3. Len(wire[s].frames) \in Nat /\ i \in Nat
    BY DEF TypesOK, Wires, Handlers
  <2> QED BY <1>1, <1>3, <1>4, <1>7, <2>2, <2>3 DEF PendingCover
<1> QED BY <1>5, <1>6, <1>7 DEF CoverOf, HasID

\* A connection that carries control frames at most, and no stream.
LEMMA NothingOnTheWay ==
    ASSUME NEW s \in Subscriptions, wire'[s].stage # "stream",
           \A i \in DOMAIN wire'[s].frames : wire'[s].frames[i] \in ControlFrames
    PROVE  OrderOf(s)' /\ CoverOf(s)'
<1>1. \A i \in DOMAIN wire'[s].frames : ~HasID(wire'[s].frames[i])
  BY ControlTypes
<1>2. OrderOf(s)'
  BY <1>1 DEF OrderOf, HasID
<1>3. CoverOf(s)'
  BY <1>1 DEF CoverOf, HasID
<1> QED BY <1>2, <1>3

\* A connection the step does not concern, when page and store stay as they are.
LEMMA QuietKept ==
    ASSUME HubTheorems!HubInv, TypesOK, NEW s \in Subscriptions, StreamOf(s),
           wire'[s] = wire[s], handler'[s] = handler[s], subs'[s] = subs[s],
           UNCHANGED <<generation, position, log, closed, committed, sealed, source, page>>
    PROVE  StreamOf(s)'
<1>1. position[Channel] \in Nat
  BY HubFacts, ChannelIsOne
<1>2. ConnectionOf(s)'
  BY ConnectionKept DEF StreamOf
<1>3. SafeOf(s)'
  BY SafeKept DEF StreamOf
<1>4. WakeOf(s)'
  BY WakeKept DEF StreamOf
<1>5. OrderOf(s)'
  BY <1>1, OrderKept DEF StreamOf
<1>6. CoverOf(s)'
  <2>1. (Settled' => Settled) /\ PageHolds \subseteq PageHolds'
    BY DEF Settled, PageHolds
  <2> QED BY <2>1, CoverKept DEF StreamOf
<1> QED BY <1>2, <1>3, <1>4, <1>5, <1>6 DEF StreamOf

\* A connection that is not the page's, neither before nor after.
LEMMA OtherKept ==
    ASSUME HubTheorems!HubInv, TypesOK, NEW s \in Subscriptions, StreamOf(s),
           wire'[s] = wire[s], handler'[s] = handler[s], subs'[s] = subs[s],
           UNCHANGED <<generation, position, log, closed, committed, sealed>>,
           source.conn # s, source'.conn # s
    PROVE  StreamOf(s)'
<1>1. wire[s].stage \in {"free", "cut"} /\ wire[s].frames = <<>>
  BY DEF StreamOf, ConnectionOf
<1>2. ConnectionOf(s)'
  BY <1>1 DEF StreamOf, ConnectionOf
<1>3. SafeOf(s)'
  BY SafeKept DEF StreamOf
<1>4. WakeOf(s)'
  BY WakeKept DEF StreamOf
<1>5. OrderOf(s)' /\ CoverOf(s)'
  BY <1>1, NothingOnTheWay
<1> QED BY <1>2, <1>3, <1>4, <1>5 DEF StreamOf

LEMMA GlobalsKept ==
    ASSUME PageOK, StoreOK, PageCursorOK,
           UNCHANGED <<generation, position, log, committed, command, access, sealed, source, page>>
    PROVE  PageOK' /\ StoreOK' /\ PageCursorOK'
<1>1. PageOK'
  BY DEF PageOK
<1>2. StoreOK'
  BY DEF StoreOK, PageHolds
<1>3. PageCursorOK'
  BY DEF PageCursorOK, CursorOK, Settled, OnPage, PageHolds
<1> QED BY <1>1, <1>2, <1>3

\* A step of the server on connection s.
LEMMA ServerStep ==
    ASSUME StreamInv, HubTheorems!HubInv', TypesOK', NEW s \in Subscriptions, StreamOf(s)',
           \A q \in Subscriptions \ {s} :
              wire'[q] = wire[q] /\ handler'[q] = handler[q] /\ subs'[q] = subs[q],
           UNCHANGED <<generation, position, log, closed, committed, command, access, sealed, source, page>>
    PROVE  StreamInv'
<1>1. PageOK' /\ StoreOK' /\ PageCursorOK'
  BY GlobalsKept DEF StreamInv
<1>2. ASSUME NEW q \in Subscriptions \ {s} PROVE StreamOf(q)'
  BY QuietKept DEF StreamInv
<1> QED BY <1>1, <1>2 DEF StreamInv

\* A step of the page on its connection s.
LEMMA PageStep ==
    ASSUME StreamInv, HubTheorems!HubInv', TypesOK', NEW s \in Subscriptions, StreamOf(s)',
           PageOK', StoreOK', PageCursorOK',
           source.conn \in {s, None}, source'.conn \in {s, None},
           \A q \in Subscriptions \ {s} : wire'[q] = wire[q],
           UNCHANGED <<hubVars, handler, committed, sealed>>
    PROVE  StreamInv'
<1>1. ASSUME NEW q \in Subscriptions \ {s} PROVE StreamOf(q)'
  <2>1. source.conn # q /\ source'.conn # q
    BY StreamAssumption
  <2> QED BY <2>1, OtherKept DEF StreamInv, hubVars
<1> QED BY <1>1 DEF StreamInv

-----------------------------------------------------------------------------
(* The server's steps on one connection. *)

LEMMA TypesKeptByServer ==
    ASSUME TypesOK, UNCHANGED <<generation, process, storeVars, clientVars>>, faults' \in 0..MaxFaults,
           handler' \in [Subscriptions -> Handlers], wire' \in [Subscriptions -> Wires]
    PROVE  TypesOK'
BY DEF TypesOK, storeVars, clientVars

\* The request is answered with an error.
LEMMA RefusedStep ==
    ASSUME StreamInv, NEW s \in Subscriptions, wire[s].stage = "request",
           wire' = [wire EXCEPT ![s].stage = "refused"],
           UNCHANGED <<hubVars, process, storeVars, handler, clientVars, faults>>,
           HubTheorems!HubInv'
    PROVE  StreamInv'
<1>1. StreamOf(s) /\ TypesOK
  BY DEF StreamInv
<1>2. wire'[s] = [wire[s] EXCEPT !.stage = "refused"] /\ wire[s] \in Wires
  BY <1>1, Typing DEF TypesOK
<1>3. /\ wire'[s] \in Wires /\ wire'[s].stage = "refused"
      /\ wire'[s].frames = wire[s].frames /\ wire'[s].lastID = wire[s].lastID
  BY <1>2 DEF Wires, Stages
<1>4. wire[s].frames = <<>>
  BY <1>1 DEF StreamOf, ConnectionOf
<1>5. TypesOK'
  <2>1. /\ wire' \in [Subscriptions -> Wires] /\ handler' \in [Subscriptions -> Handlers]
        /\ faults' \in 0..MaxFaults
    BY <1>1, <1>3 DEF TypesOK
  <2> QED BY <1>1, <2>1, TypesKeptByServer DEF hubVars
<1>6. ConnectionOf(s)'
  BY <1>1, <1>3, <1>4 DEF StreamOf, ConnectionOf, hubVars, clientVars
<1>7. SafeOf(s)'
  BY <1>1, <1>3, <1>4 DEF StreamOf, SafeOf, storeVars
<1>8. WakeOf(s)'
  BY <1>1, WakeKept DEF StreamOf, hubVars
<1>9. OrderOf(s)' /\ CoverOf(s)'
  BY <1>3, <1>4, NothingOnTheWay
<1>10. \A q \in Subscriptions \ {s} : wire'[q] = wire[q]
  BY <1>1 DEF TypesOK
<1> QED
  BY <1>5, <1>6, <1>7, <1>8, <1>9, <1>10, ServerStep DEF StreamOf, hubVars, storeVars, clientVars

\* The request is answered with a resync event and no stream.
LEMMA ResyncStep ==
    ASSUME StreamInv, NEW s \in Subscriptions, ResyncRequest(s), HubTheorems!HubInv'
    PROVE  StreamInv'
<1>1. StreamOf(s) /\ TypesOK
  BY DEF StreamInv
<1>2. wire'[s] = [wire[s] EXCEPT !.stage = "ended", !.frames = <<Resync>>] /\ wire[s] \in Wires
  BY <1>1, Typing DEF TypesOK, ResyncRequest
<1>3. Resync \in ControlFrames
  BY DEF ControlFrames
<1>4. <<Resync>> \in Seq(Frames) /\ DOMAIN <<Resync>> = 1..1 /\ <<Resync>>[1] = Resync
  BY <1>3, ControlTypes, Single
<1>5. wire'[s] \in Wires /\ wire'[s].stage = "ended" /\ wire'[s].frames = <<Resync>>
  BY <1>2, <1>4 DEF Wires, Stages
<1>6. \A i \in DOMAIN wire'[s].frames : wire'[s].frames[i] \in ControlFrames
  BY <1>3, <1>4, <1>5
<1>7. TypesOK'
  <2>1. /\ wire' \in [Subscriptions -> Wires] /\ handler' \in [Subscriptions -> Handlers]
        /\ faults' \in 0..MaxFaults
    BY <1>1, <1>5 DEF TypesOK, ResyncRequest
  <2> QED BY <1>1, <2>1, TypesKeptByServer DEF ResyncRequest, hubVars
<1>8. ConnectionOf(s)'
  BY <1>1, <1>5 DEF StreamOf, ConnectionOf, ResyncRequest, hubVars, clientVars
<1>9. SafeOf(s)'
  BY <1>1, <1>6, ControlTypes DEF StreamOf, SafeOf, ResyncRequest, storeVars
<1>10. WakeOf(s)'
  BY <1>1, WakeKept DEF StreamOf, ResyncRequest, hubVars
<1>11. OrderOf(s)' /\ CoverOf(s)'
  BY <1>5, <1>6, NothingOnTheWay
<1>12. \A q \in Subscriptions \ {s} : wire'[q] = wire[q]
  BY <1>1 DEF TypesOK, ResyncRequest
<1> QED
  BY <1>7, <1>8, <1>9, <1>10, <1>11, <1>12, ServerStep
  DEF StreamOf, ResyncRequest, hubVars, storeVars, clientVars

LEMMA SettledHasCursor ==
    ASSUME TypesOK, PageOK, Settled
    PROVE  source.last # NoCursor /\ source.last \in PageCursors /\ page.initialReady
<1>1. page.status \in {"connecting", "loading-history", "ready", "error"}
  BY DEF TypesOK, Pages
<1>2. source.last \in PageCursors \cup {NoCursor}
  BY DEF TypesOK, Sources
<1> QED BY <1>1, <1>2 DEF Settled, PageOK

\* A new subscription starts at the page's cursor, or at the newest position.
LEMMA AcceptStep ==
    ASSUME StreamInv, NEW s \in Subscriptions, AcceptRequest(s), HubTheorems!HubInv'
    PROVE  StreamInv'
<1> DEFINE p == Hub!StartPosition(Channel, wire[s].lastID)
<1>1. /\ StreamOf(s) /\ TypesOK /\ PageOK /\ PageCursorOK /\ HubTheorems!HubInv
      /\ \A q \in Subscriptions : ConnectionOf(q)
  BY DEF StreamInv, StreamOf
<1>2. wire[s].stage = "request" /\ wire[s].lastID = source.last
  BY <1>1 DEF AcceptRequest, StreamOf, ConnectionOf
<1>3. /\ p \in Nat /\ p <= position[Channel] /\ p \in 0..MaxPosition
      /\ source.last # NoCursor =>
            /\ source.last = [generation |-> generation, channel |-> Channel, position |-> p]
            /\ source.last.generation = generation /\ source.last.position = p
  <2>1. position[Channel] \in Nat /\ position[Channel] <= MaxPosition /\ MaxPosition \in Nat
    BY <1>1, HubFacts, ChannelIsOne
  <2>2. Hub!CanResume(Channel, source.last)
    BY <1>2 DEF AcceptRequest, Hub!Subscribe
  <2>3. CASE source.last = NoCursor
    <3>1. p = position[Channel]
      BY <1>2, <2>3 DEF Hub!StartPosition
    <3> HIDE DEF p
    <3> QED BY <2>1, <2>3, <3>1
  <2>4. CASE source.last # NoCursor
    <3>1. source.last \in PageCursors
      BY <1>1, <2>4 DEF TypesOK, Sources
    <3>2. p = source.last.position
      BY <1>2, <2>4 DEF Hub!StartPosition
    <3>3. source.last.generation = generation /\ p <= position[Channel]
      BY <2>2, <2>4, <3>2 DEF Hub!CanResume
    <3> HIDE DEF p
    <3>4. source.last = [generation |-> generation, channel |-> Channel, position |-> p]
      BY <3>1, <3>2, <3>3 DEF PageCursors
    <3> QED BY <2>1, <3>1, <3>2, <3>3, <3>4, CursorTypes
  <2> QED BY <2>3, <2>4
<1>4. /\ subs' = [subs EXCEPT ![s] = [open |-> TRUE, channel |-> Channel, user |-> Viewer,
                                      position |-> p, wake |-> FALSE]]
      /\ UNCHANGED <<generation, position, records, closed, log>>
  BY <1>2 DEF AcceptRequest, Hub!Subscribe
<1>5. /\ wire' = [wire EXCEPT ![s].stage = "stream", ![s].frames = <<Ready(p)>>]
      /\ handler' = [handler EXCEPT ![s] = [pc |-> "drain", pending |-> <<>>]]
      /\ UNCHANGED <<process, storeVars, clientVars, faults>>
  BY DEF AcceptRequest
<1> HIDE DEF p
<1>6. /\ subs'[s].open /\ subs'[s].channel = Channel /\ subs'[s].position = p
      /\ \A q \in Subscriptions \ {s} : subs'[q] = subs[q]
  BY <1>1, <1>4, HubFacts
<1>7. /\ Ready(p) \in Frames /\ HasID(Ready(p)) /\ Ready(p).event = "ready"
      /\ Ready(p).id = [generation |-> generation, channel |-> Channel, position |-> p]
      /\ Ready(p).id.generation = generation /\ Ready(p).id.position = p
  BY <1>1, <1>3, ReadyTypes
<1>8. <<Ready(p)>> \in Seq(Frames) /\ DOMAIN <<Ready(p)>> = 1..1 /\ <<Ready(p)>>[1] = Ready(p)
  BY <1>7, Single
<1>9. /\ wire'[s] \in Wires /\ wire'[s].stage = "stream" /\ wire'[s].frames = <<Ready(p)>>
      /\ \A q \in Subscriptions \ {s} : wire'[q] = wire[q]
  <2>1. wire'[s] = [wire[s] EXCEPT !.stage = "stream", !.frames = <<Ready(p)>>] /\ wire[s] \in Wires
    BY <1>1, <1>5, Typing DEF TypesOK
  <2>2. wire'[s] \in Wires /\ wire'[s].stage = "stream" /\ wire'[s].frames = <<Ready(p)>>
    BY <1>8, <2>1 DEF Wires, Stages
  <2> QED BY <1>1, <1>5, <2>2 DEF TypesOK
<1>10. /\ handler'[s] \in Handlers /\ handler'[s].pc = "drain" /\ handler'[s].pending = <<>>
       /\ \A q \in Subscriptions \ {s} : handler'[q] = handler[q]
  <2>1. handler'[s] = [pc |-> "drain", pending |-> <<>>]
    BY <1>1, <1>5 DEF TypesOK
  <2> QED BY <1>1, <1>5, <2>1 DEF TypesOK, Handlers, Pcs
<1>11. TypesOK'
  <2>1. /\ wire' \in [Subscriptions -> Wires] /\ handler' \in [Subscriptions -> Handlers]
        /\ faults' \in 0..MaxFaults
    BY <1>1, <1>5, <1>9, <1>10 DEF TypesOK
  <2> QED BY <1>1, <1>4, <1>5, <2>1, TypesKeptByServer
<1>12. UNCHANGED <<committed, command, access, sealed, source, page>>
  BY <1>5 DEF storeVars, clientVars
<1>13. ConnectionOf(s)'
  BY <1>1, <1>2, <1>6, <1>9, <1>10, <1>12 DEF ConnectionOf
<1>14. \A i \in DOMAIN wire'[s].frames : i = 1 /\ wire'[s].frames[i] = Ready(p)
  BY <1>8, <1>9
<1>15. DOMAIN handler'[s].pending = {}
  BY <1>10
<1>16. SafeOf(s)'
  BY <1>7, <1>14, <1>15 DEF SafeOf
<1>17. WakeOf(s)'
  BY <1>10 DEF WakeOf
<1>18. OrderOf(s)'
  <2>1. generation \in Nat
    BY <1>1, HubFacts
  <2>2. ASSUME NEW i \in DOMAIN wire'[s].frames PROVE FrameOrder(s, i)'
    <3>1. CursorOK(wire[s].frames[i].id)'
      BY <1>3, <1>4, <1>7, <1>14, <2>1 DEF CursorOK
    <3> QED BY <1>3, <1>4, <1>6, <1>7, <1>9, <1>12, <1>14, <3>1 DEF FrameOrder
  <2>3. CursorOrder(s)'
    BY <1>3, <1>4, <1>6, <1>12 DEF CursorOrder
  <2> QED BY <1>15, <2>2, <2>3 DEF OrderOf
<1>19. CoverOf(s)'
  <2> SUFFICES ASSUME Settled' PROVE CoverOf(s)'
    BY DEF CoverOf
  <2>1. Settled
    BY <1>12 DEF Settled
  <2>2. source.last.generation = generation /\ source.last.position = p
    BY <1>1, <1>3, <2>1, SettledHasCursor
  <2>3. \A j \in 1..p : OnPage(j)
    BY <1>1, <2>1, <2>2 DEF PageCursorOK
  <2>4. \A j \in 1..p : OnPage(j)'
    BY <1>4, <1>12, <2>3 DEF OnPage, PageHolds
  <2>5. ASSUME NEW i \in DOMAIN wire'[s].frames PROVE FrameCover(s, i)'
    BY <1>7, <1>14, <2>4 DEF FrameCover
  <2>6. SubscriptionCover(s)'
    BY <1>6, <2>4 DEF SubscriptionCover
  <2> QED BY <1>15, <2>5, <2>6 DEF CoverOf
<1> QED
  BY <1>4, <1>6, <1>9, <1>10, <1>11, <1>12, <1>13, <1>16, <1>17, <1>18, <1>19, ServerStep DEF StreamOf

\* The handler takes every record after the subscription's position.
LEMMA DrainStep ==
    ASSUME StreamInv, NEW s \in Subscriptions, DrainHub(s), HubTheorems!HubInv'
    PROVE  StreamInv'
<1> DEFINE r == Hub!DrainedRecords(s)
           p == subs[s].position
           n == position[Channel] - p
<1>1. /\ StreamOf(s) /\ TypesOK /\ StoreOK /\ HubTheorems!HubInv
      /\ ConnectionOf(s) /\ OrderOf(s) /\ CoverOf(s)
  BY DEF StreamInv, StreamOf
<1>2. /\ subs[s].open /\ subs[s].channel = Channel /\ handler[s].pending = <<>>
      /\ wire[s].stage \in {"stream", "cut"}
  BY <1>1 DEF DrainHub, ConnectionOf
<1>3. ~Hub!ReplayUnavailable(Channel, p) /\ ~closed
  BY <1>2 DEF DrainHub, Hub!Drain
<1>4. /\ r \in Seq(Records) /\ Len(r) = n /\ DOMAIN r = 1..n
      /\ \A i \in 1..n : r[i].position = p + i /\ r[i].messageID = log[Channel][p + i]
  BY <1>1, <1>2, <1>3, HubDrains
<1>5. /\ position[Channel] \in Nat /\ p \in Nat /\ p <= position[Channel] /\ n \in Nat
      /\ DOMAIN log[Channel] = 1..position[Channel]
  <2>1. /\ position[Channel] \in Nat /\ p \in Nat /\ p <= position[Channel]
        /\ log[Channel] \in Seq(Messages) /\ Len(log[Channel]) = position[Channel]
    BY <1>1, <1>2, HubFacts, ChannelIsOne
  <2> QED BY <2>1
<1>6. /\ subs' = [subs EXCEPT ![s].position = position[Channel]]
      /\ UNCHANGED <<generation, position, closed, log>>
  BY <1>2 DEF DrainHub, Hub!Drain
<1>7. /\ handler' = [handler EXCEPT ![s] = [pc |-> IF r = <<>> THEN "wait" ELSE "authorize",
                                            pending |-> r]]
      /\ UNCHANGED <<process, storeVars, wire, clientVars, faults>>
  BY DEF DrainHub
<1> HIDE DEF r, p, n
<1>8. /\ subs'[s].open = subs[s].open /\ subs'[s].channel = subs[s].channel
      /\ subs'[s].position = position[Channel] /\ \A q \in Subscriptions \ {s} : subs'[q] = subs[q]
  BY <1>1, <1>6, HubFacts
<1>9. /\ handler'[s] \in Handlers /\ handler'[s].pending = r
      /\ handler'[s].pc \in {"wait", "authorize"} /\ (handler'[s].pc = "authorize" <=> r # <<>>)
      /\ \A q \in Subscriptions \ {s} : handler'[q] = handler[q]
  <2>1. handler'[s] = [pc |-> IF r = <<>> THEN "wait" ELSE "authorize", pending |-> r]
    BY <1>1, <1>7 DEF TypesOK
  <2> QED BY <1>1, <1>4, <1>7, <2>1 DEF TypesOK, Handlers, Pcs
<1>10. TypesOK'
  <2>1. /\ wire' \in [Subscriptions -> Wires] /\ handler' \in [Subscriptions -> Handlers]
        /\ faults' \in 0..MaxFaults
    BY <1>1, <1>7, <1>9 DEF TypesOK
  <2> QED BY <1>1, <1>6, <1>7, <2>1, TypesKeptByServer
<1>11. UNCHANGED <<committed, command, access, sealed, source, page, wire>>
  BY <1>7 DEF storeVars, clientVars
<1>12. ConnectionOf(s)'
  BY <1>1, <1>2, <1>8, <1>9, <1>11 DEF ConnectionOf, DrainHub
<1>13. SafeOf(s)'
  <2>1. \A i \in 1..n : p + i \in 1..position[Channel]
    BY <1>5 DEF n
  <2>2. \A i \in DOMAIN r : r[i].messageID \in committed
    BY <1>1, <1>4, <1>5, <2>1, ChannelIsOne DEF StoreOK
  <2> QED BY <1>1, <1>9, <1>11, <2>2 DEF StreamOf, SafeOf
<1>14. WakeOf(s)'
  BY <1>3, <1>5, <1>6, <1>8 DEF WakeOf
<1>15. OrderOf(s)'
  <2>1. /\ \A i \in DOMAIN wire[s].frames : HasID(wire[s].frames[i]) => wire[s].frames[i].id.position \in Nat
        /\ source.last # NoCursor => source.last.position \in Nat
    <3>1. source.last \in PageCursors \cup {NoCursor}
      BY <1>1 DEF TypesOK, Sources
    <3> QED BY <1>1, <3>1, Typing, FrameTypes, CursorTypes
  <2>2. ASSUME NEW i \in DOMAIN wire[s].frames, HasID(wire[s].frames[i]) PROVE FrameOrder(s, i)'
    <3>1. FrameOrder(s, i)
      BY <1>1, <2>2 DEF OrderOf
    <3>2. wire[s].stage = "stream" => wire[s].frames[i].id.position <= subs'[s].position
      <4>1. wire[s].stage = "stream" => wire[s].frames[i].id.position <= p
        BY <3>1 DEF FrameOrder, p
      <4> QED BY <1>5, <1>8, <2>1, <2>2, <4>1
    <3>3. CursorOK(wire[s].frames[i].id)'
      BY <1>6, <1>11, <3>1 DEF FrameOrder, CursorOK
    <3> QED BY <1>6, <1>11, <3>1, <3>2, <3>3 DEF FrameOrder, HasID
  <2>3. ASSUME wire[s].stage = "stream" PROVE CursorOrder(s)'
    <3>1. CursorOrder(s)
      BY <1>1, <2>3 DEF OrderOf
    <3> QED BY <1>5, <1>6, <1>8, <1>11, <2>1, <3>1 DEF CursorOrder, p
  <2>4. ASSUME wire[s].stage = "stream", NEW i \in 1..n PROVE PendingOrder(s, i)'
    <3>1. r[i].position = p + i /\ p + i <= position[Channel]
      BY <1>4, <1>5 DEF n
    <3>2. source.last # NoCursor => source.last.position < p + i
      BY <1>1, <1>5, <2>1, <2>4 DEF OrderOf, CursorOrder, p
    <3>3. \A k \in DOMAIN wire[s].frames : HasID(wire[s].frames[k]) => wire[s].frames[k].id.position < p + i
      <4>1. TAKE k \in DOMAIN wire[s].frames
      <4>2. HAVE HasID(wire[s].frames[k])
      <4>3. wire[s].frames[k].id.position <= p
        BY <1>1, <2>4, <4>2 DEF OrderOf, FrameOrder, p
      <4> QED BY <1>5, <2>1, <4>2, <4>3
    <3>4. \A k \in 1..n : i < k => r[i].position < r[k].position
      BY <1>4, <1>5
    <3> QED BY <1>4, <1>8, <1>9, <1>11, <3>1, <3>2, <3>3, <3>4 DEF PendingOrder, HasID
  <2> QED BY <1>4, <1>9, <1>11, <2>2, <2>3, <2>4 DEF OrderOf, HasID
<1>16. CoverOf(s)'
  <2> SUFFICES ASSUME Settled' PROVE CoverOf(s)'
    BY DEF CoverOf
  <2>1. Settled
    BY <1>11 DEF Settled
  <2>2. /\ \A j : OnPage(j)' <=> OnPage(j)
        /\ \A k, j : InFrames(s, k, j)' <=> InFrames(s, k, j)
    BY <1>6, <1>11 DEF OnPage, PageHolds, InFrames
  <2>3. ASSUME NEW i \in DOMAIN wire[s].frames, HasID(wire[s].frames[i]),
               wire[s].frames[i].id.generation = generation
        PROVE  FrameCover(s, i)'
    <3>1. FrameCover(s, i)
      BY <1>1, <2>1, <2>3 DEF CoverOf
    <3> QED BY <1>11, <2>2, <3>1 DEF FrameCover
  <2>4. ASSUME wire[s].stage = "stream", NEW j \in 1..p
        PROVE  (OnPage(j) \/ InFrames(s, Len(wire[s].frames), j))'
    <3>1. OnPage(j) \/ InFrames(s, Len(wire[s].frames), j) \/ InPending(s, Len(handler[s].pending), j)
      BY <1>1, <2>1, <2>4 DEF CoverOf, SubscriptionCover, p
    <3>2. ~InPending(s, Len(handler[s].pending), j)
      BY <1>2 DEF InPending
    <3> QED BY <1>11, <2>2, <3>1, <3>2
  <2>5. ASSUME NEW i \in 1..n, NEW j \in 1..(p + i), ~(j \in 1..p)
        PROVE  InPending(s, i, j)'
    <3>1. j - p \in 1..i /\ j - p \in 1..n /\ p + (j - p) = j
      BY <1>5, <2>5
    <3>2. r[j - p].messageID = log[Channel][j]
      BY <1>4, <3>1
    <3>3. \E k \in 1..i : r[k].messageID = log'[Channel][j]
      BY <1>6, <3>1, <3>2
    <3> QED BY <1>9, <3>3 DEF InPending
  <2>6. ASSUME wire[s].stage = "stream", NEW i \in 1..n PROVE PendingCover(s, i)'
    <3>1. r[i].position = p + i
      BY <1>4
    <3>2. \A j \in 1..(p + i) : (OnPage(j) \/ InFrames(s, Len(wire[s].frames), j) \/ InPending(s, i, j))'
      BY <2>4, <2>5, <2>6
    <3> QED BY <1>9, <3>1, <3>2 DEF PendingCover
  <2>7. ASSUME wire[s].stage = "stream" PROVE SubscriptionCover(s)'
    <3>1. CASE n = 0
      <4>1. position[Channel] = p
        BY <1>5, <3>1 DEF n
      <4> QED BY <1>8, <2>4, <2>7, <4>1 DEF SubscriptionCover
    <3>2. CASE n # 0
      <4>1. n \in 1..n
        BY <1>5, <3>2
      <4>2. PICK last \in 1..n : last = n
        BY <4>1
      <4>3. p + last = position[Channel] /\ Len(r) = last
        BY <1>4, <1>5, <4>2 DEF n
      <4>4. \A j \in 1..(p + last) :
               (OnPage(j) \/ InFrames(s, Len(wire[s].frames), j) \/ InPending(s, last, j))'
        BY <2>4, <2>5, <2>7
      <4> QED BY <1>8, <1>9, <4>3, <4>4 DEF SubscriptionCover
    <3> QED BY <3>1, <3>2
  <2> QED BY <1>4, <1>6, <1>9, <1>11, <2>3, <2>6, <2>7 DEF CoverOf, HasID
<1> QED
  BY <1>6, <1>8, <1>9, <1>10, <1>11, <1>12, <1>13, <1>14, <1>15, <1>16, ServerStep DEF StreamOf

LEMMA Trailed ==
    ASSUME NEW f \in Seq(Frames), NEW e \in Seq(ControlFrames)
    PROVE  LET g == f \o e
           IN  /\ g \in Seq(Frames)
               /\ DOMAIN f = 1..Len(f) /\ Len(f) \in Nat
               /\ \A i \in DOMAIN f : i \in DOMAIN g /\ g[i] = f[i]
               /\ \A i \in DOMAIN g : i \in Nat /\ (i \notin DOMAIN f => g[i] \in ControlFrames)
<1>1. e \in Seq(Frames)
  <2>1. ControlFrames \subseteq Frames
    BY DEF Frames
  <2> QED BY <2>1
<1>2. /\ f \o e \in Seq(Frames) /\ Len(f) \in Nat /\ Len(e) \in Nat
      /\ DOMAIN f = 1..Len(f) /\ DOMAIN e = 1..Len(e)
      /\ DOMAIN (f \o e) = 1..(Len(f) + Len(e))
      /\ \A i \in 1..(Len(f) + Len(e)) : (f \o e)[i] = IF i <= Len(f) THEN f[i] ELSE e[i - Len(f)]
  BY <1>1
<1>3. ASSUME NEW i \in 1..(Len(f) + Len(e)), i \notin DOMAIN f
      PROVE  (f \o e)[i] \in ControlFrames
  <2>1. i - Len(f) \in 1..Len(e) /\ ~(i <= Len(f))
    BY <1>2, <1>3
  <2>2. e[i - Len(f)] \in ControlFrames
    BY <2>1
  <2> QED BY <1>2, <2>1, <2>2
<1> QED BY <1>2, <1>3

\* Frames that lose their stream, perhaps with a control frame behind them.
LEMMA EndedFrames ==
    ASSUME HubTheorems!HubInv, TypesOK, NEW s \in Subscriptions, StreamOf(s), NEW e \in Seq(ControlFrames),
           wire'[s].stage = "ended", wire'[s].frames = wire[s].frames \o e,
           handler'[s].pending = <<>>,
           UNCHANGED <<generation, position, log, committed, sealed, source, page>>
    PROVE  /\ SafeOf(s)' /\ OrderOf(s)' /\ CoverOf(s)'
<1> DEFINE f == wire[s].frames
           g == f \o e
<1>1. /\ g \in Seq(Frames) /\ DOMAIN f = 1..Len(f) /\ Len(f) \in Nat
      /\ \A i \in DOMAIN f : i \in DOMAIN g /\ g[i] = f[i]
      /\ \A i \in DOMAIN g : i \in Nat /\ (i \notin DOMAIN f => g[i] \in ControlFrames)
  BY Typing, Trailed
<1>2. wire'[s].frames = g /\ DOMAIN handler'[s].pending = {}
  OBVIOUS
<1>3. SafeOf(s) /\ OrderOf(s) /\ CoverOf(s)
  BY DEF StreamOf
<1> HIDE DEF g
<1>4. SafeOf(s)'
  BY <1>1, <1>2, <1>3, ControlTypes DEF SafeOf
<1>5. \A i \in DOMAIN g : HasID(g[i]) => i \in DOMAIN f /\ g[i] = f[i]
  BY <1>1, ControlTypes
<1>6. OrderOf(s)'
  <2>1. ASSUME NEW i \in DOMAIN g, HasID(g[i]) PROVE FrameOrder(s, i)'
    <3>1. i \in DOMAIN f /\ g[i] = f[i] /\ HasID(f[i])
      BY <1>5, <2>1
    <3>2. FrameOrder(s, i)
      BY <1>3, <3>1 DEF OrderOf
    <3>3. CursorOK(wire[s].frames[i].id)'
      BY <1>2, <3>1, <3>2 DEF FrameOrder, CursorOK
    <3>4. \A k \in DOMAIN g : i < k /\ HasID(g[k]) =>
             g[i].id.generation = g[k].id.generation /\ g[i].id.position < g[k].id.position
      BY <1>5, <3>1, <3>2 DEF FrameOrder
    <3> QED BY <1>2, <3>1, <3>2, <3>3, <3>4 DEF FrameOrder, HasID
  <2> QED BY <1>2, <2>1 DEF OrderOf, HasID
<1>7. CoverOf(s)'
  <2> SUFFICES ASSUME Settled' PROVE CoverOf(s)'
    BY DEF CoverOf
  <2>1. ASSUME NEW i \in DOMAIN g, HasID(g[i]), g[i].id.generation = generation
        PROVE  FrameCover(s, i)'
    <3>1. i \in DOMAIN f /\ g[i] = f[i] /\ HasID(f[i])
      BY <1>5, <2>1
    <3>2. FrameCover(s, i)
      BY <1>3, <2>1, <3>1 DEF CoverOf, Settled
    <3>3. \A k \in 1..i : k \in DOMAIN f /\ g[k] = f[k]
      BY <1>1, <3>1
    <3>4. \A j : InFrames(s, i, j) => InFrames(s, i, j)'
      BY <1>2, <3>3 DEF InFrames
    <3>5. \A j : OnPage(j) => OnPage(j)'
      BY DEF OnPage, PageHolds
    <3> QED BY <1>2, <3>1, <3>2, <3>4, <3>5 DEF FrameCover
  <2> QED BY <1>2, <2>1 DEF CoverOf, HasID
<1> QED BY <1>4, <1>6, <1>7

\* The handler leaves: its subscription is closed, the response ends.
LEMMA ReturnStep ==
    ASSUME StreamInv, NEW s \in Subscriptions, NEW e \in Seq(ControlFrames), Return(s, e),
           UNCHANGED <<process, storeVars, clientVars>>, faults' \in 0..MaxFaults, HubTheorems!HubInv'
    PROVE  StreamInv'
<1>1. StreamOf(s) /\ TypesOK /\ HubTheorems!HubInv /\ ConnectionOf(s)
  BY DEF StreamInv, StreamOf
<1>2. /\ subs[s].open /\ subs' = [subs EXCEPT ![s] = Hub!Unused]
      /\ UNCHANGED <<generation, position, closed, log>>
  BY DEF Return, Hub!Close
<1>3. /\ handler' = [handler EXCEPT ![s] = NoHandler]
      /\ wire' = [wire EXCEPT ![s] = IF wire[s].stage = "cut" THEN FreeWire
                                     ELSE [wire[s] EXCEPT !.stage = "ended", !.frames = @ \o e]]
  BY DEF Return
<1>4. UNCHANGED <<committed, command, access, sealed, source, page>>
  BY DEF storeVars, clientVars
<1>5. ~subs'[s].open /\ \A q \in Subscriptions \ {s} : subs'[q] = subs[q]
  BY <1>1, <1>2, HubFacts DEF Hub!Unused
<1>6. /\ handler'[s].pc = "none" /\ handler'[s].pending = <<>> /\ handler'[s] \in Handlers
      /\ \A q \in Subscriptions \ {s} : handler'[q] = handler[q]
  BY <1>1, <1>3 DEF TypesOK, NoHandler, Handlers, Pcs
<1>7. \A q \in Subscriptions \ {s} : wire'[q] = wire[q]
  BY <1>1, <1>3 DEF TypesOK
<1>8. wire[s].stage \in {"stream", "cut"}
  BY <1>1, <1>2 DEF ConnectionOf
<1>9. WakeOf(s)'
  BY <1>6 DEF WakeOf
<1>10. CASE wire[s].stage = "cut"
  <2>1. wire'[s] = FreeWire
    BY <1>1, <1>3, <1>10 DEF TypesOK
  <2>2. wire'[s] \in Wires /\ wire'[s].stage = "free" /\ wire'[s].frames = <<>>
    BY <2>1 DEF FreeWire, Wires, Stages
  <2>3. ConnectionOf(s)'
    BY <1>1, <1>4, <1>5, <1>6, <1>10, <2>2 DEF ConnectionOf
  <2>4. SafeOf(s)'
    BY <1>6, <2>2 DEF SafeOf
  <2>5. OrderOf(s)' /\ CoverOf(s)'
    BY <2>2, NothingOnTheWay
  <2>6. TypesOK'
    <3>1. wire' \in [Subscriptions -> Wires] /\ handler' \in [Subscriptions -> Handlers]
      BY <1>1, <1>3, <1>6, <2>2 DEF TypesOK
    <3> QED BY <1>1, <1>2, <3>1, TypesKeptByServer
  <2> QED BY <1>2, <1>4, <1>5, <1>6, <1>7, <1>9, <2>3, <2>4, <2>5, <2>6, ServerStep DEF StreamOf
<1>11. CASE wire[s].stage = "stream"
  <2>1. wire'[s] = [wire[s] EXCEPT !.stage = "ended", !.frames = wire[s].frames \o e]
    <3>1. wire \in [Subscriptions -> Wires] /\ wire[s] \in Wires
      BY <1>1 DEF TypesOK
    <3>2. wire[s].stage # "cut"
      BY <1>11
    <3> QED BY <1>3, <3>1, <3>2 DEF Wires
  <2>2. wire[s].frames \o e \in Seq(Frames)
    BY <1>1, Typing, Trailed
  <2>3. /\ wire'[s] \in Wires /\ wire'[s].stage = "ended" /\ wire'[s].frames = wire[s].frames \o e
        /\ wire'[s].lastID = wire[s].lastID
    BY <1>1, <2>1, <2>2, Typing DEF Wires, Stages
  <2>4. ConnectionOf(s)'
    BY <1>1, <1>4, <1>5, <1>6, <1>11, <2>3 DEF ConnectionOf
  <2>5. SafeOf(s)' /\ OrderOf(s)' /\ CoverOf(s)'
    BY <1>1, <1>2, <1>4, <1>6, <2>3, EndedFrames
  <2>6. TypesOK'
    <3>1. wire' \in [Subscriptions -> Wires] /\ handler' \in [Subscriptions -> Handlers]
      BY <1>1, <1>3, <1>6, <2>3 DEF TypesOK
    <3> QED BY <1>1, <1>2, <3>1, TypesKeptByServer
  <2> QED BY <1>2, <1>4, <1>5, <1>6, <1>7, <1>9, <2>4, <2>5, <2>6, ServerStep DEF StreamOf
<1> QED BY <1>8, <1>10, <1>11

\* A step of the handler that only moves it on, or takes its wake token.
LEMMA HandlerMoves ==
    ASSUME StreamInv, NEW s \in Subscriptions, NEW pc \in {"load", "drain"}, HubTheorems!HubInv',
           handler' = [handler EXCEPT ![s].pc = pc],
           pc = "load" => handler[s].pc = "authorize" /\ subs' = subs,
           pc = "drain" => handler[s].pc = "wait" /\ subs' = [subs EXCEPT ![s].wake = FALSE],
           UNCHANGED <<generation, position, log, closed, process, storeVars, wire, clientVars, faults>>
    PROVE  StreamInv'
<1>1. /\ StreamOf(s) /\ TypesOK /\ HubTheorems!HubInv /\ PageOK
      /\ ConnectionOf(s) /\ SafeOf(s) /\ WakeOf(s) /\ OrderOf(s) /\ CoverOf(s)
  BY DEF StreamInv, StreamOf
<1>2. /\ handler'[s].pending = handler[s].pending /\ handler'[s].pc = pc /\ handler'[s] \in Handlers
      /\ \A q \in Subscriptions \ {s} : handler'[q] = handler[q]
  <2>1. handler'[s] = [handler[s] EXCEPT !.pc = pc] /\ handler[s] \in Handlers /\ pc \in Pcs
    BY <1>1 DEF TypesOK, Pcs
  <2> QED BY <1>1, <2>1 DEF TypesOK, Handlers
<1>3. /\ subs'[s].open = subs[s].open /\ subs'[s].channel = subs[s].channel
      /\ subs'[s].position = subs[s].position
      /\ pc = "load" => subs'[s].wake = subs[s].wake
      /\ \A q \in Subscriptions \ {s} : subs'[q] = subs[q]
  BY <1>1, HubFacts
<1>4. UNCHANGED <<committed, command, access, sealed, source, page>>
  BY DEF storeVars, clientVars
<1>5. TypesOK'
  <2>1. /\ wire' \in [Subscriptions -> Wires] /\ handler' \in [Subscriptions -> Handlers]
        /\ faults' \in 0..MaxFaults
    BY <1>1, <1>2 DEF TypesOK
  <2> QED BY <1>1, <2>1, TypesKeptByServer
<1>6. ConnectionOf(s)'
  BY <1>1, <1>2, <1>3, <1>4 DEF ConnectionOf
<1>7. SafeOf(s)'
  BY <1>1, <1>2, <1>4, SafeKept
<1>8. WakeOf(s)'
  BY <1>1, <1>2, <1>3 DEF WakeOf
<1>9. OrderOf(s)'
  <2>1. position[Channel] \in Nat
    BY <1>1, HubFacts, ChannelIsOne
  <2> QED BY <1>1, <1>2, <1>3, <1>4, <2>1, OrderKept
<1>10. CoverOf(s)'
  <2>1. (Settled' => Settled) /\ PageHolds \subseteq PageHolds'
    BY <1>4 DEF Settled, PageHolds
  <2> QED BY <1>1, <1>2, <1>3, <1>4, <2>1, CoverKept
<1> QED
  BY <1>2, <1>3, <1>4, <1>5, <1>6, <1>7, <1>8, <1>9, <1>10, ServerStep DEF StreamOf

\* LoadEvent writes the first record it holds as a frame.
LEMMA WrittenFrame ==
    ASSUME HubTheorems!HubInv, TypesOK, NEW s \in Subscriptions, StreamOf(s), StoreOK, access,
           wire[s].stage = "stream", handler[s].pending # <<>>,
           Head(handler[s].pending).messageID \notin Hidden,
           wire'[s].stage = "stream",
           wire'[s].frames = wire[s].frames \o <<Created(Head(handler[s].pending).position,
                                                         Head(handler[s].pending).messageID)>>,
           handler'[s].pending = Tail(handler[s].pending), subs'[s].position = subs[s].position,
           UNCHANGED <<generation, position, log, committed, sealed, source, page>>
    PROVE  SafeOf(s)' /\ OrderOf(s)' /\ CoverOf(s)'
<1> DEFINE f == wire[s].frames
           r == handler[s].pending
           rest == Tail(r)
<1>1. SafeOf(s) /\ OrderOf(s) /\ CoverOf(s) /\ ConnectionOf(s)
  BY DEF StreamOf
<1>2. /\ f \in Seq(Frames) /\ Len(f) \in Nat /\ DOMAIN f = 1..Len(f) /\ \A i \in DOMAIN f : f[i] \in Frames
      /\ r \in Seq(Records)
      /\ \A i \in DOMAIN r : r[i].position \in Nat /\ r[i].messageID \in Messages
  BY Typing
<1>3. /\ Head(r) = r[1] /\ 1 \in DOMAIN r /\ DOMAIN r = 1..Len(r) /\ Len(r) \in Nat /\ Len(r) >= 1
      /\ DOMAIN rest = 1..(Len(r) - 1) /\ Len(rest) = Len(r) - 1
      /\ \A i \in 1..(Len(r) - 1) : rest[i] = r[i + 1]
  <2>1. r # <<>>
    OBVIOUS
  <2> HIDE DEF r
  <2> QED BY <1>2, <2>1, OneLess
<1>4. PendingOrder(s, 1)
  BY <1>1, <1>3 DEF OrderOf
<1>20. PICK n \in Nat : n = Len(f)
  BY <1>2
<1>21. PICK e \in Nat : e = r[1].position
  BY <1>2, <1>3
<1>22. PICK m \in Messages : m = r[1].messageID
  BY <1>2, <1>3
<1> DEFINE x == Created(e, m)
           g == f \o <<x>>
<1>5. e \in Nat /\ m \in Messages /\ e \in 0..MaxPosition /\ e <= position[Channel] /\ generation \in Nat
  <2>1. e <= subs[s].position
    BY <1>4, <1>21 DEF PendingOrder
  <2>2. /\ subs[s].position <= position[Channel] /\ subs[s].position \in Nat
        /\ position[Channel] \in Nat /\ position[Channel] <= MaxPosition /\ MaxPosition \in Nat
        /\ generation \in Nat
    BY <1>1, HubFacts, ChannelIsOne DEF ConnectionOf
  <2> QED BY <2>1, <2>2
<1>6. /\ x \in Frames /\ HasID(x) /\ x.event = "message.created" /\ x.message = m
      /\ x.id.generation = generation /\ x.id.position = e
  <2>1. e \in 0..MaxPosition
    BY <1>5
  <2>2. /\ Created(e, m) \in Frames /\ HasID(Created(e, m))
        /\ Created(e, m).event = "message.created" /\ Created(e, m).message = m
        /\ Created(e, m).id = [generation |-> generation, channel |-> Channel, position |-> e]
    BY <2>1, CreatedTypes
  <2> QED BY <2>2
<1>7. m \in committed \ (Hidden \cup sealed)
  BY <1>1, <1>3, <1>22 DEF SafeOf, StoreOK
<1> HIDE DEF x
<1>8. /\ Len(g) = n + 1 /\ DOMAIN g = 1..(n + 1)
      /\ \A i \in 1..n : g[i] = f[i]
      /\ g[n + 1] = x
  BY <1>2, <1>6, <1>20, OneMore
<1>9. wire'[s].frames = g /\ handler'[s].pending = rest
  BY <1>3, <1>21, <1>22 DEF x
<1> HIDE DEF f, r, g, rest
<1>10. \A i \in DOMAIN rest : i + 1 \in DOMAIN r /\ rest[i] = r[i + 1] /\ i \in Nat
  BY <1>3
<1>11. SafeOf(s)'
  <2>1. \A i \in DOMAIN rest : rest[i].messageID \in committed
    BY <1>1, <1>10 DEF SafeOf, r
  <2>2. ASSUME NEW i \in DOMAIN g, g[i].event = "message.created"
        PROVE  g[i].message \in committed \ (Hidden \cup sealed)
    <3>1. CASE i = n + 1
      BY <1>6, <1>7, <1>8, <3>1
    <3>2. CASE i # n + 1
      <4>1. i \in 1..n
        BY <1>2, <1>8, <3>2
      <4> QED BY <1>1, <1>2, <1>8, <1>20, <2>2, <4>1 DEF SafeOf, f
    <3> QED BY <3>1, <3>2
  <2> QED BY <1>9, <2>1, <2>2 DEF SafeOf
<1>12. CursorOrder(s)
  BY <1>1 DEF OrderOf
<1>13. \A i \in 1..n : HasID(f[i]) => FrameOrder(s, i)
  BY <1>1, <1>2, <1>20 DEF OrderOf, f
<1>14. \A i \in DOMAIN r : PendingOrder(s, i)
  BY <1>1 DEF OrderOf, r
<1>15. OrderOf(s)'
  <2>1. ASSUME NEW i \in 1..n, HasID(f[i]) PROVE FrameOrder(s, i)'
    <3>1. FrameOrder(s, i) /\ g[i] = f[i]
      BY <1>8, <1>13, <2>1
    <3>2. CursorOK(wire[s].frames[i].id)'
      BY <1>9, <3>1 DEF FrameOrder, CursorOK, f
    <3>3. f[i].id.generation = generation /\ f[i].id.position < e
      BY <1>2, <1>4, <1>20, <1>21, <2>1, <3>1 DEF FrameOrder, PendingOrder, f, r
    <3>4. ASSUME NEW k \in DOMAIN g, i < k, HasID(g[k])
          PROVE  g[i].id.generation = g[k].id.generation /\ g[i].id.position < g[k].id.position
      <4>1. CASE k = n + 1
        BY <1>6, <1>8, <3>1, <3>3, <4>1
      <4>2. CASE k # n + 1
        <5>1. k \in 1..n
          BY <1>2, <1>8, <4>2
        <5> QED BY <1>2, <1>8, <1>20, <3>1, <3>4, <5>1 DEF FrameOrder, f
      <4> QED BY <4>1, <4>2
    <3> QED BY <1>9, <3>1, <3>2, <3>4 DEF FrameOrder, HasID, f
  <2>2. ASSUME NEW i \in DOMAIN g, i = n + 1 PROVE FrameOrder(s, i)'
    <3>1. g[i] = x
      BY <1>8, <2>2
    <3>2. CursorOK(wire[s].frames[i].id)'
      <4>1. /\ wire'[s].frames[i].id.generation = generation
            /\ wire'[s].frames[i].id.position = e
        BY <1>6, <1>9, <3>1
      <4>2. generation' = generation /\ position' = position /\ generation <= generation
        BY <1>5
      <4>3. e <= position'[Channel]
        BY <1>5, <4>2
      <4> QED BY <4>1, <4>2, <4>3 DEF CursorOK
    <3>3. e <= subs[s].position /\ (source.last # NoCursor => source.last.position < e)
      BY <1>4, <1>21 DEF PendingOrder, r
    <3>4. \A k \in DOMAIN g : ~(i < k)
      BY <1>2, <1>8, <2>2
    <3> QED BY <1>6, <1>9, <1>12, <3>1, <3>2, <3>3, <3>4 DEF FrameOrder, CursorOrder
  <2>3. ASSUME NEW i \in DOMAIN rest PROVE PendingOrder(s, i)'
    <3>1. /\ i + 1 \in DOMAIN r /\ rest[i] = r[i + 1] /\ PendingOrder(s, i + 1) /\ i \in Nat
      BY <1>10, <1>14
    <3>2. e < r[i + 1].position
      BY <1>3, <1>4, <1>21, <3>1 DEF PendingOrder, r
    <3>3. \A k \in DOMAIN g : HasID(g[k]) => g[k].id.position < rest[i].position
      <4>1. TAKE k \in DOMAIN g
      <4>2. CASE k = n + 1
        BY <1>6, <1>8, <3>1, <3>2, <4>2
      <4>3. CASE k # n + 1
        <5>1. k \in 1..n
          BY <1>2, <1>8, <4>3
        <5> QED BY <1>2, <1>8, <1>20, <3>1, <5>1 DEF PendingOrder, f, r
      <4> QED BY <4>2, <4>3
    <3>4. \A k \in DOMAIN rest : i < k => rest[i].position < rest[k].position
      <4>1. TAKE k \in DOMAIN rest
      <4>2. HAVE i < k
      <4>3. k + 1 \in DOMAIN r /\ rest[k] = r[k + 1] /\ i + 1 < k + 1
        BY <1>10, <3>1, <4>2
      <4> QED BY <3>1, <4>3 DEF PendingOrder, r
    <3>5. rest[i].position <= subs[s].position
      BY <3>1 DEF PendingOrder, r
    <3>6. source.last # NoCursor => source.last.position < rest[i].position
      BY <3>1 DEF PendingOrder, r
    <3> QED BY <1>9, <3>3, <3>4, <3>5, <3>6 DEF PendingOrder, HasID
  <2>4. CursorOrder(s)'
    BY <1>12 DEF CursorOrder
  <2>5. ASSUME NEW i \in DOMAIN g, HasID(g[i]) PROVE FrameOrder(s, i)'
    <3>1. i = n + 1 \/ i \in 1..n
      BY <1>2, <1>8
    <3> QED BY <1>8, <2>1, <2>2, <2>5, <3>1
  <2> QED BY <1>9, <2>3, <2>4, <2>5 DEF OrderOf, HasID
<1>16. CoverOf(s)'
  <2> SUFFICES ASSUME Settled' PROVE CoverOf(s)'
    BY DEF CoverOf
  <2>1. Settled
    BY DEF Settled
  <2>2. \A j : OnPage(j) => OnPage(j)'
    BY DEF OnPage, PageHolds
  <2>3. ASSUME NEW i \in 0..n, NEW j PROVE InFrames(s, i, j) => InFrames(s, i, j)' /\ InFrames(s, n + 1, j)'
    <3>1. \A k \in 1..i : k \in 1..n /\ k \in 1..(n + 1) /\ g[k] = f[k]
      BY <1>2, <1>8
    <3> QED BY <1>9, <3>1 DEF InFrames, f
  <2>4. ASSUME NEW j, m = log[Channel][j] PROVE InFrames(s, n + 1, j)'
    <3>1. n + 1 \in 1..(n + 1)
      BY <1>2
    <3> QED BY <1>6, <1>8, <1>9, <2>4, <3>1 DEF InFrames
  <2>5. ASSUME NEW i \in DOMAIN r, NEW j, InPending(s, i, j)
        PROVE  m = log[Channel][j] \/ InPending(s, i - 1, j)'
    <3>1. PICK k \in 1..i : r[k].messageID = log[Channel][j]
      BY <2>5 DEF InPending, r
    <3>2. CASE k = 1
      BY <1>22, <3>1, <3>2
    <3>3. CASE k # 1
      <4>1. k - 1 \in 1..(i - 1) /\ k - 1 \in 1..(Len(r) - 1) /\ (k - 1) + 1 = k
        BY <1>3, <3>3
      <4>2. rest[k - 1] = r[k]
        BY <1>3, <4>1
      <4> QED BY <1>9, <3>1, <4>1, <4>2 DEF InPending
    <3> QED BY <3>2, <3>3
  <2>6. ASSUME NEW i \in DOMAIN r, NEW j, OnPage(j) \/ InFrames(s, n, j) \/ InPending(s, i, j)
        PROVE  OnPage(j)' \/ InFrames(s, n + 1, j)' \/ InPending(s, i - 1, j)'
    <3>1. n \in 0..n
      OBVIOUS
    <3> QED BY <2>2, <2>3, <2>4, <2>5, <2>6, <3>1
  <2>7. Len(wire[s].frames) = n /\ Len(wire'[s].frames) = n + 1
    BY <1>8, <1>9, <1>20 DEF f
  <2>8. /\ \A i \in 1..n : HasID(f[i]) /\ f[i].id.generation = generation => FrameCover(s, i)
        /\ SubscriptionCover(s) /\ \A i \in DOMAIN r : PendingCover(s, i)
    BY <1>1, <1>2, <1>20, <2>1 DEF CoverOf, f, r
  <2>9. ASSUME NEW i \in DOMAIN g, HasID(g[i]), g[i].id.generation = generation
        PROVE  FrameCover(s, i)'
    <3>1. CASE i = n + 1
      <4>1. \A j \in 1..e : OnPage(j) \/ InFrames(s, n, j) \/ InPending(s, 1, j)
        BY <1>3, <1>21, <2>7, <2>8 DEF PendingCover, r
      <4>2. \A j : ~InPending(s, 0, j)'
        BY DEF InPending
      <4>3. \A j \in 1..e : OnPage(j)' \/ InFrames(s, n + 1, j)'
        BY <1>3, <2>6, <4>1, <4>2
      <4> QED BY <1>6, <1>8, <1>9, <3>1, <4>3 DEF FrameCover
    <3>2. CASE i # n + 1
      <4>1. i \in 1..n /\ g[i] = f[i] /\ i \in 0..n
        BY <1>8, <3>2
      <4>2. FrameCover(s, i)
        BY <2>8, <2>9, <4>1
      <4> QED BY <1>9, <2>2, <2>3, <4>1, <4>2 DEF FrameCover, f
    <3> QED BY <3>1, <3>2
  <2>10. ASSUME NEW i \in DOMAIN rest PROVE PendingCover(s, i)'
    <3>1. i + 1 \in DOMAIN r /\ rest[i] = r[i + 1] /\ i \in Nat /\ (i + 1) - 1 = i
      BY <1>10
    <3>2. \A j \in 1..rest[i].position : OnPage(j) \/ InFrames(s, n, j) \/ InPending(s, i + 1, j)
      BY <2>7, <2>8, <3>1 DEF PendingCover, r
    <3>3. \A j \in 1..rest[i].position : OnPage(j)' \/ InFrames(s, n + 1, j)' \/ InPending(s, i, j)'
      BY <2>6, <3>1, <3>2
    <3> QED BY <1>9, <2>7, <3>3 DEF PendingCover
  <2>11. SubscriptionCover(s)'
    <3>1. PICK last \in Nat : last = Len(r)
      BY <1>3
    <3>2. last \in DOMAIN r /\ last - 1 = Len(rest)
      BY <1>3, <3>1
    <3>3. \A j \in 1..subs[s].position : OnPage(j) \/ InFrames(s, n, j) \/ InPending(s, last, j)
      BY <2>7, <2>8, <3>1 DEF SubscriptionCover, r
    <3>4. \A j \in 1..subs[s].position : OnPage(j)' \/ InFrames(s, n + 1, j)' \/ InPending(s, last - 1, j)'
      BY <2>6, <3>2, <3>3
    <3> QED BY <1>9, <2>7, <3>2, <3>4 DEF SubscriptionCover
  <2> QED BY <1>9, <2>9, <2>10, <2>11 DEF CoverOf, HasID
<1> QED BY <1>11, <1>15, <1>16

\* LoadEvent drops a restricted reply.
LEMMA SkippedFrame ==
    ASSUME HubTheorems!HubInv, TypesOK, NEW s \in Subscriptions, StreamOf(s),
           handler[s].pending # <<>>, Head(handler[s].pending).messageID \in Hidden,
           wire'[s] = wire[s],
           handler'[s].pending = Tail(handler[s].pending), subs'[s].position = subs[s].position,
           UNCHANGED <<generation, position, log, committed, sealed, source, page>>
    PROVE  SafeOf(s)' /\ OrderOf(s)' /\ CoverOf(s)'
<1> DEFINE f == wire[s].frames
           r == handler[s].pending
           rest == Tail(r)
<1>1. SafeOf(s) /\ OrderOf(s) /\ CoverOf(s)
  BY DEF StreamOf
<1>2. /\ f \in Seq(Frames) /\ Len(f) \in Nat /\ DOMAIN f = 1..Len(f)
      /\ r \in Seq(Records)
      /\ \A i \in DOMAIN r : r[i].position \in Nat /\ r[i].messageID \in Messages
  BY Typing
<1>3. /\ Head(r) = r[1] /\ 1 \in DOMAIN r /\ DOMAIN r = 1..Len(r) /\ Len(r) \in Nat /\ Len(r) >= 1
      /\ DOMAIN rest = 1..(Len(r) - 1) /\ Len(rest) = Len(r) - 1
      /\ \A i \in 1..(Len(r) - 1) : rest[i] = r[i + 1]
  <2>1. r # <<>>
    OBVIOUS
  <2> HIDE DEF r
  <2> QED BY <1>2, <2>1, OneLess
<1>4. r[1].messageID \in Hidden
  BY <1>3
<1>5. wire'[s].frames = f /\ wire'[s].stage = wire[s].stage /\ handler'[s].pending = rest
  OBVIOUS
<1> HIDE DEF f, r, rest
<1>6. \A i \in DOMAIN rest : i + 1 \in DOMAIN r /\ rest[i] = r[i + 1] /\ i \in Nat
  BY <1>3
<1>7. SafeOf(s)'
  <2>1. \A i \in DOMAIN rest : rest[i].messageID \in committed
    BY <1>1, <1>6 DEF SafeOf, r
  <2> QED BY <1>1, <1>5, <2>1 DEF SafeOf, f
<1>8. OrderOf(s)'
  <2>1. ASSUME NEW i \in DOMAIN f, HasID(f[i]) PROVE FrameOrder(s, i)'
    <3>1. FrameOrder(s, i)
      BY <1>1, <2>1 DEF OrderOf, f
    <3>2. CursorOK(wire[s].frames[i].id)'
      BY <1>5, <3>1 DEF FrameOrder, CursorOK, f
    <3> QED BY <1>5, <3>1, <3>2 DEF FrameOrder, HasID, f
  <2>2. ASSUME wire[s].stage = "stream", NEW i \in DOMAIN rest PROVE PendingOrder(s, i)'
    <3>1. /\ i + 1 \in DOMAIN r /\ rest[i] = r[i + 1] /\ PendingOrder(s, i + 1) /\ i \in Nat
      BY <1>1, <1>6, <2>2 DEF OrderOf, r
    <3>2. \A k \in DOMAIN rest : i < k => rest[i].position < rest[k].position
      <4>1. TAKE k \in DOMAIN rest
      <4>2. HAVE i < k
      <4>3. k + 1 \in DOMAIN r /\ rest[k] = r[k + 1] /\ i + 1 < k + 1
        BY <1>6, <3>1, <4>2
      <4> QED BY <3>1, <4>3 DEF PendingOrder, r
    <3> QED BY <1>5, <3>1, <3>2 DEF PendingOrder, HasID, f, r
  <2>3. CursorOrder(s) => CursorOrder(s)'
    BY DEF CursorOrder
  <2> QED BY <1>1, <1>5, <2>1, <2>2, <2>3 DEF OrderOf, HasID, f
<1>9. CoverOf(s)'
  <2> SUFFICES ASSUME Settled' PROVE CoverOf(s)'
    BY DEF CoverOf
  <2>1. Settled
    BY DEF Settled
  <2>2. /\ \A j : OnPage(j) <=> OnPage(j)'
        /\ \A k, j : InFrames(s, k, j) <=> InFrames(s, k, j)'
    BY DEF OnPage, PageHolds, InFrames
  <2>3. ASSUME NEW i \in DOMAIN r, NEW j, InPending(s, i, j)
        PROVE  OnPage(j) \/ InPending(s, i - 1, j)'
    <3>1. PICK k \in 1..i : r[k].messageID = log[Channel][j]
      BY <2>3 DEF InPending, r
    <3>2. CASE k = 1
      BY <1>4, <3>1, <3>2 DEF OnPage
    <3>3. CASE k # 1
      <4>1. k - 1 \in 1..(i - 1) /\ k - 1 \in 1..(Len(r) - 1) /\ (k - 1) + 1 = k
        BY <1>3, <3>3
      <4>2. rest[k - 1] = r[k]
        BY <1>3, <4>1
      <4> QED BY <1>5, <3>1, <4>1, <4>2 DEF InPending
    <3> QED BY <3>2, <3>3
  <2>4. PICK n \in Nat : n = Len(f)
    BY <1>2
  <2>5. Len(wire[s].frames) = n /\ Len(wire'[s].frames) = n
    BY <1>5, <2>4 DEF f
  <2>6. ASSUME NEW i \in DOMAIN r, NEW j, OnPage(j) \/ InFrames(s, n, j) \/ InPending(s, i, j)
        PROVE  OnPage(j)' \/ InFrames(s, n, j)' \/ InPending(s, i - 1, j)'
    BY <2>2, <2>3, <2>6
  <2>7. ASSUME NEW i \in DOMAIN f, HasID(f[i]), f[i].id.generation = generation
        PROVE  FrameCover(s, i)'
    BY <1>1, <1>5, <2>1, <2>2, <2>7 DEF CoverOf, FrameCover, f
  <2>8. ASSUME wire[s].stage = "stream", NEW i \in DOMAIN rest PROVE PendingCover(s, i)'
    <3>1. i + 1 \in DOMAIN r /\ rest[i] = r[i + 1] /\ i \in Nat /\ (i + 1) - 1 = i
      BY <1>6
    <3>2. PendingCover(s, i + 1)
      BY <1>1, <2>1, <2>8, <3>1 DEF CoverOf, r
    <3>3. \A j \in 1..rest[i].position : OnPage(j) \/ InFrames(s, n, j) \/ InPending(s, i + 1, j)
      BY <2>5, <3>1, <3>2 DEF PendingCover, r
    <3>4. \A j \in 1..rest[i].position : OnPage(j)' \/ InFrames(s, n, j)' \/ InPending(s, i, j)'
      BY <2>6, <3>1, <3>3
    <3> QED BY <1>5, <2>5, <3>4 DEF PendingCover
  <2>9. ASSUME wire[s].stage = "stream" PROVE SubscriptionCover(s)'
    <3>1. PICK last \in Nat : last = Len(r)
      BY <1>3
    <3>2. last \in DOMAIN r /\ last - 1 = Len(rest)
      BY <1>3, <3>1
    <3>3. SubscriptionCover(s)
      BY <1>1, <2>1, <2>9 DEF CoverOf
    <3>4. \A j \in 1..subs[s].position : OnPage(j) \/ InFrames(s, n, j) \/ InPending(s, last, j)
      BY <2>5, <3>1, <3>3 DEF SubscriptionCover, r
    <3>5. \A j \in 1..subs[s].position : OnPage(j)' \/ InFrames(s, n, j)' \/ InPending(s, last - 1, j)'
      BY <2>6, <3>2, <3>4
    <3> QED BY <1>5, <2>5, <3>2, <3>5 DEF SubscriptionCover
  <2> QED BY <1>5, <2>7, <2>8, <2>9 DEF CoverOf, HasID, f
<1> QED BY <1>7, <1>8, <1>9

LEMMA LoadStep ==
    ASSUME StreamInv, NEW s \in Subscriptions, LoadEvent(s), access, HubTheorems!HubInv'
    PROVE  StreamInv'
<1> DEFINE r == handler[s].pending
           event == Head(r)
           rest == Tail(r)
           frame == Created(event.position, event.messageID)
<1>1. /\ StreamOf(s) /\ TypesOK /\ HubTheorems!HubInv /\ PageOK /\ StoreOK
      /\ ConnectionOf(s) /\ SafeOf(s) /\ WakeOf(s) /\ OrderOf(s)
  BY DEF StreamInv, StreamOf
<1>2. /\ handler[s].pc = "load" /\ r # <<>> /\ subs[s].open /\ subs[s].channel = Channel
      /\ wire[s].stage \in {"stream", "cut"}
  BY <1>1 DEF LoadEvent, ConnectionOf
<1>3. /\ handler' = [handler EXCEPT ![s] = [pc |-> IF rest = <<>> THEN "wait" ELSE "authorize",
                                            pending |-> rest]]
      /\ wire' = [wire EXCEPT ![s] = IF event.messageID \in Hidden THEN wire[s]
                                     ELSE Written(s, <<frame>>)]
      /\ UNCHANGED <<hubVars, process, storeVars, clientVars, faults>>
  BY DEF LoadEvent
<1>4. UNCHANGED <<generation, position, log, closed, subs, committed, command, access, sealed, source, page>>
  BY <1>3 DEF hubVars, storeVars, clientVars
<1>5. rest \in Seq(Records) /\ event = r[1] /\ 1 \in DOMAIN r
  <2>1. r \in Seq(Records)
    BY <1>1, Typing
  <2> HIDE DEF r
  <2>2. 1 \in 1..Len(r) /\ DOMAIN r = 1..Len(r)
    BY <1>2, <2>1, OneLess
  <2> QED BY <1>2, <2>1, <2>2, OneLess
<1>6. event.position \in Nat /\ event.messageID \in Messages
  BY <1>1, <1>5, Typing
<1> HIDE DEF rest, event, frame
<1>7. /\ handler'[s] \in Handlers /\ handler'[s].pending = rest
      /\ handler'[s].pc \in {"wait", "authorize"} /\ (handler'[s].pc = "authorize" <=> rest # <<>>)
      /\ \A q \in Subscriptions \ {s} : handler'[q] = handler[q]
  <2>1. handler'[s] = [pc |-> IF rest = <<>> THEN "wait" ELSE "authorize", pending |-> rest]
    BY <1>1, <1>3 DEF TypesOK
  <2> QED BY <1>1, <1>3, <1>5, <2>1 DEF TypesOK, Handlers, Pcs
<1>8. \A q \in Subscriptions \ {s} : wire'[q] = wire[q]
  BY <1>1, <1>3 DEF TypesOK
<1>9. WakeOf(s)'
  BY <1>1, <1>2, <1>4 DEF WakeOf
<1>10. ASSUME wire'[s] \in Wires, wire'[s].stage = wire[s].stage, wire'[s].lastID = wire[s].lastID,
              wire[s].stage = "cut" => wire'[s].frames = <<>>,
              SafeOf(s)' /\ OrderOf(s)' /\ CoverOf(s)'
       PROVE  StreamInv'
  <2>1. TypesOK'
    <3>1. /\ wire' \in [Subscriptions -> Wires] /\ handler' \in [Subscriptions -> Handlers]
          /\ faults' \in 0..MaxFaults
      BY <1>1, <1>3, <1>7, <1>10 DEF TypesOK
    <3> QED BY <1>1, <1>3, <1>4, <3>1, TypesKeptByServer
  <2>2. ConnectionOf(s)'
    BY <1>1, <1>2, <1>4, <1>7, <1>10 DEF ConnectionOf
  <2> QED BY <1>4, <1>7, <1>8, <1>9, <1>10, <2>1, <2>2, ServerStep DEF StreamOf
<1>11. wire[s].stage = "cut" => wire[s].frames = <<>>
  BY <1>1 DEF ConnectionOf
<1>12. CASE event.messageID \in Hidden
  <2>1. wire'[s] = wire[s] /\ wire[s] \in Wires
    BY <1>1, <1>3, <1>12 DEF TypesOK
  <2>2. SafeOf(s)' /\ OrderOf(s)' /\ CoverOf(s)'
    BY <1>1, <1>2, <1>4, <1>7, <1>12, <2>1, SkippedFrame DEF event, rest
  <2> QED BY <1>10, <1>11, <2>1, <2>2
<1>13. CASE event.messageID \notin Hidden /\ wire[s].stage = "cut"
  <2>1. wire'[s] = wire[s] /\ wire[s] \in Wires
    BY <1>1, <1>3, <1>13 DEF TypesOK, Written
  <2>2. OrderOf(s)' /\ CoverOf(s)'
    BY <1>11, <1>13, <2>1, NothingOnTheWay
  <2>3. \A i \in DOMAIN rest : rest[i].messageID \in committed
    <3>1. \A i \in DOMAIN rest : i + 1 \in DOMAIN r /\ rest[i] = r[i + 1]
      <4>1. r \in Seq(Records)
        BY <1>1, Typing
      <4> HIDE DEF r
      <4>2. /\ DOMAIN rest = 1..(Len(r) - 1) /\ DOMAIN r = 1..Len(r) /\ Len(r) \in Nat
            /\ \A i \in 1..(Len(r) - 1) : rest[i] = r[i + 1]
        BY <1>2, <4>1, OneLess DEF rest
      <4> QED BY <4>2
    <3> QED BY <1>1, <3>1 DEF SafeOf
  <2>4. SafeOf(s)'
    BY <1>4, <1>7, <1>11, <1>13, <2>1, <2>3 DEF SafeOf
  <2> QED BY <1>10, <1>11, <2>1, <2>2, <2>4
<1>14. CASE event.messageID \notin Hidden /\ wire[s].stage = "stream"
  <2>1. wire'[s] = [wire[s] EXCEPT !.frames = wire[s].frames \o <<frame>>]
    <3>1. wire \in [Subscriptions -> Wires] /\ wire[s] \in Wires /\ wire[s].stage # "cut"
      BY <1>1, <1>14 DEF TypesOK
    <3>2. Written(s, <<frame>>) = [wire[s] EXCEPT !.frames = wire[s].frames \o <<frame>>]
      BY <3>1 DEF Written, Wires
    <3> QED BY <1>3, <1>14, <3>1, <3>2
  <2>2. event.position \in 0..MaxPosition
    <3>1. event.position <= subs[s].position
      BY <1>1, <1>5, <1>14 DEF OrderOf, PendingOrder
    <3>2. /\ subs[s].position <= position[Channel] /\ subs[s].position \in Nat
          /\ position[Channel] \in Nat /\ position[Channel] <= MaxPosition /\ MaxPosition \in Nat
      BY <1>1, <1>2, HubFacts, ChannelIsOne
    <3> QED BY <1>6, <3>1, <3>2
  <2>3. frame \in Frames
    <3>1. PICK p \in 0..MaxPosition : p = event.position
      BY <2>2
    <3>2. PICK m \in Messages : m = event.messageID
      BY <1>6
    <3>3. Created(p, m) \in Frames
      BY <1>1, CreatedTypes
    <3> QED BY <3>1, <3>2, <3>3 DEF frame
  <2>4. wire[s].frames \o <<frame>> \in Seq(Frames)
    BY <1>1, <2>3, Typing, OneMore
  <2>5. /\ wire'[s] \in Wires /\ wire'[s].stage = "stream" /\ wire'[s].lastID = wire[s].lastID
        /\ wire'[s].frames = wire[s].frames \o <<frame>>
    BY <1>1, <1>14, <2>1, <2>4, Typing DEF Wires
  <2>6. SafeOf(s)' /\ OrderOf(s)' /\ CoverOf(s)'
    BY <1>1, <1>2, <1>4, <1>7, <1>14, <2>5, WrittenFrame DEF event, rest, frame
  <2> QED BY <1>10, <1>14, <2>5, <2>6
<1> QED BY <1>2, <1>12, <1>13, <1>14

-----------------------------------------------------------------------------
(* Commands, permissions and the process. *)

\* A step that leaves connections, page and positions alone.
LEMMA StoreStep ==
    ASSUME StreamInv, HubTheorems!HubInv', TypesOK', StoreOK',
           UNCHANGED <<generation, wire, handler, source, page>>,
           committed \subseteq committed', sealed' \cap committed \subseteq sealed,
           position[Channel] <= position'[Channel],
           \A j \in 1..position[Channel] : log'[Channel][j] = log[Channel][j],
           \A s \in Subscriptions :
              /\ subs'[s].open = subs[s].open /\ subs'[s].channel = subs[s].channel
              /\ subs'[s].position = subs[s].position
              /\ \/ subs'[s].open => subs'[s].wake
                 \/ subs'[s].wake = subs[s].wake /\ position' = position /\ closed' = closed
    PROVE  StreamInv'
<1>1. position[Channel] \in Nat /\ position'[Channel] \in Nat
  <2>1. position' \in [Channels -> 0..MaxPosition]
    BY DEF HubTheorems!HubInv, HubTheorems!TypeOK
  <2> QED BY <2>1, HubFacts, ChannelIsOne DEF StreamInv
<1>2. PageOK'
  BY DEF StreamInv, PageOK
<1>3. (Settled' <=> Settled) /\ PageHolds' = PageHolds
  BY DEF Settled, PageHolds
<1>4. PageCursorOK'
  <2>1. source.last # NoCursor =>
           source.last \in PageCursors /\ source.last.position \in Nat /\ source.last.generation \in Nat
    <3>1. source.last \in PageCursors \cup {NoCursor}
      BY DEF StreamInv, TypesOK, Sources
    <3> QED BY <3>1, CursorTypes
  <2>2. source.last # NoCursor => CursorOK(source.last)
    BY DEF StreamInv, PageCursorOK
  <2>3. source'.last # NoCursor => CursorOK(source.last)'
    BY <1>1, <2>1, <2>2 DEF CursorOK
  <2>4. ASSUME Settled', source'.last.generation = generation'
        PROVE  \A j \in 1..source'.last.position : OnPage(j)'
    <3>1. source.last # NoCursor /\ source.last.generation = generation
      BY <1>3, <2>4, SettledHasCursor DEF StreamInv
    <3>2. source.last.position <= position[Channel]
      BY <2>2, <3>1 DEF CursorOK
    <3>3. \A j \in 1..source.last.position : OnPage(j) /\ log'[Channel][j] = log[Channel][j]
      BY <1>1, <1>3, <2>1, <2>4, <3>1, <3>2 DEF StreamInv, PageCursorOK
    <3> QED BY <1>3, <3>3 DEF OnPage
  <2> QED BY <2>3, <2>4 DEF PageCursorOK
<1>5. ASSUME NEW s \in Subscriptions PROVE StreamOf(s)'
  <2>1. /\ StreamOf(s) /\ TypesOK /\ HubTheorems!HubInv
        /\ ConnectionOf(s) /\ SafeOf(s) /\ WakeOf(s) /\ OrderOf(s) /\ CoverOf(s)
    BY DEF StreamInv, StreamOf
  <2>2. ConnectionOf(s)'
    BY <2>1, ConnectionKept
  <2>3. SafeOf(s)'
    BY <2>1, SafeKept
  <2>4. WakeOf(s)'
    BY <2>1, <2>2 DEF WakeOf, ConnectionOf
  <2>5. OrderOf(s)'
    BY <1>1, <2>1, OrderKept
  <2>6. CoverOf(s)'
    BY <1>3, <2>1, CoverKept
  <2> QED BY <2>2, <2>3, <2>4, <2>5, <2>6 DEF StreamOf
<1> QED BY <1>2, <1>4, <1>5 DEF StreamInv

LEMMA CommitStep ==
    ASSUME StreamInv, NEW m \in Messages, Commit(m), HubTheorems!HubInv'
    PROVE  StreamInv'
<1>1. TypesOK /\ StoreOK /\ HubTheorems!HubInv
  BY DEF StreamInv
<1>2. /\ command' = [command EXCEPT ![m] = "committed"] /\ committed' = committed \cup {m}
      /\ sealed' = (IF access THEN sealed ELSE sealed \cup {m}) /\ access' = access
      /\ UNCHANGED <<generation, position, log, closed, subs, wire, handler, source, page, process, faults>>
      /\ command[m] = "idle"
  BY DEF Commit, hubVars, clientVars
<1>3. m \notin committed
  BY <1>1, <1>2 DEF StoreOK
<1>4. TypesOK'
  BY <1>1, <1>2 DEF TypesOK, Commands
<1>5. StoreOK'
  <2>1. \A k \in Messages : command'[k] = "idle" <=> k \notin committed'
    BY <1>1, <1>2 DEF StoreOK, TypesOK
  <2>2. PageHolds' \subseteq committed' \ (Hidden \cup sealed')
    <3>1. PageHolds' = PageHolds
      BY <1>2 DEF PageHolds
    <3> QED BY <1>1, <1>2, <1>3, <3>1 DEF StoreOK
  <2>3. access' => sealed' = {}
    BY <1>1, <1>2 DEF StoreOK
  <2>4. \A c \in Channels : \A i \in DOMAIN log'[c] : log'[c][i] \in committed'
    BY <1>1, <1>2 DEF StoreOK
  <2> QED BY <2>1, <2>2, <2>3, <2>4 DEF StoreOK
<1>6. committed \subseteq committed' /\ sealed' \cap committed \subseteq sealed
  BY <1>2, <1>3
<1>7. position[Channel] \in Nat
  BY <1>1, HubFacts, ChannelIsOne
<1> QED BY <1>2, <1>4, <1>5, <1>6, <1>7, StoreStep

\* The hub appends the Message to the log and wakes the Channel's handlers.
LEMMA AnnounceStep ==
    ASSUME StreamInv, NEW m \in Messages, Announce(m), HubTheorems!HubInv'
    PROVE  StreamInv'
<1>1. TypesOK /\ StoreOK /\ HubTheorems!HubInv /\ \A s \in Subscriptions : ConnectionOf(s)
  BY DEF StreamInv, StreamOf
<1>2. /\ command' = [command EXCEPT ![m] = "announced"] /\ command[m] = "committed"
      /\ UNCHANGED <<committed, access, sealed, wire, handler, source, page, process, faults>>
  BY DEF Announce, clientVars
<1>3. m \in committed
  BY <1>1, <1>2 DEF StoreOK
<1>4. position[Channel] \in Nat /\ log[Channel] \in Seq(Messages) /\ Len(log[Channel]) = position[Channel]
  BY <1>1, HubFacts, ChannelIsOne
<1>5. /\ generation' = generation /\ closed' = closed
      /\ \A c \in Channels : \A i \in DOMAIN log'[c] : log'[c][i] \in committed
      /\ position[Channel] <= position'[Channel]
      /\ \A j \in 1..position[Channel] : log'[Channel][j] = log[Channel][j]
      /\ \A s \in Subscriptions :
            /\ subs'[s].open = subs[s].open /\ subs'[s].channel = subs[s].channel
            /\ subs'[s].position = subs[s].position
            /\ \/ subs'[s].open => subs'[s].wake
               \/ subs'[s].wake = subs[s].wake /\ position' = position /\ closed' = closed
  <2>1. CASE closed
    <3>1. UNCHANGED <<generation, position, log, closed, subs>>
      BY <2>1 DEF Announce, hubVars
    <3> QED BY <1>1, <1>4, <3>1 DEF StoreOK
  <2>2. CASE ~closed
    <3>1. /\ position' = [position EXCEPT ![Channel] = @ + 1] /\ subs' = Hub!Woken(Channel)
          /\ log' = [log EXCEPT ![Channel] = Append(@, m)] /\ UNCHANGED <<generation, closed>>
      BY <2>2 DEF Announce, Hub!NotifyMessageCreated
    <3>2. position'[Channel] = position[Channel] + 1 /\ log'[Channel] = Append(log[Channel], m)
      BY <1>1, <3>1, HubFacts, ChannelIsOne
    <3>3. \A j \in 1..position[Channel] : log'[Channel][j] = log[Channel][j]
      BY <1>4, <3>2
    <3>4. \A c \in Channels : \A i \in DOMAIN log'[c] : log'[c][i] \in committed
      <4>1. \A i \in DOMAIN log'[Channel] : log'[Channel][i] \in committed
        <5>1. DOMAIN log'[Channel] = 1..(position[Channel] + 1) /\ log'[Channel][position[Channel] + 1] = m
          BY <1>4, <3>2
        <5>2. DOMAIN log[Channel] = 1..position[Channel]
          BY <1>4
        <5>3. \A i \in 1..position[Channel] : log[Channel][i] \in committed
          BY <1>1, <5>2, ChannelIsOne DEF StoreOK
        <5>4. \A i \in 1..(position[Channel] + 1) :
                 i = position[Channel] + 1 \/ i \in 1..position[Channel]
          BY <1>4
        <5> QED BY <1>3, <3>3, <5>1, <5>3, <5>4
      <4>2. \A c \in Channels \ {Channel} : log'[c] = log[c]
        BY <1>1, <3>1, HubFacts
      <4> QED BY <1>1, <4>1, <4>2 DEF StoreOK
    <3>5. ASSUME NEW s \in Subscriptions
          PROVE  /\ subs'[s].open = subs[s].open /\ subs'[s].channel = subs[s].channel
                 /\ subs'[s].position = subs[s].position
                 /\ subs'[s].open => subs'[s].wake
      <4>1. subs'[s] = IF subs[s].open /\ subs[s].channel = Channel
                       THEN [subs[s] EXCEPT !.wake = TRUE] ELSE subs[s]
        BY <3>1 DEF Hub!Woken
      <4>2. subs[s] \in [open: BOOLEAN, channel: Channels, user: Users, position: Nat, wake: BOOLEAN]
        BY <1>1, HubFacts
      <4>3. subs[s].open => subs[s].channel = Channel
        BY <1>1 DEF ConnectionOf
      <4> QED BY <4>1, <4>2, <4>3
    <3> QED BY <1>4, <3>1, <3>2, <3>3, <3>4, <3>5
  <2> QED BY <2>1, <2>2
<1>6. TypesOK'
  BY <1>1, <1>2, <1>5 DEF TypesOK, Commands
<1>7. StoreOK'
  <2>1. \A k \in Messages : command'[k] = "idle" <=> k \notin committed'
    BY <1>1, <1>2 DEF StoreOK, TypesOK
  <2>2. PageHolds' = PageHolds
    BY <1>2 DEF PageHolds
  <2> QED BY <1>1, <1>2, <1>5, <2>1, <2>2 DEF StoreOK
<1> QED BY <1>2, <1>5, <1>6, <1>7, StoreStep

LEMMA LoseAckStep ==
    ASSUME StreamInv, NEW m \in Messages, LoseAck(m), HubTheorems!HubInv'
    PROVE  StreamInv'
<1>1. TypesOK /\ StoreOK /\ HubTheorems!HubInv
  BY DEF StreamInv
<1>2. /\ command' = [command EXCEPT ![m] = "ack lost"] /\ command[m] = "committed"
      /\ UNCHANGED <<generation, position, log, closed, subs, committed, access, sealed, wire, handler,
                     source, page, process, faults>>
  BY DEF LoseAck, hubVars, clientVars
<1>3. TypesOK'
  BY <1>1, <1>2 DEF TypesOK, Commands
<1>4. StoreOK'
  <2>1. \A k \in Messages : command'[k] = "idle" <=> k \notin committed'
    BY <1>1, <1>2 DEF StoreOK, TypesOK
  <2>2. PageHolds' = PageHolds
    BY <1>2 DEF PageHolds
  <2> QED BY <1>1, <1>2, <2>1, <2>2 DEF StoreOK
<1>5. /\ position[Channel] \in Nat /\ position[Channel] <= position'[Channel]
      /\ \A j \in 1..position[Channel] : log'[Channel][j] = log[Channel][j]
  <2>1. position[Channel] \in Nat
    BY <1>1, HubFacts, ChannelIsOne
  <2>2. position' = position /\ log' = log
    BY DEF LoseAck, hubVars
  <2> QED BY <2>1, <2>2
<1> QED BY <1>2, <1>3, <1>4, <1>5, StoreStep

LEMMA WithdrawOrRestartStep ==
    ASSUME StreamInv, Withdraw \/ Restart, HubTheorems!HubInv'
    PROVE  StreamInv'
<1>1. TypesOK /\ StoreOK /\ HubTheorems!HubInv
  BY DEF StreamInv
<1>2. /\ UNCHANGED <<generation, position, log, closed, subs, committed, command, sealed, wire, handler,
                     source, page, faults>>
      /\ access' = access \/ access' = FALSE
      /\ process' = process \/ process' = "up"
  BY DEF Withdraw, Restart, hubVars, storeVars, clientVars
<1>3. TypesOK'
  BY <1>1, <1>2 DEF TypesOK
<1>4. StoreOK'
  <2>1. PageHolds' = PageHolds
    BY <1>2 DEF PageHolds
  <2> QED BY <1>1, <1>2, <2>1 DEF StoreOK
<1>5. /\ position[Channel] \in Nat /\ position[Channel] <= position'[Channel]
      /\ \A j \in 1..position[Channel] : log'[Channel][j] = log[Channel][j]
  <2>1. position[Channel] \in Nat
    BY <1>1, HubFacts, ChannelIsOne
  <2> QED BY <1>2, <2>1
<1> QED BY <1>2, <1>3, <1>4, <1>5, StoreStep

\* Shutdown wakes every handler, so that each finds the hub closed.
LEMMA SignalStep ==
    ASSUME StreamInv, Signal, HubTheorems!HubInv'
    PROVE  StreamInv'
<1>1. TypesOK /\ StoreOK /\ HubTheorems!HubInv
  BY DEF StreamInv
<1>2. /\ UNCHANGED <<generation, position, log, committed, command, access, sealed, wire, handler,
                     source, page, faults>>
      /\ process' = "draining" /\ generation < MaxRestarts
      /\ subs' = [s \in Subscriptions |-> IF subs[s].open THEN [subs[s] EXCEPT !.wake = TRUE] ELSE subs[s]]
  BY DEF Signal, Hub!Shutdown, storeVars, clientVars
<1>3. TypesOK'
  BY <1>1, <1>2 DEF TypesOK
<1>4. StoreOK'
  <2>1. PageHolds' = PageHolds
    BY <1>2 DEF PageHolds
  <2> QED BY <1>1, <1>2, <2>1 DEF StoreOK
<1>5. /\ position[Channel] \in Nat /\ position[Channel] <= position'[Channel]
      /\ \A j \in 1..position[Channel] : log'[Channel][j] = log[Channel][j]
  <2>1. position[Channel] \in Nat
    BY <1>1, HubFacts, ChannelIsOne
  <2> QED BY <1>2, <2>1
<1>6. ASSUME NEW s \in Subscriptions
      PROVE  /\ subs'[s].open = subs[s].open /\ subs'[s].channel = subs[s].channel
             /\ subs'[s].position = subs[s].position
             /\ subs'[s].open => subs'[s].wake
  <2>1. subs[s] \in [open: BOOLEAN, channel: Channels, user: Users, position: Nat, wake: BOOLEAN]
    BY <1>1, HubFacts
  <2>2. subs'[s] = IF subs[s].open THEN [subs[s] EXCEPT !.wake = TRUE] ELSE subs[s]
    BY <1>2
  <2> QED BY <2>1, <2>2
<1> QED BY <1>2, <1>3, <1>4, <1>5, <1>6, StoreStep

\* A new process starts with an empty hub: the page's connection is over, and no
\* cursor belongs to the new generation.
LEMMA StopStep ==
    ASSUME StreamInv, Stop, HubTheorems!HubInv'
    PROVE  StreamInv'
<1>1. TypesOK /\ StoreOK /\ PageOK /\ PageCursorOK /\ HubTheorems!HubInv
  BY DEF StreamInv
<1>2. /\ UNCHANGED <<committed, access, sealed, source, page, faults>>
      /\ process' = "down" /\ generation' = generation + 1
      /\ log' = [c \in Channels |-> <<>>]
      /\ command' = [m \in Messages |-> IF command[m] = "committed" THEN "crashed" ELSE command[m]]
  BY DEF Stop, clientVars
<1>3. generation \in Nat /\ ~(generation + 1 <= generation)
  BY <1>1, HubFacts
<1>4. ASSUME NEW s \in Subscriptions
      PROVE  /\ handler'[s].pc = "none" /\ handler'[s].pending = <<>> /\ handler'[s] \in Handlers
             /\ ~subs'[s].open
             /\ wire'[s] \in Wires /\ wire'[s].frames = wire[s].frames
             /\ wire'[s].stage \in {"free", "ended", "refused"}
             /\ wire'[s].stage = "free" <=> wire[s].stage \in {"free", "cut"}
             /\ wire'[s].stage = "ended" <=> wire[s].stage \in {"stream", "ended"}
  <2>1. handler'[s] = NoHandler
    BY DEF Stop
  <2>2. subs'[s] = Hub!Unused
    BY DEF Stop
  <2>3. wire'[s] = CASE wire[s].stage = "stream" -> [wire[s] EXCEPT !.stage = "ended"]
                     [] wire[s].stage = "request" -> [wire[s] EXCEPT !.stage = "refused"]
                     [] wire[s].stage = "cut" -> FreeWire
                     [] OTHER -> wire[s]
    BY DEF Stop
  <2>4. wire[s] \in Wires /\ wire[s].stage \in Stages
    BY <1>1, Typing
  <2>5. wire[s].stage = "cut" => wire[s].frames = <<>>
    BY DEF StreamInv, StreamOf, ConnectionOf
  <2>6. FreeWire \in Wires /\ FreeWire.frames = <<>> /\ FreeWire.stage = "free"
    BY DEF FreeWire, Wires, Stages
  <2>7. CASE wire[s].stage = "stream"
    <3>1. wire'[s] = [wire[s] EXCEPT !.stage = "ended"]
      BY <2>3, <2>7
    <3> QED BY <2>1, <2>2, <2>4, <2>7, <3>1 DEF NoHandler, Handlers, Pcs, Wires, Stages, Hub!Unused
  <2>8. CASE wire[s].stage = "request"
    <3>1. wire'[s] = [wire[s] EXCEPT !.stage = "refused"]
      BY <2>3, <2>8
    <3> QED BY <2>1, <2>2, <2>4, <2>8, <3>1 DEF NoHandler, Handlers, Pcs, Wires, Stages, Hub!Unused
  <2>9. CASE wire[s].stage = "cut"
    <3>1. wire'[s] = FreeWire
      BY <2>3, <2>9
    <3> QED BY <2>1, <2>2, <2>5, <2>6, <2>9, <3>1 DEF NoHandler, Handlers, Pcs, Hub!Unused
  <2>10. CASE wire[s].stage \in {"free", "ended", "refused"}
    <3>1. wire'[s] = wire[s]
      BY <2>3, <2>10
    <3> QED BY <2>1, <2>2, <2>4, <2>10, <3>1 DEF NoHandler, Handlers, Pcs, Hub!Unused
  <2> QED BY <2>4, <2>7, <2>8, <2>9, <2>10 DEF Stages
<1>5. TypesOK'
  <2>1. handler' \in [Subscriptions -> Handlers] /\ wire' \in [Subscriptions -> Wires]
    <3>1. handler' = [s \in Subscriptions |-> handler'[s]] /\ wire' = [s \in Subscriptions |-> wire'[s]]
      BY DEF Stop
    <3> QED BY <1>4, <3>1
  <2>2. command' \in [Messages -> Commands]
    BY <1>1, <1>2 DEF TypesOK, Commands
  <2> QED BY <1>1, <1>2, <2>1, <2>2 DEF TypesOK
<1>6. PageOK'
  BY <1>1, <1>2 DEF PageOK
<1>7. StoreOK'
  <2>1. \A k \in Messages : command'[k] = "idle" <=> k \notin committed'
    BY <1>1, <1>2 DEF StoreOK
  <2>2. PageHolds' = PageHolds
    BY <1>2 DEF PageHolds
  <2>3. \A c \in Channels : \A i \in DOMAIN log'[c] : log'[c][i] \in committed'
    BY <1>2
  <2> QED BY <1>1, <1>2, <2>1, <2>2, <2>3 DEF StoreOK
<1>8. source.last # NoCursor => source.last.generation \in Nat /\ source.last.generation <= generation
  <2>1. source.last \in PageCursors \cup {NoCursor}
    BY <1>1 DEF TypesOK, Sources
  <2> QED BY <1>1, <2>1, CursorTypes DEF PageCursorOK, CursorOK
<1>9. PageCursorOK'
  <2>1. source.last # NoCursor => CursorOK(source.last)'
    BY <1>2, <1>3, <1>8 DEF CursorOK
  <2>2. Settled => source.last # NoCursor
    BY <1>1, SettledHasCursor
  <2>3. Settled' => Settled
    BY <1>2 DEF Settled
  <2> QED BY <1>2, <1>3, <1>8, <2>1, <2>2, <2>3 DEF PageCursorOK
<1>10. ASSUME NEW s \in Subscriptions PROVE StreamOf(s)'
  <2> DEFINE f == wire[s].frames
  <2>1. StreamOf(s) /\ ConnectionOf(s) /\ SafeOf(s) /\ OrderOf(s) /\ wire'[s].frames = f
    BY <1>4 DEF StreamInv, StreamOf
  <2>2. \A i \in DOMAIN f : HasID(f[i]) => f[i].id.generation \in Nat /\ f[i].id.generation <= generation
    BY <1>1, <2>1, Typing, FrameTypes DEF OrderOf, FrameOrder, CursorOK
  <2>3. ConnectionOf(s)'
    BY <1>2, <1>4, <2>1 DEF ConnectionOf
  <2>4. SafeOf(s)'
    BY <1>2, <1>4, <2>1 DEF SafeOf
  <2>5. WakeOf(s)'
    BY <1>4 DEF WakeOf
  <2>6. OrderOf(s)'
    <3>1. ASSUME NEW i \in DOMAIN f, HasID(f[i]) PROVE FrameOrder(s, i)'
      <4>1. FrameOrder(s, i)
        BY <2>1, <3>1 DEF OrderOf
      <4>2. wire'[s].frames[i].id.generation \in Nat /\ wire'[s].frames[i].id.generation <= generation
        BY <2>1, <2>2, <3>1
      <4>3. CursorOK(wire[s].frames[i].id)'
        BY <1>2, <1>3, <4>2 DEF CursorOK
      <4> QED BY <1>2, <1>4, <2>1, <4>1, <4>3 DEF FrameOrder, HasID
    <3> QED BY <1>4, <2>1, <3>1 DEF OrderOf, HasID
  <2>7. CoverOf(s)'
    BY <1>2, <1>3, <1>4, <2>1, <2>2 DEF CoverOf, HasID
  <2> QED BY <2>3, <2>4, <2>5, <2>6, <2>7 DEF StreamOf
<1> QED BY <1>5, <1>6, <1>7, <1>9, <1>10 DEF StreamInv

-----------------------------------------------------------------------------
(* The page and its EventSource. *)

\* The page asks to follow the stream, with the last cursor it has.
LEMMA OpenStep ==
    ASSUME StreamInv, NEW s \in Subscriptions, OpenConnection(s), HubTheorems!HubInv'
    PROVE  StreamInv'
<1>1. /\ TypesOK /\ StoreOK /\ PageOK /\ PageCursorOK /\ HubTheorems!HubInv /\ StreamOf(s)
      /\ ConnectionOf(s) /\ SafeOf(s) /\ WakeOf(s)
  BY DEF StreamInv, StreamOf
<1>2. /\ source.state = "connecting" /\ source.conn = None /\ wire[s].stage = "free"
      /\ wire' = [wire EXCEPT ![s] = [stage |-> "request", frames |-> <<>>, lastID |-> source.last]]
      /\ source' = [source EXCEPT !.conn = s]
      /\ UNCHANGED <<hubVars, process, storeVars, handler, page, faults>>
  BY DEF OpenConnection
<1>3. UNCHANGED <<generation, position, log, closed, subs, committed, command, access, sealed>>
  BY <1>2 DEF hubVars, storeVars
<1>4. /\ source' \in Sources /\ source'.conn = s /\ source'.last = source.last
      /\ source'.state = source.state /\ source.last \in PageCursors \cup {NoCursor}
  BY <1>1, <1>2 DEF TypesOK, Sources
<1>5. wire'[s] = [stage |-> "request", frames |-> <<>>, lastID |-> source.last]
  BY <1>1, <1>2 DEF TypesOK
<1>6. /\ wire'[s] \in Wires /\ wire'[s].stage = "request" /\ wire'[s].frames = <<>>
      /\ wire'[s].lastID = source.last
      /\ \A q \in Subscriptions \ {s} : wire'[q] = wire[q]
  BY <1>1, <1>2, <1>4, <1>5 DEF Wires, Stages, TypesOK
<1>7. TypesOK'
  <2>1. wire' \in [Subscriptions -> Wires]
    BY <1>1, <1>2, <1>6 DEF TypesOK
  <2> QED BY <1>1, <1>2, <1>3, <1>4, <2>1 DEF TypesOK
<1>8. PageOK'
  BY <1>1, <1>2, <1>4 DEF PageOK
<1>9. StoreOK'
  <2>1. PageHolds' = PageHolds
    BY <1>2 DEF PageHolds
  <2> QED BY <1>1, <1>3, <2>1 DEF StoreOK
<1>10. PageCursorOK'
  BY <1>1, <1>2, <1>3, <1>4 DEF PageCursorOK, CursorOK, Settled, OnPage, PageHolds
<1>11. ConnectionOf(s)'
  BY <1>1, <1>2, <1>3, <1>4, <1>6 DEF ConnectionOf
<1>12. SafeOf(s)'
  BY <1>1, <1>2, <1>3, <1>6 DEF SafeOf
<1>13. WakeOf(s)'
  BY <1>1, <1>2, <1>3, WakeKept
<1>14. OrderOf(s)' /\ CoverOf(s)'
  BY <1>6, NothingOnTheWay
<1> QED
  BY <1>2, <1>3, <1>4, <1>6, <1>7, <1>8, <1>9, <1>10, <1>11, <1>12, <1>13, <1>14, PageStep DEF StreamOf

\* The page takes the next frame: its cursor is the frame's, and what the frame
\* carries is on the page.
LEMMA ConsumeStep ==
    ASSUME HubTheorems!HubInv, TypesOK, NEW s \in Subscriptions, StreamOf(s),
           source.conn = s, source'.conn = s, wire[s].frames # <<>>, HasID(Head(wire[s].frames)),
           wire'[s].stage = wire[s].stage, wire'[s].frames = Tail(wire[s].frames),
           source'.last = Head(wire[s].frames).id,
           UNCHANGED <<generation, position, log, closed, subs, committed, sealed, handler>>,
           Settled' => Settled, PageHolds \subseteq PageHolds',
           Head(wire[s].frames).event = "message.created" => Head(wire[s].frames).message \in PageHolds'
    PROVE  StreamOf(s)' /\ PageCursorOK'
<1> DEFINE f == wire[s].frames
           g == Tail(f)
<1>1. ConnectionOf(s) /\ SafeOf(s) /\ WakeOf(s) /\ OrderOf(s) /\ CoverOf(s)
  BY DEF StreamOf
<1>2. f \in Seq(Frames) /\ Len(f) \in Nat /\ DOMAIN f = 1..Len(f) /\ \A i \in DOMAIN f : f[i] \in Frames
  BY Typing
<1>3. /\ Len(g) = Len(f) - 1 /\ DOMAIN g = 1..(Len(f) - 1) /\ Len(f) >= 1
      /\ \A i \in 1..(Len(f) - 1) : g[i] = f[i + 1]
      /\ Head(f) = f[1] /\ f[1] \in Frames
  <2>1. f # <<>>
    OBVIOUS
  <2> HIDE DEF f
  <2> QED BY <1>2, <2>1, OneLess
<1>4. wire[s].stage \in {"stream", "ended"}
  BY <1>1 DEF ConnectionOf
<1>5. /\ wire'[s].frames = g /\ source'.last = f[1].id /\ HasID(f[1])
      /\ f[1].event = "message.created" => f[1].message \in PageHolds'
  BY <1>3
<1> HIDE DEF f, g
<1>6. FrameOrder(s, 1)
  BY <1>1, <1>2, <1>3, <1>5 DEF OrderOf, f
<1>7. f[1].id \in PageCursors /\ f[1].id # NoCursor /\ f[1].id.position \in Nat /\ f[1].id.generation \in Nat
  BY <1>3, <1>5, FrameTypes, CursorTypes
<1>8. \A i \in DOMAIN g : /\ i \in Nat /\ i + 1 \in Nat /\ i + 1 \in DOMAIN f /\ 1 < i + 1 /\ g[i] = f[i + 1]
  BY <1>2, <1>3
<1>9. ConnectionOf(s)'
  BY <1>1, <1>4 DEF ConnectionOf
<1>10. SafeOf(s)'
  BY <1>1, <1>5, <1>8 DEF SafeOf, f
<1>11. WakeOf(s)'
  BY <1>1, WakeKept
<1>12. CursorOK(source.last)'
  <2>1. CursorOK(f[1].id)
    BY <1>6 DEF FrameOrder, f
  <2> QED BY <1>5, <2>1 DEF CursorOK
<1>13. OrderOf(s)'
  <2>1. ASSUME NEW i \in DOMAIN g, HasID(g[i]) PROVE FrameOrder(s, i)'
    <3>1. /\ g[i] = f[i + 1] /\ i + 1 \in DOMAIN f /\ 1 < i + 1 /\ HasID(f[i + 1]) /\ i \in Nat
      BY <1>8, <2>1
    <3>2. PICK n \in Nat : n = i + 1
      BY <3>1
    <3>3. /\ FrameOrder(s, n) /\ n \in DOMAIN f /\ n # 1 /\ 1 < n /\ g[i] = f[n] /\ HasID(f[n])
      BY <1>1, <3>1, <3>2 DEF OrderOf, f
    <3>4. CursorOK(f[n].id)
      BY <3>3 DEF FrameOrder, f
    <3>5. CursorOK(wire[s].frames[i].id)'
      <4>1. wire'[s].frames[i].id = f[n].id
        BY <1>5, <3>3
      <4> QED BY <3>4, <4>1 DEF CursorOK
    <3>6. f[1].id.generation = f[n].id.generation /\ f[1].id.position < f[n].id.position
      BY <1>6, <3>3 DEF FrameOrder, f
    <3>7. f[n].event # "ready"
      BY <3>3 DEF FrameOrder, f
    <3>8. wire[s].stage = "stream" => f[n].id.generation = generation /\ f[n].id.position <= subs[s].position
      BY <3>3 DEF FrameOrder, f
    <3>9. \A k \in DOMAIN g : i < k /\ HasID(g[k]) =>
             g[i].id.generation = g[k].id.generation /\ g[i].id.position < g[k].id.position
      <4>1. TAKE k \in DOMAIN g
      <4>2. HAVE i < k /\ HasID(g[k])
      <4>3. g[k] = f[k + 1] /\ k + 1 \in DOMAIN f /\ n < k + 1 /\ HasID(f[k + 1])
        BY <1>8, <3>1, <3>2, <4>2
      <4> QED BY <3>3, <4>3 DEF FrameOrder, f
    <3> QED BY <1>5, <3>3, <3>5, <3>6, <3>7, <3>8, <3>9 DEF FrameOrder, HasID
  <2>2. ASSUME wire[s].stage = "stream" PROVE CursorOrder(s)'
    BY <1>5, <1>6, <2>2 DEF FrameOrder, CursorOrder, f
  <2>3. ASSUME wire[s].stage = "stream", NEW i \in DOMAIN handler[s].pending PROVE PendingOrder(s, i)'
    <3>1. PendingOrder(s, i)
      BY <1>1, <2>3 DEF OrderOf
    <3>2. \A k \in DOMAIN g : HasID(g[k]) => g[k].id.position < handler[s].pending[i].position
      BY <1>8, <3>1 DEF PendingOrder, f
    <3>3. f[1].id.position < handler[s].pending[i].position
      BY <1>2, <1>3, <1>5, <3>1 DEF PendingOrder, f
    <3> QED BY <1>5, <3>1, <3>2, <3>3 DEF PendingOrder, HasID
  <2> QED BY <1>5, <2>1, <2>2, <2>3 DEF OrderOf, HasID
<1>14. ASSUME NEW n \in Nat, NEW m \in Nat, m + 1 = n, n <= Len(f), NEW j, OnPage(j) \/ InFrames(s, n, j)
       PROVE  (OnPage(j) \/ InFrames(s, m, j))'
  <2>1. CASE OnPage(j)
    BY <2>1 DEF OnPage
  <2>2. CASE InFrames(s, n, j)
    <3>1. PICK k \in 1..n : f[k].event = "message.created" /\ f[k].message = log[Channel][j]
      BY <2>2 DEF InFrames, f
    <3>2. CASE k = 1
      BY <1>5, <3>1, <3>2 DEF OnPage
    <3>3. CASE k # 1
      <4>1. PICK l \in Nat : l + 1 = k
        BY <3>3
      <4>2. l \in 1..m /\ l \in DOMAIN g
        BY <1>2, <1>3, <1>14, <3>3, <4>1
      <4>3. g[l] = f[k]
        BY <1>8, <4>1, <4>2
      <4> QED BY <1>5, <3>1, <4>2, <4>3 DEF InFrames
    <3> QED BY <3>2, <3>3
  <2> QED BY <1>14, <2>1, <2>2
<1>15. CoverOf(s)'
  <2> SUFFICES ASSUME Settled' PROVE CoverOf(s)'
    BY DEF CoverOf
  <2>1. /\ \A i \in DOMAIN f : HasID(f[i]) /\ f[i].id.generation = generation => FrameCover(s, i)
        /\ wire[s].stage = "stream" =>
              SubscriptionCover(s) /\ \A i \in DOMAIN handler[s].pending : PendingCover(s, i)
    BY <1>1 DEF CoverOf, f
  <2>2. ASSUME NEW i \in DOMAIN g, HasID(g[i]), g[i].id.generation = generation
        PROVE  FrameCover(s, i)'
    <3>1. g[i] = f[i + 1] /\ i + 1 \in DOMAIN f /\ i \in Nat
      BY <1>8, <2>2
    <3>2. PICK n \in Nat : n = i + 1
      BY <3>1
    <3>3. FrameCover(s, n) /\ n <= Len(f)
      BY <1>2, <2>1, <2>2, <3>1, <3>2
    <3>4. ASSUME NEW j \in 1..f[n].id.position PROVE (OnPage(j) \/ InFrames(s, i, j))'
      <4>1. OnPage(j) \/ InFrames(s, n, j)
        BY <3>3, <3>4 DEF FrameCover, f
      <4> QED BY <1>14, <3>1, <3>2, <3>3, <4>1
    <3>5. wire'[s].frames[i] = f[n]
      BY <1>5, <3>1, <3>2
    <3> QED BY <3>4, <3>5 DEF FrameCover
  <2>9. PICK n \in Nat : n = Len(f)
    BY <1>2
  <2>10. n - 1 \in Nat
    BY <1>3, <2>9
  <2>11. PICK m \in Nat : m = n - 1
    BY <2>10
  <2>3. n = Len(f) /\ m = Len(g) /\ m + 1 = n /\ n <= Len(f)
    BY <1>3, <2>9, <2>11
  <2>4. ASSUME wire[s].stage = "stream" PROVE SubscriptionCover(s)'
    <3>1. ASSUME NEW j \in 1..subs[s].position
          PROVE  (OnPage(j) \/ InFrames(s, m, j) \/ InPending(s, Len(handler[s].pending), j))'
      <4>1. OnPage(j) \/ InFrames(s, n, j) \/ InPending(s, Len(handler[s].pending), j)
        BY <2>1, <2>3, <2>4, <3>1 DEF SubscriptionCover, f
      <4>2. InPending(s, Len(handler[s].pending), j) => InPending(s, Len(handler[s].pending), j)'
        BY DEF InPending
      <4> QED BY <1>14, <2>3, <4>1, <4>2
    <3>2. Len(wire'[s].frames) = m
      BY <1>5, <2>3
    <3> QED BY <3>1, <3>2 DEF SubscriptionCover
  <2>5. ASSUME wire[s].stage = "stream", NEW i \in DOMAIN handler[s].pending PROVE PendingCover(s, i)'
    <3>1. ASSUME NEW j \in 1..handler[s].pending[i].position
          PROVE  (OnPage(j) \/ InFrames(s, m, j) \/ InPending(s, i, j))'
      <4>1. OnPage(j) \/ InFrames(s, n, j) \/ InPending(s, i, j)
        BY <2>1, <2>3, <2>5, <3>1 DEF PendingCover, f
      <4>2. InPending(s, i, j) => InPending(s, i, j)'
        BY DEF InPending
      <4> QED BY <1>14, <2>3, <4>1, <4>2
    <3>2. Len(wire'[s].frames) = m
      BY <1>5, <2>3
    <3> QED BY <3>1, <3>2 DEF PendingCover
  <2> QED BY <1>5, <2>2, <2>4, <2>5 DEF CoverOf, HasID
<1>16. PageCursorOK'
  <2>1. ASSUME Settled', f[1].id.generation = generation, NEW j \in 1..f[1].id.position
        PROVE  OnPage(j)'
    <3>1. FrameCover(s, 1)
      BY <1>1, <1>2, <1>3, <1>5, <2>1 DEF CoverOf, f
    <3>2. OnPage(j) \/ InFrames(s, 1, j)
      BY <2>1, <3>1 DEF FrameCover, f
    <3>3. (OnPage(j) \/ InFrames(s, 0, j))'
      BY <1>2, <1>3, <1>14, <3>2
    <3> QED BY <3>3 DEF InFrames
  <2> QED BY <1>5, <1>7, <1>12, <2>1 DEF PageCursorOK
<1> QED BY <1>9, <1>10, <1>11, <1>13, <1>15, <1>16 DEF StreamOf

\* What the page knows about the connection it receives from.
LEMMA Receiving ==
    ASSUME StreamInv, NEW s \in Subscriptions, NEW event, Receives(s, event)
    PROVE  /\ TypesOK /\ StoreOK /\ PageOK /\ PageCursorOK /\ HubTheorems!HubInv
           /\ StreamOf(s) /\ SafeOf(s) /\ OrderOf(s)
           /\ source.conn = s /\ source.state \in {"connecting", "open"} /\ page.status # "error"
           /\ wire[s].frames # <<>> /\ Head(wire[s].frames) = wire[s].frames[1]
           /\ 1 \in DOMAIN wire[s].frames /\ wire[s].frames[1] \in Frames
           /\ wire[s].frames[1].event = event
           /\ Tail(wire[s].frames) \in Seq(Frames)
<1> DEFINE f == wire[s].frames
<1>1. /\ TypesOK /\ StoreOK /\ PageOK /\ PageCursorOK /\ HubTheorems!HubInv
      /\ StreamOf(s) /\ SafeOf(s) /\ OrderOf(s)
  BY DEF StreamInv, StreamOf
<1>2. source.conn = s /\ f # <<>> /\ Head(f).event = event
  BY DEF Receives
<1>3. source.state \in {"connecting", "open"} /\ page.status # "error"
  BY <1>1, <1>2, StreamAssumption DEF PageOK
<1>4. f \in Seq(Frames)
  BY <1>1, Typing
<1> HIDE DEF f
<1>5. Head(f) = f[1] /\ 1 \in DOMAIN f /\ f[1] \in Frames /\ Tail(f) \in Seq(Frames)
  BY <1>2, <1>4, OneLess
<1> QED BY <1>1, <1>2, <1>3, <1>5 DEF f

LEMMA ConsumedWire ==
    ASSUME TypesOK, NEW s \in Subscriptions, wire' = Consumed(s), Tail(wire[s].frames) \in Seq(Frames)
    PROVE  /\ wire' \in [Subscriptions -> Wires]
           /\ wire'[s].stage = wire[s].stage /\ wire'[s].frames = Tail(wire[s].frames)
           /\ \A q \in Subscriptions \ {s} : wire'[q] = wire[q]
<1>1. wire \in [Subscriptions -> Wires] /\ wire[s] \in Wires
  BY DEF TypesOK
<1>2. wire'[s] = [wire[s] EXCEPT !.frames = Tail(wire[s].frames)]
  BY <1>1 DEF Consumed, Wires
<1>3. wire'[s] \in Wires /\ wire'[s].stage = wire[s].stage /\ wire'[s].frames = Tail(wire[s].frames)
  BY <1>1, <1>2 DEF Wires
<1> QED BY <1>1, <1>3 DEF Consumed

LEMMA OnReadyStep ==
    ASSUME StreamInv, NEW s \in Subscriptions, OnReady(s), HubTheorems!HubInv'
    PROVE  StreamInv'
<1> DEFINE x == wire[s].frames[1]
<1>1. /\ TypesOK /\ StoreOK /\ PageOK /\ PageCursorOK /\ HubTheorems!HubInv /\ StreamOf(s)
      /\ source.conn = s /\ page.status # "error"
      /\ wire[s].frames # <<>> /\ Head(wire[s].frames) = x /\ x \in Frames /\ x.event = "ready"
      /\ Tail(wire[s].frames) \in Seq(Frames)
  BY Receiving DEF OnReady
<1>2. /\ wire' = Consumed(s)
      /\ source' = [source EXCEPT !.state = "open", !.last = x.id]
      /\ page' = IF page.initialReady THEN [page EXCEPT !.probed = FALSE]
                 ELSE [page EXCEPT !.probed = FALSE, !.initialReady = TRUE,
                                   !.status = IF page.status = "connecting" THEN "loading-history"
                                              ELSE page.status,
                                   !.history = "asked"]
      /\ UNCHANGED <<hubVars, process, storeVars, handler, faults>>
  BY <1>1 DEF OnReady
<1>3. UNCHANGED <<generation, position, log, closed, subs, committed, command, access, sealed, handler>>
  BY <1>2 DEF hubVars, storeVars
<1> HIDE DEF x
<1>4. /\ wire' \in [Subscriptions -> Wires] /\ wire'[s].stage = wire[s].stage
      /\ wire'[s].frames = Tail(wire[s].frames) /\ \A q \in Subscriptions \ {s} : wire'[q] = wire[q]
  BY <1>1, <1>2, ConsumedWire
<1>5. HasID(x) /\ x.id \in PageCursors /\ x.id # NoCursor
  BY <1>1, FrameTypes, CursorTypes DEF HasID
<1>6. source' \in Sources /\ source'.conn = s /\ source'.last = x.id /\ source'.state = "open"
  BY <1>1, <1>2, <1>5 DEF TypesOK, Sources
<1>7. /\ page' \in Pages /\ PageHolds' = PageHolds /\ (Settled' => Settled) /\ PageOK'
      /\ page' \in Pages
  <2>1. page \in Pages /\ page.initialReady \in BOOLEAN
    BY <1>1 DEF TypesOK, Pages
  <2>2. CASE page.initialReady
    <3>1. page' = [page EXCEPT !.probed = FALSE]
      BY <1>2, <2>2
    <3> QED BY <1>1, <1>5, <1>6, <2>1, <2>2, <3>1 DEF Pages, PageHolds, Settled, PageOK
  <2>3. CASE ~page.initialReady
    <3>1. page.status = "connecting"
      BY <1>1, <2>1, <2>3 DEF PageOK, Pages
    <3>2. page' = [page EXCEPT !.probed = FALSE, !.initialReady = TRUE, !.status = "loading-history",
                               !.history = "asked"]
      BY <1>2, <2>3, <3>1
    <3> QED BY <1>1, <1>5, <1>6, <2>1, <2>3, <3>1, <3>2 DEF Pages, PageHolds, Settled, PageOK
  <2> QED BY <2>2, <2>3
<1>8. TypesOK'
  BY <1>1, <1>2, <1>3, <1>4, <1>6, <1>7 DEF TypesOK
<1>9. StoreOK'
  BY <1>1, <1>3, <1>7 DEF StoreOK
<1>10. StreamOf(s)' /\ PageCursorOK'
  BY <1>1, <1>3, <1>4, <1>5, <1>6, <1>7, ConsumeStep
<1> QED BY <1>1, <1>2, <1>3, <1>4, <1>6, <1>7, <1>8, <1>9, <1>10, PageStep

LEMMA OnMessageCreatedStep ==
    ASSUME StreamInv, NEW s \in Subscriptions, OnMessageCreated(s), page.initialReady,
           HubTheorems!HubInv'
    PROVE  StreamInv'
<1> DEFINE x == wire[s].frames[1]
<1>1. /\ TypesOK /\ StoreOK /\ PageOK /\ PageCursorOK /\ HubTheorems!HubInv /\ StreamOf(s) /\ SafeOf(s)
      /\ source.conn = s /\ page.status # "error" /\ source.state \in {"connecting", "open"}
      /\ wire[s].frames # <<>> /\ Head(wire[s].frames) = x /\ 1 \in DOMAIN wire[s].frames
      /\ x \in Frames /\ x.event = "message.created" /\ Tail(wire[s].frames) \in Seq(Frames)
  BY Receiving DEF OnMessageCreated
<1>2. /\ wire' = Consumed(s)
      /\ source' = [source EXCEPT !.last = x.id]
      /\ page' = CASE page.status = "loading-history" -> [page EXCEPT !.buffer = page.buffer \cup {x.message}]
                   [] page.status = "ready" -> [page EXCEPT !.shown = page.shown \cup {x.message}]
                   [] page.status = "connecting" -> [page EXCEPT !.status = "error"]
                   [] OTHER -> page
      /\ UNCHANGED <<hubVars, process, storeVars, handler, faults>>
  BY <1>1 DEF OnMessageCreated
<1>3. UNCHANGED <<generation, position, log, closed, subs, committed, command, access, sealed, handler>>
  BY <1>2 DEF hubVars, storeVars
<1>11. x.message \in committed \ (Hidden \cup sealed)
  BY <1>1 DEF SafeOf
<1> HIDE DEF x
<1>4. /\ wire' \in [Subscriptions -> Wires] /\ wire'[s].stage = wire[s].stage
      /\ wire'[s].frames = Tail(wire[s].frames) /\ \A q \in Subscriptions \ {s} : wire'[q] = wire[q]
  BY <1>1, <1>2, ConsumedWire
<1>5. HasID(x) /\ x.id \in PageCursors /\ x.id # NoCursor /\ x.message \in Messages
  BY <1>1, FrameTypes, CursorTypes DEF HasID
<1>6. /\ source' \in Sources /\ source'.conn = s /\ source'.last = x.id /\ source'.state = source.state
  BY <1>1, <1>2, <1>5 DEF TypesOK, Sources
<1>7. /\ page' \in Pages /\ PageHolds' = PageHolds \cup {x.message} /\ (Settled' => Settled) /\ PageOK'
  <2>1. page \in Pages /\ page.status \in {"loading-history", "ready"}
    BY <1>1 DEF TypesOK, Pages, PageOK
  <2>2. CASE page.status = "loading-history"
    <3>1. page' = [page EXCEPT !.buffer = page.buffer \cup {x.message}]
      BY <1>2, <2>2
    <3> QED BY <1>1, <1>5, <1>6, <2>1, <2>2, <3>1 DEF Pages, PageHolds, Settled, PageOK
  <2>3. CASE page.status = "ready"
    <3>1. page' = [page EXCEPT !.shown = page.shown \cup {x.message}]
      BY <1>2, <2>3
    <3> QED BY <1>1, <1>5, <1>6, <2>1, <2>3, <3>1 DEF Pages, PageHolds, Settled, PageOK
  <2> QED BY <2>1, <2>2, <2>3
<1>8. TypesOK'
  BY <1>1, <1>2, <1>3, <1>4, <1>6, <1>7 DEF TypesOK
<1>9. StoreOK'
  BY <1>1, <1>3, <1>7, <1>11 DEF StoreOK
<1>10. StreamOf(s)' /\ PageCursorOK'
  BY <1>1, <1>3, <1>4, <1>5, <1>6, <1>7, ConsumeStep
<1> QED BY <1>1, <1>2, <1>3, <1>4, <1>6, <1>7, <1>8, <1>9, <1>10, PageStep

\* The client side of a connection goes, its handler may live on.
LEMMA CutConnection ==
    ASSUME StreamInv, NEW s \in Subscriptions, source.conn = s, source'.conn = None, wire' = Cut(s),
           UNCHANGED <<hubVars, committed, sealed, handler>>
    PROVE  /\ wire' \in [Subscriptions -> Wires] /\ \A q \in Subscriptions \ {s} : wire'[q] = wire[q]
           /\ StreamOf(s)'
<1>1. TypesOK /\ ConnectionOf(s) /\ SafeOf(s) /\ WakeOf(s)
  BY DEF StreamInv, StreamOf
<1>2. /\ wire'[s].stage = IF handler[s].pc = "none" THEN "free" ELSE "cut"
      /\ wire'[s].frames = <<>> /\ wire'[s] \in Wires
  <2>1. wire'[s] = IF handler[s].pc = "none" THEN FreeWire ELSE [FreeWire EXCEPT !.stage = "cut"]
    BY <1>1 DEF Cut, TypesOK
  <2>2. CASE handler[s].pc = "none"
    <3>1. wire'[s] = FreeWire
      BY <2>1, <2>2
    <3>2. FreeWire.stage = "free" /\ FreeWire.frames = <<>> /\ FreeWire \in Wires
      BY DEF FreeWire, Wires, Stages
    <3> QED BY <2>2, <3>1, <3>2
  <2>3. CASE handler[s].pc # "none"
    <3>1. wire'[s] = [FreeWire EXCEPT !.stage = "cut"]
      BY <2>1, <2>3
    <3>2. [FreeWire EXCEPT !.stage = "cut"] = [stage |-> "cut", frames |-> <<>>, lastID |-> NoCursor]
      BY DEF FreeWire
    <3>3. wire'[s].stage = "cut" /\ wire'[s].frames = <<>>
      BY <3>1, <3>2
    <3>4. wire'[s] \in Wires
      <4>1. "cut" \in Stages /\ <<>> \in Seq(Frames)
        BY DEF Stages
      <4> QED BY <3>1, <3>2, <4>1 DEF Wires
    <3> QED BY <2>3, <3>3, <3>4
  <2> QED BY <2>2, <2>3
<1>3. wire' \in [Subscriptions -> Wires] /\ \A q \in Subscriptions \ {s} : wire'[q] = wire[q]
  BY <1>1, <1>2 DEF Cut, TypesOK
<1>4. UNCHANGED <<position, closed, subs>>
  BY DEF hubVars
<1>5. ConnectionOf(s)'
  BY <1>1, <1>2, <1>4, StreamAssumption DEF ConnectionOf
<1>6. SafeOf(s)'
  BY <1>1, <1>2 DEF SafeOf
<1>7. WakeOf(s)'
  BY <1>1, <1>4, WakeKept
<1>8. OrderOf(s)' /\ CoverOf(s)'
  BY <1>2, NothingOnTheWay
<1> QED BY <1>3, <1>5, <1>6, <1>7, <1>8 DEF StreamOf

\* The page lets go of the connection it has, if any.
LEMMA DropStep ==
    ASSUME StreamInv, HubTheorems!HubInv', source' \in Sources, source'.conn = None, page' \in Pages,
           PageOK', PageCursorOK', PageHolds' \subseteq PageHolds,
           wire' = (IF source.conn = None THEN wire ELSE Cut(source.conn)),
           UNCHANGED <<hubVars, process, storeVars, handler>>, faults' \in 0..MaxFaults
    PROVE  StreamInv'
<1>1. TypesOK /\ StoreOK /\ HubTheorems!HubInv /\ source.conn \in Subscriptions \cup {None}
  BY DEF StreamInv, TypesOK, Sources
<1>2. UNCHANGED <<generation, position, log, closed, subs, committed, command, access, sealed>>
  BY DEF hubVars, storeVars
<1>3. StoreOK'
  BY <1>1, <1>2 DEF StoreOK
<1>4. ASSUME wire' \in [Subscriptions -> Wires] PROVE TypesOK'
  BY <1>1, <1>2, <1>4 DEF TypesOK
<1>5. CASE source.conn = None
  <2>1. wire' = wire
    BY <1>5
  <2>2. TypesOK'
    BY <1>1, <1>4, <2>1 DEF TypesOK
  <2>3. ASSUME NEW s \in Subscriptions PROVE StreamOf(s)'
    <3>1. source.conn # s /\ source'.conn # s
      BY <1>5, StreamAssumption
    <3> QED BY <1>1, <1>2, <2>1, <3>1, OtherKept DEF StreamInv
  <2> QED BY <1>3, <2>2, <2>3 DEF StreamInv
<1>6. ASSUME NEW s \in Subscriptions, source.conn = s PROVE StreamInv'
  <2>1. wire' = Cut(s)
    BY <1>6, StreamAssumption
  <2>2. /\ wire' \in [Subscriptions -> Wires] /\ \A q \in Subscriptions \ {s} : wire'[q] = wire[q]
        /\ StreamOf(s)'
    BY <1>2, <1>6, <2>1, CutConnection
  <2> QED BY <1>2, <1>3, <1>4, <1>6, <2>2, PageStep
<1> QED BY <1>1, <1>5, <1>6

\* The page gives up, or starts an epoch from nothing.
LEMMA FreshPage ==
    ASSUME \/ page' = FailedPage /\ source' = ClosedSource
           \/ page' = ConnectingPage /\ source' = NewSource
    PROVE  /\ source' \in Sources /\ source'.conn = None /\ page' \in Pages
           /\ PageOK' /\ PageCursorOK' /\ PageHolds' = {}
<1>1. /\ page' \in Pages /\ page'.status \in {"connecting", "error"} /\ ~page'.initialReady
      /\ page'.history = "none" /\ page'.read = {} /\ page'.buffer = {} /\ page'.shown = {}
      /\ page'.status = "error" => source'.state = "closed"
  <2>1. CASE page' = FailedPage /\ source' = ClosedSource
    <3>1. source'.state = "closed"
      BY <2>1 DEF ClosedSource, NewSource
    <3> QED BY <2>1, <3>1 DEF FailedPage, ConnectingPage, Pages
  <2>2. CASE page' = ConnectingPage /\ source' = NewSource
    BY <2>2 DEF ConnectingPage, Pages
  <2> QED BY <2>1, <2>2
<1>2. /\ source' \in Sources /\ source'.conn = None /\ source'.last = NoCursor
  BY DEF ClosedSource, NewSource, Sources
<1>3. PageOK' /\ PageCursorOK' /\ PageHolds' = {}
  BY <1>1, <1>2 DEF PageOK, PageCursorOK, PageHolds, Settled
<1> QED BY <1>1, <1>2, <1>3

LEMMA LoseAccessStep ==
    ASSUME StreamInv, LoseAccess, UNCHANGED <<hubVars, process, storeVars, handler, faults>>,
           HubTheorems!HubInv'
    PROVE  StreamInv'
<1>1. /\ page' = FailedPage /\ source' = ClosedSource
      /\ wire' = IF source.conn = None THEN wire ELSE Cut(source.conn)
  BY DEF LoseAccess
<1>2. /\ source' \in Sources /\ source'.conn = None /\ page' \in Pages
      /\ PageOK' /\ PageCursorOK' /\ PageHolds' = {}
  BY <1>1, FreshPage
<1>3. faults' \in 0..MaxFaults
  BY DEF StreamInv, TypesOK
<1> QED BY <1>1, <1>2, <1>3, DropStep

LEMMA OnResyncStep ==
    ASSUME StreamInv, NEW s \in Subscriptions, OnResyncRequired(s), HubTheorems!HubInv'
    PROVE  StreamInv'
<1>1. /\ page' = ConnectingPage /\ source' = NewSource /\ wire' = Cut(s) /\ source.conn = s
      /\ UNCHANGED <<hubVars, process, storeVars, handler, faults>>
  BY DEF OnResyncRequired, Receives
<1>2. /\ source' \in Sources /\ source'.conn = None /\ page' \in Pages
      /\ PageOK' /\ PageCursorOK' /\ PageHolds' = {}
  BY <1>1, FreshPage
<1>3. faults' \in 0..MaxFaults
  BY <1>1 DEF StreamInv, TypesOK
<1> QED BY <1>1, <1>2, <1>3, DropStep, StreamAssumption

\* The EventSource loses its connection and keeps its cursor and its page.
LEMMA LostStep ==
    ASSUME StreamInv, NEW s \in Subscriptions, source.conn = s, wire' = Cut(s), page' = Probed,
           NEW state \in {"connecting", "failed"},
           source' = [source EXCEPT !.state = state, !.conn = None],
           UNCHANGED <<hubVars, process, storeVars, handler>>, faults' \in 0..MaxFaults,
           HubTheorems!HubInv'
    PROVE  StreamInv'
<1>1. TypesOK /\ PageOK /\ PageCursorOK
  BY DEF StreamInv
<1>2. /\ source' \in Sources /\ source'.conn = None /\ source'.last = source.last /\ source'.state = state
      /\ page.status # "error"
  BY <1>1, StreamAssumption DEF TypesOK, Sources, PageOK
<1>3. /\ page' \in Pages /\ page'.status = page.status /\ page'.initialReady = page.initialReady
      /\ page'.history = page.history /\ page'.read = page.read /\ page'.buffer = page.buffer
      /\ page'.shown = page.shown
  BY <1>1 DEF TypesOK, Pages, Probed
<1>4. UNCHANGED <<generation, position, log>>
  BY DEF hubVars
<1>5. PageOK'
  BY <1>1, <1>2, <1>3 DEF PageOK
<1>6. (Settled' <=> Settled) /\ PageHolds' = PageHolds
  BY <1>3 DEF Settled, PageHolds
<1>7. PageCursorOK'
  BY <1>1, <1>2, <1>4, <1>6 DEF PageCursorOK, CursorOK, OnPage
<1> QED BY <1>2, <1>3, <1>5, <1>6, <1>7, DropStep, StreamAssumption

\* A step of the page alone.
LEMMA PageAloneStep ==
    ASSUME StreamInv, HubTheorems!HubInv', page' \in Pages, PageOK', PageHolds' \subseteq committed \ (Hidden \cup sealed),
           PageCursorOK', \A s \in Subscriptions : CoverOf(s)',
           UNCHANGED <<hubVars, process, storeVars, handler, wire, source, faults>>
    PROVE  StreamInv'
<1>1. UNCHANGED <<generation, position, log, closed, subs, committed, command, access, sealed>>
  BY DEF hubVars, storeVars
<1>2. TypesOK /\ StoreOK /\ HubTheorems!HubInv
  BY DEF StreamInv
<1>3. TypesOK' /\ StoreOK'
  BY <1>1, <1>2 DEF TypesOK, StoreOK
<1>4. ASSUME NEW s \in Subscriptions PROVE StreamOf(s)'
  <2>1. ConnectionOf(s) /\ SafeOf(s) /\ WakeOf(s) /\ OrderOf(s)
    BY DEF StreamInv, StreamOf
  <2>2. position[Channel] \in Nat
    BY <1>2, HubFacts, ChannelIsOne
  <2>3. ConnectionOf(s)' /\ SafeOf(s)' /\ WakeOf(s)'
    BY <1>1, <2>1 DEF ConnectionOf, SafeOf, WakeOf
  <2>4. OrderOf(s)'
    BY <1>1, <1>2, <2>1, <2>2, OrderKept
  <2> QED BY <2>3, <2>4 DEF StreamOf
<1> QED BY <1>3, <1>4 DEF StreamInv

\* The page's cover depends on what it holds only.
LEMMA SettledKept ==
    ASSUME StreamInv, Settled' => Settled, PageHolds' = PageHolds,
           UNCHANGED <<hubVars, handler, wire, source>>
    PROVE  PageCursorOK' /\ \A s \in Subscriptions : CoverOf(s)'
<1>1. UNCHANGED <<generation, position, log, subs>> /\ TypesOK /\ PageCursorOK /\ HubTheorems!HubInv
  BY DEF hubVars, StreamInv
<1>2. PageCursorOK'
  BY <1>1 DEF PageCursorOK, CursorOK, OnPage
<1>3. ASSUME NEW s \in Subscriptions PROVE CoverOf(s)'
  <2>1. CoverOf(s) /\ OrderOf(s) /\ ConnectionOf(s)
    BY DEF StreamInv, StreamOf
  <2> QED BY <1>1, <2>1, CoverKept
<1> QED BY <1>2, <1>3

LEMMA ProbeStep ==
    ASSUME StreamInv, ProbeAnswers, HubTheorems!HubInv'
    PROVE  StreamInv'
<1>1. UNCHANGED <<hubVars, process, storeVars, handler, faults>>
  BY DEF ProbeAnswers
<1>2. CASE LoseAccess
  BY <1>1, <1>2, LoseAccessStep
<1>3. CASE page' = [page EXCEPT !.probing = FALSE] /\ UNCHANGED <<source, wire>>
  <2>1. page \in Pages /\ PageOK /\ StoreOK
    BY DEF StreamInv, TypesOK
  <2>2. /\ page' \in Pages /\ page'.status = page.status /\ page'.initialReady = page.initialReady
        /\ page'.history = page.history /\ page'.read = page.read /\ page'.buffer = page.buffer
        /\ page'.shown = page.shown
    BY <1>3, <2>1 DEF Pages
  <2>3. PageOK'
    BY <1>3, <2>1, <2>2 DEF PageOK
  <2>4. (Settled' => Settled) /\ PageHolds' = PageHolds
    BY <2>2 DEF Settled, PageHolds
  <2>5. PageHolds' \subseteq committed \ (Hidden \cup sealed)
    BY <2>1, <2>4 DEF StoreOK
  <2>6. PageCursorOK' /\ \A s \in Subscriptions : CoverOf(s)'
    BY <1>1, <1>3, <2>4, SettledKept
  <2> QED BY <1>1, <1>3, <2>2, <2>3, <2>5, <2>6, PageAloneStep
<1> QED BY <1>2, <1>3 DEF ProbeAnswers

\* The page merges the history it asked for.
LEMMA HistoryArrivesStep ==
    ASSUME StreamInv, HistoryArrives, HubTheorems!HubInv'
    PROVE  StreamInv'
<1>1. /\ page.history = "read"
      /\ page' = [page EXCEPT !.history = "none", !.read = {}, !.buffer = {},
                              !.status = "ready", !.shown = page.read \cup page.buffer]
      /\ UNCHANGED <<hubVars, process, storeVars, handler, wire, source, faults>>
  BY DEF HistoryArrives
<1>2. page \in Pages /\ PageOK /\ StoreOK
  BY DEF StreamInv, TypesOK
<1>3. page.status = "loading-history" /\ page.shown = {} /\ page.initialReady
  BY <1>1, <1>2 DEF Pages, PageOK
<1>4. /\ page' \in Pages /\ page'.status = "ready" /\ page'.initialReady /\ page'.history = "none"
      /\ page'.read = {} /\ page'.buffer = {} /\ page'.shown = page.read \cup page.buffer
  BY <1>1, <1>2, <1>3 DEF Pages
<1>5. PageOK'
  BY <1>1, <1>2, <1>3, <1>4 DEF PageOK
<1>6. (Settled' => Settled) /\ PageHolds' = PageHolds
  BY <1>1, <1>3, <1>4 DEF Settled, PageHolds
<1>7. PageHolds' \subseteq committed \ (Hidden \cup sealed)
  BY <1>2, <1>6 DEF StoreOK
<1>8. PageCursorOK' /\ \A s \in Subscriptions : CoverOf(s)'
  BY <1>1, <1>6, SettledKept
<1> QED BY <1>1, <1>4, <1>5, <1>7, <1>8, PageAloneStep

\* History is read after ready: it holds everything announced so far.
LEMMA ReadHistoryStep ==
    ASSUME StreamInv, ReadHistory, HubTheorems!HubInv'
    PROVE  StreamInv'
<1>1. /\ page.history = "asked" /\ access
      /\ page' = [page EXCEPT !.history = "read", !.read = committed \ Hidden]
      /\ UNCHANGED <<hubVars, process, storeVars, handler, wire, source, faults>>
  BY DEF ReadHistory
<1>2. TypesOK /\ page \in Pages /\ PageOK /\ StoreOK /\ PageCursorOK /\ HubTheorems!HubInv
  BY DEF StreamInv, TypesOK
<1>3. UNCHANGED <<generation, position, log, subs>>
  BY <1>1 DEF hubVars
<1>4. committed \subseteq Messages /\ page.status = "loading-history" /\ page.initialReady
  BY <1>1, <1>2 DEF TypesOK, Pages, PageOK
<1>5. /\ page' \in Pages /\ page'.status = page.status /\ page'.initialReady = page.initialReady
      /\ page'.history = "read" /\ page'.read = committed \ Hidden
      /\ page'.buffer = page.buffer /\ page'.shown = page.shown
  BY <1>1, <1>2, <1>4 DEF Pages
<1>6. PageOK'
  BY <1>1, <1>2, <1>4, <1>5 DEF PageOK
<1>7. committed \ Hidden \subseteq PageHolds'
  BY <1>5 DEF PageHolds
<1>8. PageHolds' \subseteq committed \ (Hidden \cup sealed)
  <2>1. PageHolds' \subseteq PageHolds \cup (committed \ Hidden) /\ sealed = {}
    BY <1>1, <1>2, <1>5 DEF PageHolds, StoreOK
  <2> QED BY <1>2, <2>1 DEF StoreOK
<1>9. position[Channel] \in Nat /\ \A j \in 1..position[Channel] : OnPage(j)'
  <2>1. /\ position[Channel] \in Nat /\ log[Channel] \in Seq(Messages)
        /\ Len(log[Channel]) = position[Channel]
    BY <1>2, HubFacts, ChannelIsOne
  <2>2. DOMAIN log[Channel] = 1..position[Channel]
    BY <2>1
  <2>3. \A j \in 1..position[Channel] : log[Channel][j] \in committed
    BY <1>2, <2>2, ChannelIsOne DEF StoreOK
  <2> QED BY <1>3, <1>7, <2>1, <2>3 DEF OnPage
<1>10. PageCursorOK'
  <2>1. source.last # NoCursor =>
           /\ CursorOK(source.last) /\ source.last.position \in Nat
    <3>1. source.last \in PageCursors \cup {NoCursor}
      BY <1>2 DEF TypesOK, Sources
    <3> QED BY <1>2, <3>1, CursorTypes DEF PageCursorOK
  <2>2. source.last # NoCursor
    BY <1>2, <1>4 DEF PageOK
  <2>3. CursorOK(source.last)'
    BY <1>1, <1>3, <2>1, <2>2 DEF CursorOK
  <2>4. source.last.generation = generation => source.last.position <= position[Channel]
    BY <2>1, <2>2 DEF CursorOK
  <2> QED BY <1>1, <1>3, <1>9, <2>1, <2>2, <2>3, <2>4 DEF PageCursorOK
<1>11. ASSUME NEW s \in Subscriptions PROVE CoverOf(s)'
  <2>1. OrderOf(s) /\ ConnectionOf(s)
    BY DEF StreamInv, StreamOf
  <2>2. ASSUME NEW i \in DOMAIN wire[s].frames, HasID(wire[s].frames[i]),
               wire[s].frames[i].id.generation = generation
        PROVE  FrameCover(s, i)'
    <3>1. wire[s].frames[i].id.position <= position[Channel]
      BY <2>1, <2>2 DEF OrderOf, FrameOrder, CursorOK
    <3>2. wire[s].frames[i].id.position \in Nat
      BY <1>2, <2>2, Typing, FrameTypes
    <3> QED BY <1>1, <1>9, <3>1, <3>2 DEF FrameCover
  <2>3. ASSUME wire[s].stage = "stream"
        PROVE  SubscriptionCover(s)' /\ \A i \in DOMAIN handler[s].pending : PendingCover(s, i)'
    <3>1. subs[s].position \in Nat /\ subs[s].position <= position[Channel]
      BY <1>2, <2>1, <2>3, HubFacts DEF ConnectionOf
    <3>2. ASSUME NEW i \in DOMAIN handler[s].pending
          PROVE  /\ handler[s].pending[i].position \in Nat
                 /\ handler[s].pending[i].position <= position[Channel]
      <4>1. handler[s].pending[i].position \in Nat
        BY <1>2, Typing
      <4>2. handler[s].pending[i].position <= subs[s].position
        BY <2>1, <2>3 DEF OrderOf, PendingOrder
      <4> QED BY <1>9, <3>1, <4>1, <4>2
    <3>3. SubscriptionCover(s)'
      BY <1>3, <1>9, <3>1 DEF SubscriptionCover
    <3> QED BY <1>1, <1>9, <3>2, <3>3 DEF PendingCover
  <2> QED BY <1>1, <1>3, <2>2, <2>3 DEF CoverOf, HasID
<1> QED BY <1>1, <1>5, <1>6, <1>8, <1>10, <1>11, PageAloneStep

-----------------------------------------------------------------------------
(* StreamInv is inductive. *)

LEMMA InitEstablishesStreamInv == Init => StreamInv
<1> SUFFICES ASSUME Init PROVE StreamInv
  OBVIOUS
<1>1. HubTheorems!HubInv
  BY HubStarts DEF Init
<1>2. /\ generation = 0 /\ process = "up" /\ committed = {} /\ access = TRUE /\ sealed = {} /\ faults = 0
      /\ command = [m \in Messages |-> "idle"]
      /\ handler = [s \in Subscriptions |-> NoHandler] /\ wire = [s \in Subscriptions |-> FreeWire]
      /\ source = NewSource /\ page = ConnectingPage
  BY DEF Init
<1>3. ASSUME NEW s \in Subscriptions
      PROVE  /\ handler[s].pc = "none" /\ handler[s].pending = <<>> /\ handler[s] \in Handlers
             /\ wire[s].stage = "free" /\ wire[s].frames = <<>> /\ wire[s] \in Wires
             /\ ~subs[s].open
  <2>1. handler[s] = NoHandler /\ wire[s] = FreeWire /\ subs[s] = Hub!Unused
    BY <1>2 DEF Init, Hub!Init
  <2>2. /\ NoHandler.pc = "none" /\ NoHandler.pending = <<>> /\ NoHandler \in Handlers
    BY DEF NoHandler, Handlers, Pcs
  <2>3. FreeWire.stage = "free" /\ FreeWire.frames = <<>> /\ FreeWire \in Wires
    BY DEF FreeWire, Wires, Stages
  <2>4. ~Hub!Unused.open
    BY DEF Hub!Unused
  <2> QED BY <2>1, <2>2, <2>3, <2>4
<1>4. /\ source \in Sources /\ source.conn = None /\ source.last = NoCursor
      /\ page \in Pages /\ page.status = "connecting" /\ ~page.initialReady /\ page.history = "none"
      /\ page.read = {} /\ page.buffer = {} /\ page.shown = {}
  BY <1>2 DEF NewSource, ConnectingPage, Sources, Pages
<1>5. TypesOK
  <2>1. handler \in [Subscriptions -> Handlers] /\ wire \in [Subscriptions -> Wires]
    BY <1>2, <1>3
  <2>2. command \in [Messages -> Commands]
    BY <1>2 DEF Commands
  <2> QED BY <1>2, <1>4, <2>1, <2>2, StreamAssumption DEF TypesOK
<1>6. PageOK /\ PageCursorOK
  BY <1>4, StreamAssumption DEF PageOK, PageCursorOK, Settled
<1>7. StoreOK
  <2>1. log = [c \in Channels |-> <<>>]
    BY DEF Init, Hub!Init
  <2>2. \A c \in Channels : \A i \in DOMAIN log[c] : log[c][i] \in committed
    BY <2>1
  <2> QED BY <1>2, <1>4, <2>2 DEF StoreOK, PageHolds
<1>8. ASSUME NEW s \in Subscriptions PROVE StreamOf(s)
  BY <1>3, <1>4, StreamAssumption
  DEF StreamOf, ConnectionOf, SafeOf, WakeOf, OrderOf, CoverOf, Settled
<1> QED BY <1>1, <1>5, <1>6, <1>7, <1>8 DEF StreamInv

LEMMA ControlSequences ==
    <<>> \in Seq(ControlFrames) /\ <<Revoked>> \in Seq(ControlFrames) /\ <<Resync>> \in Seq(ControlFrames)
BY DEF ControlFrames

\* The ways in which a handler returns.
LEMMA ReturningStep ==
    ASSUME StreamInv, NEW s \in Subscriptions, HubTheorems!HubInv',
           \/ DrainFails(s) \/ Heartbeat(s) \/ ClientGone(s) \/ ReadFails(s)
           \/ ~access /\ (AuthorizeEvent(s) \/ LoadEvent(s))
    PROVE  StreamInv'
<1>1. faults \in 0..MaxFaults /\ MaxFaults \in Nat
  BY StreamAssumption DEF StreamInv, TypesOK
<1>2. PICK e \in Seq(ControlFrames) : Return(s, e)
  BY ControlSequences DEF DrainFails, Heartbeat, ClientGone, ReadFails, AuthorizeEvent, LoadEvent
<1>3. UNCHANGED <<process, storeVars, clientVars>>
  BY DEF DrainFails, Heartbeat, ClientGone, ReadFails, AuthorizeEvent, LoadEvent
<1>4. faults' = faults \/ (faults < MaxFaults /\ faults' = faults + 1)
  BY DEF DrainFails, Heartbeat, ClientGone, ReadFails, AuthorizeEvent, LoadEvent
<1>5. faults' \in 0..MaxFaults
  BY <1>1, <1>4
<1> QED BY <1>2, <1>3, <1>5, ReturnStep

LEMMA ServeStep ==
    ASSUME StreamInv, NEW s \in Subscriptions, Serve(s), HubTheorems!HubInv'
    PROVE  StreamInv'
<1>1. CASE RefuseRequest(s)
  BY <1>1, RefusedStep DEF RefuseRequest
<1>2. CASE ProxyRefuses(s)
  BY <1>2, RefusedStep DEF ProxyRefuses
<1>3. CASE ResyncRequest(s)
  BY <1>3, ResyncStep
<1>4. CASE AcceptRequest(s)
  BY <1>4, AcceptStep
<1>5. CASE DrainHub(s)
  BY <1>5, DrainStep
<1>6. CASE DrainFails(s) \/ Heartbeat(s) \/ ClientGone(s)
  BY <1>6, ReturningStep
<1>7. CASE AuthorizeEvent(s)
  <2>1. CASE access
    <3>1. /\ handler[s].pc = "authorize" /\ handler' = [handler EXCEPT ![s].pc = "load"]
          /\ UNCHANGED <<hubVars, wire, process, storeVars, clientVars, faults>>
      BY <1>7, <2>1 DEF AuthorizeEvent
    <3>2. UNCHANGED <<generation, position, log, closed, subs>>
      BY <3>1 DEF hubVars
    <3> QED BY <3>1, <3>2, HandlerMoves
  <2>2. CASE ~access
    BY <1>7, <2>2, ReturningStep
  <2> QED BY <2>1, <2>2
<1>8. CASE LoadEvent(s)
  <2>1. CASE access
    BY <1>8, <2>1, LoadStep
  <2>2. CASE ~access
    BY <1>8, <2>2, ReturningStep
  <2> QED BY <2>1, <2>2
<1>9. CASE ReceiveWake(s)
  <2>1. /\ handler[s].pc = "wait" /\ handler' = [handler EXCEPT ![s].pc = "drain"]
        /\ subs' = [subs EXCEPT ![s].wake = FALSE]
        /\ UNCHANGED <<generation, position, log, closed, process, storeVars, wire, clientVars, faults>>
    BY <1>9 DEF ReceiveWake, Hub!ReceiveWake
  <2> QED BY <2>1, HandlerMoves
<1> QED BY <1>1, <1>2, <1>3, <1>4, <1>5, <1>6, <1>7, <1>8, <1>9 DEF Serve

LEMMA FollowStep ==
    ASSUME StreamInv, Follow, HubTheorems!HubInv'
    PROVE  StreamInv'
<1>1. ASSUME NEW s \in Subscriptions, OpenConnection(s) PROVE StreamInv'
  BY <1>1, OpenStep
<1>2. ASSUME NEW s \in Subscriptions, OnReady(s) PROVE StreamInv'
  BY <1>2, OnReadyStep
<1>3. ASSUME NEW s \in Subscriptions, OnMessageCreated(s) PROVE StreamInv'
  <2>1. CASE page.initialReady
    BY <1>3, <2>1, OnMessageCreatedStep
  <2>2. CASE ~page.initialReady
    BY <1>3, <2>2, LoseAccessStep DEF OnMessageCreated
  <2> QED BY <2>1, <2>2
<1>4. ASSUME NEW s \in Subscriptions, OnResyncRequired(s) PROVE StreamInv'
  BY <1>4, OnResyncStep
<1>5. ASSUME NEW s \in Subscriptions, OnAccessRevoked(s) PROVE StreamInv'
  BY <1>5, LoseAccessStep DEF OnAccessRevoked
<1>6. faults \in 0..MaxFaults
  BY DEF StreamInv, TypesOK
<1>7. ASSUME NEW s \in Subscriptions, StreamEnds(s) PROVE StreamInv'
  BY <1>6, <1>7, LostStep DEF StreamEnds
<1>8. ASSUME NEW s \in Subscriptions, OnRefused(s) PROVE StreamInv'
  BY <1>6, <1>8, LostStep DEF OnRefused
<1>9. CASE ReadHistory
  BY <1>9, ReadHistoryStep
<1>10. CASE HistoryFails
  BY <1>10, LoseAccessStep DEF HistoryFails
<1>11. CASE HistoryArrives
  BY <1>11, HistoryArrivesStep
<1> QED BY <1>1, <1>2, <1>3, <1>4, <1>5, <1>7, <1>8, <1>9, <1>10, <1>11 DEF Follow

LEMMA StreamInvStep == StreamInv /\ [Next]_vars => StreamInv'
<1> SUFFICES ASSUME StreamInv, [Next]_vars PROVE StreamInv'
  OBVIOUS
<1>1. HubTheorems!HubInv'
  BY HubStep DEF StreamInv
<1>2. ASSUME NEW m \in Messages, Commit(m) \/ Announce(m) \/ LoseAck(m) PROVE StreamInv'
  BY <1>1, <1>2, CommitStep, AnnounceStep, LoseAckStep
<1>3. CASE Withdraw \/ Restart
  BY <1>1, <1>3, WithdrawOrRestartStep
<1>4. ASSUME NEW s \in Subscriptions, Serve(s) PROVE StreamInv'
  BY <1>1, <1>4, ServeStep
<1>5. ASSUME NEW s \in Subscriptions, ReadFails(s) PROVE StreamInv'
  BY <1>1, <1>5, ReturningStep
<1>6. ASSUME NEW s \in Subscriptions, ConnectionLost(s) PROVE StreamInv'
  <2>1. faults \in 0..MaxFaults /\ MaxFaults \in Nat /\ faults < MaxFaults /\ faults' = faults + 1
    BY <1>6, StreamAssumption DEF StreamInv, TypesOK, ConnectionLost
  <2>2. faults' \in 0..MaxFaults
    BY <2>1
  <2> QED BY <1>1, <1>6, <2>2, LostStep DEF ConnectionLost
<1>7. CASE Signal
  BY <1>1, <1>7, SignalStep
<1>8. CASE Stop
  BY <1>1, <1>8, StopStep
<1>9. CASE Follow
  BY <1>1, <1>9, FollowStep
<1>10. CASE ProbeAnswers
  BY <1>1, <1>10, ProbeStep
<1>11. CASE UNCHANGED vars
  <2>1. UNCHANGED <<hubVars, process, committed, command, access, sealed, wire, handler, source, page, faults>>
    BY <1>11 DEF vars, storeVars, clientVars
  <2>2. UNCHANGED <<generation, position, log, closed, subs>>
    BY <2>1 DEF hubVars
  <2>3. TypesOK'
    BY <2>1, <2>2 DEF StreamInv, TypesOK
  <2>4. StreamInv => PageOK' /\ StoreOK' /\ PageCursorOK'
    BY <2>1, <2>2, GlobalsKept DEF StreamInv
  <2>5. ASSUME NEW s \in Subscriptions PROVE StreamOf(s)'
    BY <2>1, <2>2, QuietKept DEF StreamInv
  <2> QED BY <1>1, <2>3, <2>4, <2>5 DEF StreamInv
<1> QED
  BY <1>2, <1>3, <1>4, <1>5, <1>6, <1>7, <1>8, <1>9, <1>10, <1>11 DEF Next

-----------------------------------------------------------------------------
(* The theorems. *)

\* The stream's inductive invariant holds of every behaviour: along the page's one
\* connection, positions grow from the cursor over the frames to the subscription,
\* and page, frames and pending records together cover the hub's log.
THEOREM StreamInvariant == Spec => []StreamInv
BY InitEstablishesStreamInv, StreamInvStep, PTL DEF Spec

\* Hub, handlers, wire, EventSource and page keep their types, and a handler runs
\* exactly while its subscription is open.
THEOREM StreamTypes == Spec => []TypeOK
<1>1. StreamInv => TypeOK
  <2> SUFFICES ASSUME StreamInv PROVE TypeOK
    OBVIOUS
  <2>1. Hub!TypeOK
    BY DEF StreamInv, HubTheorems!HubInv, HubTheorems!TypeOK, Hub!TypeOK, HubTheorems!Record, Hub!Record,
           HubTheorems!Subscription, Hub!Subscription
  <2>2. \A s \in Subscriptions :
           /\ handler[s].pc \in Pcs /\ wire[s].stage \in Stages
           /\ handler[s].pc = "none" <=> ~subs[s].open
           /\ handler[s].pc \in {"authorize", "load"} <=> handler[s].pending # <<>>
    BY Typing DEF StreamInv, StreamOf, ConnectionOf
  <2> QED BY <2>1, <2>2 DEF StreamInv, TypesOK, Commands, Sources, Pages, TypeOK
<1> QED BY <1>1, StreamInvariant, PTL

\* However a notification, a shutdown, the drain and the select of the handler
\* interleave, no handler sleeps while the hub has something for it.
THEOREM WakeupsAreNotLost == Spec => []NoLostWakeup
<1>1. StreamInv => NoLostWakeup
  BY DEF StreamInv, StreamOf, WakeOf, NoLostWakeup
<1> QED BY <1>1, StreamInvariant, PTL

\* No reply of a Thread the viewer may not read, and nothing posted after his
\* access ended, is ever written to his connection or kept by his page, although
\* every check is some steps older than the write it guards.
THEOREM OnlyReadableLeaves == Spec => []NothingUnreadableLeaves
<1>1. StreamInv => NothingUnreadableLeaves
  <2> SUFFICES ASSUME StreamInv, NEW m \in PageHolds \cup InFlight PROVE m \notin Hidden \cup sealed
    BY DEF NothingUnreadableLeaves
  <2>1. CASE m \in PageHolds
    BY <2>1 DEF StreamInv, StoreOK
  <2>2. CASE m \in InFlight
    <3>1. PICK s \in Subscriptions :
             m \in {f.message : f \in {g \in ToSet(wire[s].frames) : g.event = "message.created"}}
      BY <2>2 DEF InFlight
    <3>2. PICK i \in DOMAIN wire[s].frames :
             wire[s].frames[i].event = "message.created" /\ wire[s].frames[i].message = m
      BY <3>1 DEF ToSet
    <3> QED BY <3>2 DEF StreamInv, StreamOf, SafeOf
  <2> QED BY <2>1, <2>2
<1> QED BY <1>1, StreamInvariant, PTL

\* Whatever is lost, cut, skipped or restarted, a page with a cursor of the running
\* process holds every readable Message announced up to that cursor.
THEOREM PageIsCovered == Spec => []CursorCoversPage
<1>1. StreamInv => CursorCoversPage
  BY DEF StreamInv, PageCursorOK, Settled, OnPage, CursorCoversPage
<1> QED BY <1>1, StreamInvariant, PTL

Advance == /\ source.last # NoCursor /\ source'.last # NoCursor
           /\ source'.last # source.last
           /\ source'.last.generation = source.last.generation
           => source'.last.position > source.last.position

\* Within one epoch of one process the browser's cursor never goes back or repeats,
\* not even over reconnects.
THEOREM CursorAdvances == Spec => CursorOnlyAdvances
<1>1. StreamInv /\ [Next]_vars => [Advance]_vars
  <2> SUFFICES ASSUME StreamInv, Next PROVE Advance
    OBVIOUS
  <2>1. source.last \in PageCursors \cup {NoCursor}
    BY DEF StreamInv, TypesOK, Sources
  <2>2. ASSUME NEW s \in Subscriptions, OnReady(s) PROVE Advance
    <3>1. /\ Head(wire[s].frames) = wire[s].frames[1] /\ 1 \in DOMAIN wire[s].frames
          /\ wire[s].frames[1].event = "ready" /\ OrderOf(s)
      BY <2>2, Receiving DEF OnReady
    <3>2. source.last # NoCursor => wire[s].frames[1].id = source.last
      BY <3>1 DEF OrderOf, FrameOrder, HasID
    <3>3. source'.last = wire[s].frames[1].id
      BY <2>2, <3>1 DEF OnReady, StreamInv, TypesOK, Sources
    <3> QED BY <3>2, <3>3 DEF Advance
  <2>3. ASSUME NEW s \in Subscriptions, OnMessageCreated(s), page.initialReady PROVE Advance
    <3>1. /\ Head(wire[s].frames) = wire[s].frames[1] /\ 1 \in DOMAIN wire[s].frames
          /\ wire[s].frames[1] \in Frames
          /\ wire[s].frames[1].event = "message.created" /\ OrderOf(s)
      BY <2>3, Receiving DEF OnMessageCreated
    <3>2. source.last # NoCursor => source.last.position < wire[s].frames[1].id.position
      BY <3>1 DEF OrderOf, FrameOrder, HasID
    <3>3. source'.last = wire[s].frames[1].id
      BY <2>3, <3>1 DEF OnMessageCreated, StreamInv, TypesOK, Sources
    <3>4. wire[s].frames[1].id.position \in Nat
      BY <3>1, FrameTypes DEF HasID
    <3>5. source.last # NoCursor => source.last.position \in Nat
      BY <2>1, CursorTypes
    <3> QED BY <3>2, <3>3, <3>4, <3>5 DEF Advance
  <2>4. CASE LoseAccess
    BY <2>4 DEF LoseAccess, ClosedSource, NewSource, Advance
  <2>5. ASSUME NEW s \in Subscriptions, OnMessageCreated(s), ~page.initialReady PROVE LoseAccess
    BY <2>5 DEF OnMessageCreated
  <2>6. ASSUME NEW s \in Subscriptions, OnResyncRequired(s) PROVE Advance
    BY <2>6 DEF OnResyncRequired, NewSource, Advance
  <2>7. ASSUME source'.last = source.last PROVE Advance
    BY <2>7 DEF Advance
  <2>8. ASSUME NEW s \in Subscriptions, StreamEnds(s) \/ ConnectionLost(s) \/ OnRefused(s) \/ OpenConnection(s)
        PROVE  source'.last = source.last
    BY <2>8 DEF StreamEnds, ConnectionLost, OnRefused, OpenConnection, StreamInv, TypesOK, Sources
  <2>9. ASSUME NEW s \in Subscriptions, Serve(s) \/ ReadFails(s) PROVE source' = source
    BY <2>9
    DEF Serve, ReadFails, RefuseRequest, ResyncRequest, AcceptRequest, ProxyRefuses, DrainHub, DrainFails,
        AuthorizeEvent, LoadEvent, ReceiveWake, Heartbeat, ClientGone, clientVars
  <2>10. ASSUME NEW m \in Messages, Commit(m) \/ Announce(m) \/ LoseAck(m) PROVE source' = source
    BY <2>10 DEF Commit, Announce, LoseAck, clientVars
  <2>11. CASE Withdraw \/ Signal \/ Stop \/ Restart
    BY <2>7, <2>11 DEF Withdraw, Signal, Stop, Restart, clientVars
  <2>12. CASE Follow
    BY <2>2, <2>3, <2>4, <2>5, <2>6, <2>7, <2>8, <2>12
    DEF Follow, OnAccessRevoked, ReadHistory, HistoryFails, HistoryArrives
  <2>13. CASE ProbeAnswers
    BY <2>4, <2>7, <2>13 DEF ProbeAnswers
  <2> QED BY <2>7, <2>8, <2>9, <2>10, <2>11, <2>12, <2>13 DEF Next
<1> QED BY <1>1, StreamInvariant, PTL DEF Spec, CursorOnlyAdvances, Advance
=============================================================================
