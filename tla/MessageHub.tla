----------------------------- MODULE MessageHub -----------------------------
(***************************************************************************)
(* The in-process realtime hub of the server                               *)
(* (server/internal/platform/realtime/hub.go).  Every operation runs under *)
(* hub.mu, so every operation is one action.  The hub keeps, per channel,  *)
(* a position counter and a bounded window of records, and a set of        *)
(* subscriptions that each hold a position and a one-token wake channel.   *)
(* Calls that only return an error change nothing and are not actions; the *)
(* conditions under which they do are the operators CanResume, HasCapacity *)
(* and ReplayUnavailable.                                                  *)
(*                                                                         *)
(* A cursor is [generation, channel, position]: the base64 text of         *)
(* encodeCursor and the canonical-form check of decodeCursor come down to  *)
(* the three fields decodeCursor compares.  NoCursor stands for an absent  *)
(* Last-Event-ID.  hub.channels is filled lazily by hub.channel(key); a    *)
(* channel without a state and one at position 0 with no record behave     *)
(* alike, so the functions below are total.                                *)
(*                                                                         *)
(* log, start and got are history variables: what was announced, where a   *)
(* subscription began and what it has drained since.                       *)
(***************************************************************************)
EXTENDS Naturals, Sequences, FiniteSets

CONSTANTS Channels,               \* channel keys
          Users,                  \* user keys
          Subscriptions,          \* subscription identities, reused after Close
          Messages,               \* Message ids
          Generations,            \* process generations a cursor may carry
          NoCursor,
          ReplayLimit,            \* Config.ReplayLimit, 1024 in the server
          ConnectionLimit,        \* 256
          UserConnectionLimit,    \* 4
          ChannelConnectionLimit, \* 64
          MaxPosition             \* bound on notifications per channel

\* NewHub refuses any other configuration.
ASSUME LimitsAssumption ==
    /\ ReplayLimit \in Nat \ {0}
    /\ ConnectionLimit \in Nat \ {0}
    /\ UserConnectionLimit \in 1..ConnectionLimit
    /\ ChannelConnectionLimit \in 1..ConnectionLimit

ASSUME UniverseAssumption ==
    /\ IsFiniteSet(Subscriptions)
    /\ Channels # {} /\ Users # {}
    /\ MaxPosition \in Nat

VARIABLES generation,          \* config.Generation, one per process
          position,            \* channelState.position
          records,             \* channelState.records
          subs,                \* the Subscription values
          connectionCount,     \* hub.connectionCount
          userConnections,     \* hub.userConnections, 0 for a missing key
          channelConnections,  \* hub.channelConnections, 0 for a missing key
          closed,              \* hub.closed
          log, start, got      \* history

hubVars == <<generation, position, records, subs, connectionCount, userConnections,
             channelConnections, closed, log, start, got>>
counters == <<connectionCount, userConnections, channelConnections>>

Record == [position: Nat, messageID: Messages]
Subscription == [open: BOOLEAN, channel: Channels, user: Users, position: Nat, wake: BOOLEAN]

\* An identity no Subscription value holds.
Unused == [open |-> FALSE, channel |-> CHOOSE c \in Channels : TRUE,
           user |-> CHOOSE u \in Users : TRUE, position |-> 0, wake |-> FALSE]

Init ==
    /\ generation \in Generations
    /\ position = [c \in Channels |-> 0]
    /\ records = [c \in Channels |-> <<>>]
    /\ subs = [s \in Subscriptions |-> Unused]
    /\ connectionCount = 0
    /\ userConnections = [u \in Users |-> 0]
    /\ channelConnections = [c \in Channels |-> 0]
    /\ closed = FALSE
    /\ log = [c \in Channels |-> <<>>]
    /\ start = [s \in Subscriptions |-> 0]
    /\ got = [s \in Subscriptions |-> <<>>]

-----------------------------------------------------------------------------
(* Helpers of the source. *)

\* Bug variants, named Bug..., stand before the operator they are a wrong version
\* of; no specification uses them.

\* Keep the last ReplayLimit records.
TrimToLimit(r) ==
    IF Len(r) > ReplayLimit THEN SubSeq(r, Len(r) - ReplayLimit + 1, Len(r)) ELSE r

\* Forgets that position p itself is not needed any more.
BugNeedsOwnPosition(c, p) ==
    p < position[c] /\ (records[c] = <<>> \/ p < records[c][1].position)

\* replayUnavailable(state, p).
ReplayUnavailable(c, p) ==
    /\ p < position[c]
    /\ records[c] = <<>> \/ p + 1 < records[c][1].position

\* Accepts cursors of other generations, and cursors from the future.
BugAnyGeneration(c, cursor) ==
    cursor # NoCursor => /\ cursor.channel = c
                         /\ cursor.position <= position[c]
                         /\ ~ReplayUnavailable(c, cursor.position)

BugFutureCursor(c, cursor) ==
    cursor # NoCursor => /\ cursor.generation = generation
                         /\ cursor.channel = c
                         /\ ~ReplayUnavailable(c, cursor.position)

\* decodeCursor and the checks of Subscribe on a Last-Event-ID.
CanResume(c, cursor) ==
    \/ cursor = NoCursor
    \/ /\ cursor # NoCursor
       /\ cursor.generation = generation
       /\ cursor.channel = c
       /\ cursor.position <= position[c]
       /\ ~ReplayUnavailable(c, cursor.position)

HasCapacity(u, c) ==
    /\ connectionCount < ConnectionLimit
    /\ userConnections[u] < UserConnectionLimit
    /\ channelConnections[c] < ChannelConnectionLimit

\* Keeps the record at p as well.
BugSeenAgain(r, p) == SubSeq(r, Cardinality({i \in DOMAIN r : r[i].position < p}) + 1, Len(r))

\* The records Drain's loop keeps: the window is in position order, so they
\* are what follows the ones at or below p.
Unseen(r, p) ==
    SubSeq(r, Cardinality({i \in DOMAIN r : r[i].position <= p}) + 1, Len(r))

\* wake(state): a token for every subscription of the channel that has none.
Woken(c) == [s \in Subscriptions |->
    IF subs[s].open /\ subs[s].channel = c THEN [subs[s] EXCEPT !.wake = TRUE] ELSE subs[s]]

-----------------------------------------------------------------------------
(* The operations of the hub. *)

NotifyMessageCreated(c, m) ==
    /\ ~closed
    /\ position[c] < MaxPosition
    /\ position' = [position EXCEPT ![c] = @ + 1]
    /\ records' = [records EXCEPT ![c] =
                      TrimToLimit(Append(@, [position |-> position[c] + 1, messageID |-> m]))]
    /\ subs' = Woken(c)
    /\ log' = [log EXCEPT ![c] = Append(@, m)]
    /\ UNCHANGED <<generation, counters, closed, start, got>>

NotifyChannelAccessChanged(c) ==
    /\ subs' = Woken(c)
    /\ UNCHANGED <<generation, position, records, counters, closed, log, start, got>>

StartPosition(c, cursor) == IF cursor = NoCursor THEN position[c] ELSE cursor.position

Subscribe(s, c, u, cursor) ==
    /\ ~closed
    /\ ~subs[s].open
    /\ CanResume(c, cursor)
    /\ HasCapacity(u, c)
    /\ subs' = [subs EXCEPT ![s] = [open |-> TRUE, channel |-> c, user |-> u,
                                    position |-> StartPosition(c, cursor), wake |-> FALSE]]
    /\ connectionCount' = connectionCount + 1
    /\ userConnections' = [userConnections EXCEPT ![u] = @ + 1]
    /\ channelConnections' = [channelConnections EXCEPT ![c] = @ + 1]
    /\ start' = [start EXCEPT ![s] = StartPosition(c, cursor)]
    /\ got' = [got EXCEPT ![s] = <<>>]
    /\ UNCHANGED <<generation, position, records, closed, log>>

\* The handler's receive from subscription.Wake().
ReceiveWake(s) ==
    /\ subs[s].wake
    /\ subs' = [subs EXCEPT ![s].wake = FALSE]
    /\ UNCHANGED <<generation, position, records, counters, closed, log, start, got>>

\* What Drain returns for s; its error returns change nothing.
DrainedRecords(s) == Unseen(records[subs[s].channel], subs[s].position)

Drain(s) ==
    /\ subs[s].open
    /\ ~closed
    /\ ~ReplayUnavailable(subs[s].channel, subs[s].position)
    /\ got' = [got EXCEPT ![s] =
                  @ \o [i \in DOMAIN DrainedRecords(s) |-> DrainedRecords(s)[i].messageID]]
    /\ subs' = [subs EXCEPT ![s].position = position[subs[s].channel]]
    /\ UNCHANGED <<generation, position, records, counters, closed, log, start>>

\* Leaks the Channel's slot.
BugLeaksChannelSlot(s) ==
    /\ subs[s].open
    /\ subs' = [subs EXCEPT ![s] = Unused]
    /\ connectionCount' = connectionCount - 1
    /\ userConnections' = [userConnections EXCEPT ![subs[s].user] = @ - 1]
    /\ start' = [start EXCEPT ![s] = 0]
    /\ got' = [got EXCEPT ![s] = <<>>]
    /\ UNCHANGED <<generation, position, records, channelConnections, closed, log>>

\* Closing a closed subscription returns at once.
Close(s) ==
    /\ subs[s].open
    /\ subs' = [subs EXCEPT ![s] = Unused]
    /\ connectionCount' = connectionCount - 1
    /\ userConnections' = [userConnections EXCEPT ![subs[s].user] = @ - 1]
    /\ channelConnections' = [channelConnections EXCEPT ![subs[s].channel] = @ - 1]
    /\ start' = [start EXCEPT ![s] = 0]
    /\ got' = [got EXCEPT ![s] = <<>>]
    /\ UNCHANGED <<generation, position, records, closed, log>>

\* Wakes nobody.
BugSilentShutdown ==
    /\ ~closed
    /\ closed' = TRUE
    /\ UNCHANGED <<generation, position, records, subs, counters, log, start, got>>

Shutdown ==
    /\ ~closed
    /\ closed' = TRUE
    /\ subs' = [s \in Subscriptions |-> IF subs[s].open THEN [subs[s] EXCEPT !.wake = TRUE] ELSE subs[s]]
    /\ UNCHANGED <<generation, position, records, counters, log, start, got>>

Cursors == {NoCursor} \cup [generation: Generations, channel: Channels, position: 0..MaxPosition]

Next ==
    \/ \E c \in Channels, m \in Messages : NotifyMessageCreated(c, m)
    \/ \E c \in Channels : NotifyChannelAccessChanged(c)
    \/ \E s \in Subscriptions, c \in Channels, u \in Users, cursor \in Cursors :
           Subscribe(s, c, u, cursor)
    \/ \E s \in Subscriptions : ReceiveWake(s) \/ Drain(s) \/ Close(s)
    \/ Shutdown

Spec == Init /\ [][Next]_hubVars

-----------------------------------------------------------------------------
(* Properties. *)

TypeOK ==
    /\ generation \in Generations
    /\ position \in [Channels -> 0..MaxPosition]
    /\ records \in [Channels -> Seq(Record)]
    /\ subs \in [Subscriptions -> Subscription]
    /\ connectionCount \in Nat
    /\ userConnections \in [Users -> Nat]
    /\ channelConnections \in [Channels -> Nat]
    /\ closed \in BOOLEAN
    /\ log \in [Channels -> Seq(Messages)]
    /\ start \in [Subscriptions -> Nat]
    /\ got \in [Subscriptions -> Seq(Messages)]

\* The messages of l at positions from + 1 .. to.
Run(l, from, to) == [i \in 1..(to - from) |-> l[from + i]]

\* The replay window of a channel is the newest end of its log, entry by entry,
\* and holds ReplayLimit entries as soon as there are that many: the trimming
\* and the position counter of NotifyMessageCreated never drift apart.
WindowIsNewestLog ==
    \A c \in Channels :
        LET first == position[c] - Len(records[c]) IN
        /\ Len(log[c]) = position[c]
        /\ Len(records[c]) <= position[c]
        /\ Len(records[c]) <= ReplayLimit
        /\ Len(records[c]) \in {position[c], ReplayLimit}
        /\ \A i \in 1..Len(records[c]) :
              records[c][i] = [position |-> first + i, messageID |-> log[c][first + i]]

\* What a subscription has drained is the unbroken run of the channel's log from
\* the position it joined at to the position it stands at: across trims, resumes
\* and wake-ups Drain neither skips, repeats nor reorders a message.
DrainedIsUnbroken ==
    \A s \in Subscriptions : subs[s].open =>
        /\ start[s] <= subs[s].position
        /\ subs[s].position <= position[subs[s].channel]
        /\ got[s] = Run(log[subs[s].channel], start[s], subs[s].position)

\* A subscriber is sent to resync exactly when it is more than ReplayLimit
\* messages behind: never while the window still holds all it misses, always
\* once the window has lost one of them.
ResyncExactlyWhenLost ==
    \A s \in Subscriptions : subs[s].open =>
        (ReplayUnavailable(subs[s].channel, subs[s].position)
            <=> position[subs[s].channel] - subs[s].position > ReplayLimit)

OpenSubscriptions == {s \in Subscriptions : subs[s].open}

\* The three connection counters are the numbers of open subscriptions they
\* stand for, whatever the order of Subscribe and Close, and so never pass the
\* configured limits: releaseCounts never leaks or double-frees a slot.
CountersExact ==
    /\ connectionCount = Cardinality(OpenSubscriptions)
    /\ \A u \in Users :
          userConnections[u] = Cardinality({s \in OpenSubscriptions : subs[s].user = u})
    /\ \A c \in Channels :
          channelConnections[c] = Cardinality({s \in OpenSubscriptions : subs[s].channel = c})

LimitsHold ==
    /\ connectionCount <= ConnectionLimit
    /\ \A u \in Users : userConnections[u] <= UserConnectionLimit
    /\ \A c \in Channels : channelConnections[c] <= ChannelConnectionLimit

\* After Shutdown nobody is handed a message or admitted, whatever was pending:
\* the handlers can only leave.
ShutdownIsFinal ==
    [][closed => /\ closed'
                 /\ log' = log
                 /\ \A s \in Subscriptions : subs'[s].open =>
                        subs[s].open /\ got'[s] = got[s]]_hubVars

\* The hub implements the feed it promises to the event handlers.
Feed == INSTANCE ChannelFeed WITH
    Readers <- Subscriptions,
    feed <- [s \in Subscriptions |-> [open |-> subs[s].open, channel |-> subs[s].channel,
                                      start |-> start[s], got |-> got[s]]]
FeedSpec == Feed!Spec
=============================================================================
