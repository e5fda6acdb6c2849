---------------------------- MODULE ChannelStream ----------------------------
(***************************************************************************)
(* One browser page following one Channel, end to end: Message commands    *)
(* that commit and then notify (goldenpath/messaging.go), the hub          *)
(* (MessageHub), the event-stream handlers (httptransport/                 *)
(* channel_events.go), the process that shuts down, crashes and restarts   *)
(* (cmd/radishnexus/main.go), the network, and the page with its           *)
(* EventSource (web/src/channel/realtime.ts, state.ts, ChannelPage.tsx).   *)
(*                                                                         *)
(* A connection and the handler goroutine that serves it share the         *)
(* identity of the hub subscription.  Session, membership and Channel      *)
(* permission are one bit, access, that an outside change may clear for    *)
(* good.  Messages in Hidden are replies in a restricted Thread the viewer *)
(* is no member of.  History is read whole: its paging is ChannelPage's    *)
(* subject.  The browser's EventSource and the reverse proxy are external: *)
(* a response other than 200 ends the EventSource for good, a broken       *)
(* stream makes it reconnect with the last id it received.                 *)
(***************************************************************************)
EXTENDS Naturals, Sequences, FiniteSets, SequencesExt

CONSTANTS Channels, Users, Subscriptions, Messages, Hidden, NoCursor, None,
          ReplayLimit, ConnectionLimit, UserConnectionLimit, ChannelConnectionLimit,
          MaxRestarts,   \* bound on process restarts
          MaxFaults,     \* bound on connection losses and internal read errors
          AckMayBeLost   \* may a commit succeed without its acknowledgement?

Generations == 0..MaxRestarts
MaxPosition == Cardinality(Messages)

\* The limits NewHub accepts, and a browser with a finite number of connections.
ASSUME StreamAssumption ==
    /\ ReplayLimit \in Nat \ {0}
    /\ ConnectionLimit \in Nat \ {0}
    /\ UserConnectionLimit \in 1..ConnectionLimit
    /\ ChannelConnectionLimit \in 1..ConnectionLimit
    /\ IsFiniteSet(Subscriptions) /\ IsFiniteSet(Messages)
    /\ Channels # {} /\ Users # {}
    /\ Hidden \subseteq Messages
    /\ None \notin Subscriptions
    /\ NoCursor \notin [generation: Nat, channel: Channels, position: Nat]
    /\ MaxRestarts \in Nat /\ MaxFaults \in Nat

VARIABLES generation, position, records, subs, connectionCount, userConnections,
          channelConnections, closed, log, start, got,  \* the hub
          process,    \* "up", "draining" after the signal, "down"
          committed,  \* Messages in the database
          command,    \* per Message, how far its create command is
          access,     \* may the viewer read the Channel now?
          sealed,     \* Messages committed after access was lost
          handler,    \* per connection, the goroutine serving it
          wire,       \* per connection, the request and the response in flight
          source,     \* the page's EventSource
          page,       \* the page's reducer state and epoch-local flags
          faults

Hub == INSTANCE MessageHub

hubVars == <<generation, position, records, subs, connectionCount, userConnections,
             channelConnections, closed, log, start, got>>
storeVars == <<committed, command, access, sealed>>
clientVars == <<source, page>>
vars == <<hubVars, process, storeVars, handler, wire, clientVars, faults>>

Channel == CHOOSE c \in Channels : TRUE
Viewer == CHOOSE u \in Users : TRUE

Cursor(p) == [generation |-> generation, channel |-> Channel, position |-> p]

\* Frames of the event stream.
Ready(p) == [event |-> "ready", id |-> Cursor(p)]
Created(p, m) == [event |-> "message.created", id |-> Cursor(p), message |-> m]
Resync == [event |-> "resync-required"]
Revoked == [event |-> "access-revoked"]

NoHandler == [pc |-> "none", pending |-> <<>>]
FreeWire == [stage |-> "free", frames |-> <<>>, lastID |-> NoCursor]

\* dispatch({type: "connect"}) with the flags connect() declares.
ConnectingPage == [status |-> "connecting", initialReady |-> FALSE, probed |-> FALSE,
                   probing |-> FALSE, history |-> "none", read |-> {}, buffer |-> {}, shown |-> {}]
NewSource == [state |-> "connecting", conn |-> None, last |-> NoCursor]

Init ==
    /\ Hub!Init
    /\ generation = 0
    /\ process = "up"
    /\ committed = {}
    /\ command = [m \in Messages |-> "idle"]
    /\ access = TRUE
    /\ sealed = {}
    /\ handler = [s \in Subscriptions |-> NoHandler]
    /\ wire = [s \in Subscriptions |-> FreeWire]
    /\ source = NewSource
    /\ page = ConnectingPage
    /\ faults = 0

-----------------------------------------------------------------------------
(* Message commands.  Posting is somebody else's: the page only reads. *)

\* The transaction of CreateMessage commits.
Commit(m) ==
    /\ process # "down"
    /\ command[m] = "idle"
    /\ command' = [command EXCEPT ![m] = "committed"]
    /\ committed' = committed \cup {m}
    /\ sealed' = IF access THEN sealed ELSE sealed \cup {m}
    /\ UNCHANGED <<hubVars, process, access, handler, wire, clientVars, faults>>

\* The store returned Created: the service notifies the hub, which ignores it
\* once it is closed.
Announce(m) ==
    /\ process # "down"
    /\ command[m] = "committed"
    /\ command' = [command EXCEPT ![m] = "announced"]
    /\ IF closed THEN UNCHANGED hubVars ELSE Hub!NotifyMessageCreated(Channel, m)
    /\ UNCHANGED <<process, committed, access, sealed, handler, wire, clientVars, faults>>

\* Commit returned an error although the database committed: no notification.
\* The author's retry finds the Message, returns Created = false and does not
\* notify either, so it changes nothing here.
LoseAck(m) ==
    /\ AckMayBeLost
    /\ process # "down"
    /\ command[m] = "committed"
    /\ command' = [command EXCEPT ![m] = "ack lost"]
    /\ UNCHANGED <<hubVars, process, committed, access, sealed, handler, wire, clientVars, faults>>

\* Membership, Session or Channel permission is withdrawn in the database; no
\* code path calls NotifyChannelAccessChanged for it.
Withdraw ==
    /\ access
    /\ access' = FALSE
    /\ UNCHANGED <<hubVars, process, committed, command, sealed, handler, wire, clientVars, faults>>

-----------------------------------------------------------------------------
(* The event-stream handler. *)

\* Bytes written to a connection the client has left go nowhere.
Written(s, frames) ==
    IF wire[s].stage = "cut" THEN wire[s] ELSE [wire[s] EXCEPT !.frames = @ \o frames]

\* The handler returns after writing frames: deferred Close, end of response.
Return(s, frames) ==
    /\ Hub!Close(s)
    /\ handler' = [handler EXCEPT ![s] = NoHandler]
    /\ wire' = [wire EXCEPT ![s] = IF wire[s].stage = "cut" THEN FreeWire
                                   ELSE [wire[s] EXCEPT !.stage = "ended", !.frames = @ \o frames]]

\* Errors before the stream starts are plain HTTP errors: no access, a closed hub,
\* no free slot.
RefuseRequest(s) ==
    /\ wire[s].stage = "request"
    /\ process # "down"
    /\ \/ ~access
       \/ closed
       \/ Hub!CanResume(Channel, wire[s].lastID) /\ ~Hub!HasCapacity(Viewer, Channel)
    /\ wire' = [wire EXCEPT ![s].stage = "refused"]
    /\ UNCHANGED <<hubVars, process, storeVars, handler, clientVars, faults>>

\* writeResync: a 200 stream holding one control event.
ResyncRequest(s) ==
    /\ wire[s].stage = "request"
    /\ process # "down" /\ access /\ ~closed
    /\ ~Hub!CanResume(Channel, wire[s].lastID)
    /\ wire' = [wire EXCEPT ![s].stage = "ended", ![s].frames = <<Resync>>]
    /\ UNCHANGED <<hubVars, process, storeVars, handler, clientVars, faults>>

\* Subscribe, then ready with the cursor the subscription starts at.
AcceptRequest(s) ==
    /\ wire[s].stage = "request"
    /\ process # "down" /\ access
    /\ Hub!Subscribe(s, Channel, Viewer, wire[s].lastID)
    /\ handler' = [handler EXCEPT ![s] = [pc |-> "drain", pending |-> <<>>]]
    /\ wire' = [wire EXCEPT ![s].stage = "stream",
                            ![s].frames = <<Ready(Hub!StartPosition(Channel, wire[s].lastID))>>]
    /\ UNCHANGED <<process, storeVars, clientVars, faults>>

\* drain: authorize, then take what the hub has for this subscription.
DrainHub(s) ==
    /\ handler[s].pc = "drain"
    /\ access
    /\ Hub!Drain(s)
    /\ handler' = [handler EXCEPT ![s] =
                      [pc |-> IF Hub!DrainedRecords(s) = <<>> THEN "wait" ELSE "authorize",
                       pending |-> Hub!DrainedRecords(s)]]
    /\ UNCHANGED <<process, storeVars, wire, clientVars, faults>>

\* The two ends of drain that need a control event or none.
DrainFails(s) ==
    /\ handler[s].pc = "drain"
    /\ \/ ~access /\ Return(s, <<Revoked>>)
       \/ access /\ closed /\ Return(s, <<>>)
       \/ /\ access /\ ~closed
          /\ Hub!ReplayUnavailable(Channel, subs[s].position)
          /\ Return(s, <<Resync>>)
    /\ UNCHANGED <<process, storeVars, clientVars, faults>>

\* drain's loop authorizes again before it reads each Message.
AuthorizeEvent(s) ==
    /\ handler[s].pc = "authorize"
    /\ IF access
       THEN /\ handler' = [handler EXCEPT ![s].pc = "load"]
            /\ UNCHANGED <<hubVars, wire>>
       ELSE Return(s, <<Revoked>>)
    /\ UNCHANGED <<process, storeVars, clientVars, faults>>

\* Asks for the Channel's permission only, not for the Thread's.
BugChannelPermissionOnly(s) ==
    LET event == Head(handler[s].pending)
        rest == Tail(handler[s].pending)
    IN
    /\ handler[s].pc = "load" /\ access
    /\ wire' = [wire EXCEPT ![s] = Written(s, <<Created(event.position, event.messageID)>>)]
    /\ handler' = [handler EXCEPT ![s] =
                      [pc |-> IF rest = <<>> THEN "wait" ELSE "authorize", pending |-> rest]]
    /\ UNCHANGED <<hubVars, process, storeVars, clientVars, faults>>

\* GetChannelMessage reads under the current permissions.  What it does not find
\* is skipped without a trace if the Channel itself is still readable.
LoadEvent(s) ==
    LET event == Head(handler[s].pending)
        rest == Tail(handler[s].pending)
    IN
    /\ handler[s].pc = "load"
    /\ IF access
       THEN /\ wire' = [wire EXCEPT ![s] =
                          IF event.messageID \in Hidden THEN @
                          ELSE Written(s, <<Created(event.position, event.messageID)>>)]
            /\ handler' = [handler EXCEPT ![s] =
                              [pc |-> IF rest = <<>> THEN "wait" ELSE "authorize", pending |-> rest]]
            /\ UNCHANGED hubVars
       ELSE Return(s, <<Revoked>>)
    /\ UNCHANGED <<process, storeVars, clientVars, faults>>

\* The select of get: a wake token, a heartbeat that finds access gone, or the
\* request context of a client that left.
ReceiveWake(s) ==
    /\ handler[s].pc = "wait"
    /\ Hub!ReceiveWake(s)
    /\ handler' = [handler EXCEPT ![s].pc = "drain"]
    /\ UNCHANGED <<process, storeVars, wire, clientVars, faults>>

\* Writes a comment line and does not authorize.
BugBlindHeartbeat(s) == handler[s].pc = "wait" /\ ~access /\ UNCHANGED vars

Heartbeat(s) ==
    /\ handler[s].pc = "wait"
    /\ ~access
    /\ Return(s, <<Revoked>>)
    /\ UNCHANGED <<process, storeVars, clientVars, faults>>

\* A cancelled context also fails the database reads and the writes in between.
ClientGone(s) ==
    /\ handler[s].pc # "none"
    /\ wire[s].stage = "cut"
    /\ Return(s, <<>>)
    /\ UNCHANGED <<process, storeVars, clientVars, faults>>

\* Any other error of a read is logged and ends the stream without a word.
ReadFails(s) ==
    /\ faults < MaxFaults
    /\ handler[s].pc \in {"drain", "authorize", "load"}
    /\ faults' = faults + 1
    /\ Return(s, <<>>)
    /\ UNCHANGED <<process, storeVars, clientVars>>

-----------------------------------------------------------------------------
(* The process. *)

\* Stops the HTTP server without closing the hub.
BugHubStaysOpen ==
    /\ process = "up"
    /\ generation < MaxRestarts
    /\ process' = "draining"
    /\ UNCHANGED <<hubVars, storeVars, handler, wire, clientVars, faults>>

Signal ==
    /\ process = "up"
    /\ generation < MaxRestarts
    /\ process' = "draining"
    /\ Hub!Shutdown
    /\ UNCHANGED <<storeVars, handler, wire, clientVars, faults>>

\* The process ends, after draining or by a crash: handlers and subscriptions are
\* gone, streams break off, the proxy answers what was still a request.
Stop ==
    /\ process = "draining" \/ (process = "up" /\ generation < MaxRestarts)
    /\ process' = "down"
    /\ command' = [m \in Messages |-> IF command[m] = "committed" THEN "crashed" ELSE command[m]]
    /\ handler' = [s \in Subscriptions |-> NoHandler]
    /\ wire' = [s \in Subscriptions |->
                  CASE wire[s].stage = "stream" -> [wire[s] EXCEPT !.stage = "ended"]
                    [] wire[s].stage = "request" -> [wire[s] EXCEPT !.stage = "refused"]
                    [] wire[s].stage = "cut" -> FreeWire
                    [] OTHER -> wire[s]]
    /\ generation' = generation + 1
    /\ position' = [c \in Channels |-> 0]
    /\ records' = [c \in Channels |-> <<>>]
    /\ subs' = [s \in Subscriptions |-> Hub!Unused]
    /\ connectionCount' = 0
    /\ userConnections' = [u \in Users |-> 0]
    /\ channelConnections' = [c \in Channels |-> 0]
    /\ closed' = FALSE
    /\ log' = [c \in Channels |-> <<>>]
    /\ start' = [s \in Subscriptions |-> 0]
    /\ got' = [s \in Subscriptions |-> <<>>]
    /\ UNCHANGED <<committed, access, sealed, clientVars, faults>>

Restart ==
    /\ process = "down"
    /\ process' = "up"
    /\ UNCHANGED <<hubVars, storeVars, handler, wire, clientVars, faults>>

\* The proxy has nobody to hand a request to.
ProxyRefuses(s) ==
    /\ process = "down"
    /\ wire[s].stage = "request"
    /\ wire' = [wire EXCEPT ![s].stage = "refused"]
    /\ UNCHANGED <<hubVars, process, storeVars, handler, clientVars, faults>>

-----------------------------------------------------------------------------
(* The EventSource and the page. *)

\* The client side of connection s is dropped; a running handler notices later.
Cut(s) == [wire EXCEPT ![s] =
             IF handler[s].pc = "none" THEN FreeWire ELSE [FreeWire EXCEPT !.stage = "cut"]]

\* The connection the page listens to, and its next frame.
Receives(s, event) ==
    /\ source.conn = s
    /\ wire[s].frames # <<>>
    /\ Head(wire[s].frames).event = event

Consumed(s) == [wire EXCEPT ![s].frames = Tail(@)]

\* loseAccess, and a failed dispatch that closes the connection.
FailedPage == [ConnectingPage EXCEPT !.status = "error"]
ClosedSource == [NewSource EXCEPT !.state = "closed"]

LoseAccess ==
    /\ page' = FailedPage
    /\ source' = ClosedSource
    /\ wire' = IF source.conn = None THEN wire ELSE Cut(source.conn)

\* Which free identity a new connection takes makes no difference.
OpenConnection(s) ==
    /\ source.state = "connecting" /\ source.conn = None
    /\ wire[s].stage = "free"
    /\ s = CHOOSE q \in Subscriptions : wire[q].stage = "free"
    /\ wire' = [wire EXCEPT ![s] = [stage |-> "request", frames |-> <<>>, lastID |-> source.last]]
    /\ source' = [source EXCEPT !.conn = s]
    /\ UNCHANGED <<hubVars, process, storeVars, handler, page, faults>>

\* onReady: only the first one of an epoch asks for history.
OnReady(s) ==
    /\ Receives(s, "ready")
    /\ wire' = Consumed(s)
    /\ source' = [source EXCEPT !.state = "open", !.last = Head(wire[s].frames).id]
    /\ page' = IF page.initialReady THEN [page EXCEPT !.probed = FALSE]
               ELSE [page EXCEPT !.probed = FALSE, !.initialReady = TRUE,
                                 !.status = IF @ = "connecting" THEN "loading-history" ELSE @,
                                 !.history = "asked"]
    /\ UNCHANGED <<hubVars, process, storeVars, handler, faults>>

\* onMessageCreated and the message-created case of the reducer.
OnMessageCreated(s) ==
    LET m == Head(wire[s].frames).message IN
    /\ Receives(s, "message.created")
    /\ IF ~page.initialReady THEN LoseAccess
       ELSE /\ wire' = Consumed(s)
            /\ source' = [source EXCEPT !.last = Head(wire[s].frames).id]
            /\ page' = CASE page.status = "loading-history" -> [page EXCEPT !.buffer = @ \cup {m}]
                         [] page.status = "ready" -> [page EXCEPT !.shown = @ \cup {m}]
                         [] page.status = "connecting" -> [page EXCEPT !.status = "error"]
                         [] OTHER -> page
    /\ UNCHANGED <<hubVars, process, storeVars, handler, faults>>

\* onResyncRequired: connect() again, with a new EventSource and a new epoch.
OnResyncRequired(s) ==
    /\ Receives(s, "resync-required")
    /\ wire' = Cut(s)
    /\ source' = NewSource
    /\ page' = ConnectingPage
    /\ UNCHANGED <<hubVars, process, storeVars, handler, faults>>

OnAccessRevoked(s) ==
    /\ Receives(s, "access-revoked")
    /\ LoseAccess
    /\ UNCHANGED <<hubVars, process, storeVars, handler, faults>>

\* onConnectionError: one probe per ready.
Probed == IF page.probed THEN page ELSE [page EXCEPT !.probed = TRUE, !.probing = TRUE]

\* The stream ended or broke: the browser reconnects with the last id.
StreamEnds(s) ==
    /\ source.conn = s
    /\ wire[s].stage = "ended" /\ wire[s].frames = <<>>
    /\ wire' = Cut(s)
    /\ source' = [source EXCEPT !.state = "connecting", !.conn = None]
    /\ page' = Probed
    /\ UNCHANGED <<hubVars, process, storeVars, handler, faults>>

ConnectionLost(s) ==
    /\ faults < MaxFaults
    /\ source.conn = s
    /\ faults' = faults + 1
    /\ wire' = Cut(s)
    /\ source' = [source EXCEPT !.state = "connecting", !.conn = None]
    /\ page' = Probed
    /\ UNCHANGED <<hubVars, process, storeVars, handler>>

\* A response that is not 200 fails the EventSource: it does not reconnect.
OnRefused(s) ==
    /\ source.conn = s
    /\ wire[s].stage = "refused"
    /\ wire' = Cut(s)
    /\ source' = [source EXCEPT !.state = "failed", !.conn = None]
    /\ page' = Probed
    /\ UNCHANGED <<hubVars, process, storeVars, handler, faults>>

\* The probe reads the Session and the canonical history once; a draining process
\* still answers the requests it has, and refuses new ones.
ProbeAnswers ==
    /\ page.probing
    /\ \/ process # "down" /\ ~access /\ LoseAccess
       \/ /\ process # "up" \/ access
          /\ page' = [page EXCEPT !.probing = FALSE]
          /\ UNCHANGED <<source, wire>>
    /\ UNCHANGED <<hubVars, process, storeVars, handler, faults>>

\* The server side of listMessages for the page.
ReadHistory ==
    /\ page.history = "asked"
    /\ process # "down" /\ access
    /\ page' = [page EXCEPT !.history = "read", !.read = committed \ Hidden]
    /\ UNCHANGED <<hubVars, process, storeVars, handler, wire, source, faults>>

HistoryFails ==
    /\ page.history = "asked"
    /\ process # "up" \/ ~access
    /\ LoseAccess
    /\ UNCHANGED <<hubVars, process, storeVars, handler, faults>>

\* Replaces the buffered events by the page that was read.
BugForgetsBuffer ==
    /\ page.history = "read"
    /\ page' = [page EXCEPT !.history = "none", !.read = {}, !.buffer = {},
                            !.status = "ready", !.shown = page.read]
    /\ UNCHANGED <<hubVars, process, storeVars, handler, wire, source, faults>>

\* history-loaded: merge with what arrived in between.
HistoryArrives ==
    /\ page.history = "read"
    /\ page' = [page EXCEPT !.history = "none", !.read = {}, !.buffer = {},
                            !.status = "ready", !.shown = page.read \cup page.buffer]
    /\ UNCHANGED <<hubVars, process, storeVars, handler, wire, source, faults>>

-----------------------------------------------------------------------------
Serve(s) ==
    \/ RefuseRequest(s) \/ ResyncRequest(s) \/ AcceptRequest(s) \/ ProxyRefuses(s)
    \/ DrainHub(s) \/ DrainFails(s) \/ AuthorizeEvent(s) \/ LoadEvent(s)
    \/ ReceiveWake(s) \/ Heartbeat(s) \/ ClientGone(s)

Follow ==
    \/ \E s \in Subscriptions :
         \/ OpenConnection(s) \/ OnReady(s) \/ OnMessageCreated(s) \/ OnResyncRequired(s)
         \/ OnAccessRevoked(s) \/ StreamEnds(s) \/ OnRefused(s)
    \/ ReadHistory \/ HistoryFails \/ HistoryArrives

Next ==
    \/ \E m \in Messages : Commit(m) \/ Announce(m) \/ LoseAck(m)
    \/ Withdraw
    \/ \E s \in Subscriptions : Serve(s) \/ ReadFails(s) \/ ConnectionLost(s)
    \/ Signal \/ Stop \/ Restart
    \/ Follow \/ ProbeAnswers

NoHandlers == \A s \in Subscriptions : handler[s].pc = "none"

\* Goroutines and the browser keep running, a process whose last handler returned
\* ends, and a stopped one is restarted.  Nothing is assumed about posting, faults
\* or signals, and the ten seconds of Server.Shutdown are not counted on.
Fairness ==
    /\ \A m \in Messages : WF_vars(Announce(m))
    /\ \A s \in Subscriptions : WF_vars(Serve(s))
    /\ WF_vars(Follow)
    /\ WF_vars(ProbeAnswers)
    /\ WF_vars(process = "draining" /\ NoHandlers /\ Stop)
    /\ WF_vars(Restart)

Spec == Init /\ [][Next]_vars
FairSpec == Spec /\ Fairness

-----------------------------------------------------------------------------
(* Properties. *)

Pcs == {"none", "drain", "authorize", "load", "wait"}
Stages == {"free", "request", "stream", "ended", "refused", "cut"}

TypeOK ==
    /\ Hub!TypeOK
    /\ process \in {"up", "draining", "down"}
    /\ committed \subseteq Messages
    /\ command \in [Messages -> {"idle", "committed", "announced", "ack lost", "crashed"}]
    /\ access \in BOOLEAN
    /\ sealed \subseteq committed
    /\ \A s \in Subscriptions : /\ handler[s].pc \in Pcs
                                /\ wire[s].stage \in Stages
                                /\ handler[s].pc = "none" <=> ~subs[s].open
                                /\ handler[s].pc \in {"authorize", "load"} <=> handler[s].pending # <<>>
    /\ source.state \in {"connecting", "open", "failed", "closed"}
    /\ source.conn \in Subscriptions \cup {None}
    /\ page.status \in {"connecting", "loading-history", "ready", "error"}
    /\ faults \in 0..MaxFaults

\* What the page shows, or will once its pending history is merged.
PageHolds == page.shown \cup page.buffer \cup page.read

\* A live cursor never runs ahead of the page: every readable Message announced up
\* to the position the browser would resume from is on the page or in the history
\* about to be merged.  Resuming after any fault therefore loses nothing.
CursorCoversPage ==
    /\ page.status = "ready" \/ page.history = "read"
    /\ source.last # NoCursor
    /\ source.last.generation = generation
    => \A i \in 1..source.last.position : log[Channel][i] \in Hidden \cup PageHolds

\* A handler sleeps in its select only while the hub owes it nothing: a
\* notification or a shutdown between Drain and the select leaves a token.
NoLostWakeup ==
    \A s \in Subscriptions :
        handler[s].pc = "wait" /\ (subs[s].position < position[Channel] \/ closed)
            => subs[s].wake

InFlight == UNION {{f.message : f \in {g \in ToSet(wire[s].frames) : g.event = "message.created"}} :
                    s \in Subscriptions}

\* The viewer never receives a restricted reply, nor anything committed after
\* access was withdrawn, although handlers check access well before they write and
\* the history of the page is read and merged in separate steps.
NothingUnreadableLeaves == (Hidden \cup sealed) \cap (PageHolds \cup InFlight) = {}

\* Within one epoch of one process the browser's cursor only moves forward, so no
\* event is delivered to the page twice, not even across reconnects.
CursorOnlyAdvances ==
    [][/\ source.last # NoCursor /\ source'.last # NoCursor
       /\ source'.last # source.last
       /\ source'.last.generation = source.last.generation
       => source'.last.position > source.last.position]_vars

\* Every readable Message whose notification was not lost reaches a page that still
\* has its EventSource: through the stream, or through history after a resync.
EventuallyShown ==
    \A m \in Messages \ Hidden :
        m \in committed ~> \/ m \in page.shown
                           \/ page.status = "error"
                           \/ source.state = "failed"
                           \/ command[m] = "ack lost"

\* ADR-0020: a process restart, a lost notification and a full window only delay
\* what a page that is up and running shows to a viewer who keeps his access.
OnlyDelayed ==
    \A m \in Messages \ Hidden :
        m \in committed /\ page.status = "ready"
            ~> m \in page.shown \/ page.status = "error" \/ ~access

\* Withdrawn access ends every stream without anybody waking the handlers, and
\* clears a page that was not cut off by an HTTP error.
WithdrawalConverges ==
    ~access ~> NoHandlers /\ (page.status = "error" \/ source.state = "failed")

\* Graceful shutdown does not wait for clients to leave: closing the hub ends every
\* handler, so the process goes down without its ten-second limit.
ShutdownDrains == process = "draining" ~> process = "down"
=============================================================================
