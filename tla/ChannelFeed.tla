---------------------------- MODULE ChannelFeed ----------------------------
(***************************************************************************)
(* What the realtime hub promises the event handlers that subscribe to it. *)
(* Every channel has a log of published messages.  A reader joins at one   *)
(* position of one log and is then handed a contiguous run of that log:    *)
(* nothing skipped, repeated or reordered.  A reader the hub can no longer *)
(* serve is refused (a stutter here) and has to leave, it never gets a run *)
(* with a hole.  Nothing is said about windows, limits or wake-ups: those  *)
(* are MessageHub's own business.                                          *)
(***************************************************************************)
EXTENDS Naturals, Sequences

CONSTANTS Channels,  \* channel keys (workspace and channel)
          Readers,   \* the identities a subscription can take
          Messages   \* Message ids

VARIABLES log,   \* per channel, the messages announced so far
          feed   \* per reader, where it joined and what it was handed

vars == <<log, feed>>

\* The messages of l at positions from + 1 .. to.
Run(l, from, to) == [i \in 1..(to - from) |-> l[from + i]]

\* A reader that has not joined, or has left.
Idle == [open |-> FALSE, channel |-> CHOOSE c \in Channels : TRUE, start |-> 0, got |-> <<>>]

Init ==
    /\ log = [c \in Channels |-> <<>>]
    /\ feed = [r \in Readers |-> Idle]

Publish(c, m) ==
    /\ log' = [log EXCEPT ![c] = Append(@, m)]
    /\ UNCHANGED feed

Join(r, c, p) ==
    /\ ~feed[r].open
    /\ p \in 0..Len(log[c])
    /\ feed' = [feed EXCEPT ![r] = [open |-> TRUE, channel |-> c, start |-> p, got |-> <<>>]]
    /\ UNCHANGED log

\* Everything published since the last hand-over, in one piece.
HandOver(r) ==
    /\ feed[r].open
    /\ feed' = [feed EXCEPT ![r].got =
                    Run(log[feed[r].channel], feed[r].start, Len(log[feed[r].channel]))]
    /\ UNCHANGED log

Leave(r) ==
    /\ feed[r].open
    /\ feed' = [feed EXCEPT ![r] = Idle]
    /\ UNCHANGED log

Next ==
    \/ \E c \in Channels, m \in Messages : Publish(c, m)
    \/ \E r \in Readers, c \in Channels : \E p \in 0..Len(log[c]) : Join(r, c, p)
    \/ \E r \in Readers : HandOver(r) \/ Leave(r)

Spec == Init /\ [][Next]_vars
=============================================================================
