-------------------------- MODULE MessageHub_proofs --------------------------
(***************************************************************************)
(* Proofs about the realtime hub, for every window size, every limit and   *)
(* every finite set of subscriptions.  The inductive invariant HubInv is   *)
(* the conjunction of the invariants MCMessageHub checks: the typing of a  *)
(* counter after Close needs CountersExact, DrainedIsUnbroken needs        *)
(* WindowIsNewestLog, so none of them is inductive on its own.             *)
(***************************************************************************)
EXTENDS MessageHub, FiniteSetTheorems, SequenceTheorems, TLAPS

HubInv ==
    /\ TypeOK
    /\ WindowIsNewestLog
    /\ DrainedIsUnbroken
    /\ CountersExact
    /\ LimitsHold

-----------------------------------------------------------------------------
(* The two helpers on records. *)

\* Trimming keeps the newest records: what NotifyMessageCreated does to a full
\* window.
LEMMA TrimKeepsNewest ==
    ASSUME NEW r \in Seq(Record)
    PROVE  LET t == TrimToLimit(r) IN
           /\ t \in Seq(Record)
           /\ Len(t) = IF Len(r) > ReplayLimit THEN ReplayLimit ELSE Len(r)
           /\ \A i \in 1..Len(t) : t[i] = r[Len(r) - Len(t) + i]
<1>1. ReplayLimit \in Nat \ {0} BY LimitsAssumption
<1>2. Len(r) \in Nat /\ \A i \in 1..Len(r) : r[i] \in Record
  BY LenProperties, ElementOfSeq
<1>3. CASE Len(r) > ReplayLimit
  <2>1. \A i \in (Len(r) - ReplayLimit + 1)..Len(r) : r[i] \in Record
    BY <1>1, <1>2, <1>3
  <2>2. TrimToLimit(r) = SubSeq(r, Len(r) - ReplayLimit + 1, Len(r))
    BY <1>3 DEF TrimToLimit
  <2> QED
    BY <1>1, <1>2, <1>3, <2>1, <2>2, SubSeqProperties
<1>4. CASE ~(Len(r) > ReplayLimit)
  <2>1. TrimToLimit(r) = r BY <1>4 DEF TrimToLimit
  <2> QED BY <1>1, <1>2, <1>4, <2>1
<1> QED BY <1>3, <1>4

\* In a window of consecutive positions that still reaches back to p, Drain's
\* loop returns the records after p, each of them once and in order.
LEMMA UnseenIsTheRest ==
    ASSUME NEW r \in Seq(Record), NEW last \in Nat, NEW p \in Nat,
           Len(r) <= last, p <= last,
           \A i \in 1..Len(r) : r[i].position = last - Len(r) + i,
           p < last => r # <<>> /\ r[1].position <= p + 1
    PROVE  /\ Unseen(r, p) \in Seq(Record)
           /\ Len(Unseen(r, p)) = last - p
           /\ \A i \in 1..(last - p) : Unseen(r, p)[i] = r[Len(r) - (last - p) + i]
<1> DEFINE n == Len(r)
           old == {i \in DOMAIN r : r[i].position <= p}
           k == p - (last - n)
<1>1. n \in Nat /\ DOMAIN r = 1..n /\ \A i \in 1..n : r[i] \in Record
  BY LenProperties, ElementOfSeq
<1>2. p < last => n >= 1 /\ r[1].position = last - n + 1
  BY <1>1, EmptySeq
<1>3. k \in 0..n
  BY <1>1, <1>2
<1>4. old = 1..k
  BY <1>1, <1>3
<1>5. Cardinality(old) = k
  <2>1. 1 \in Int /\ k \in Int /\ (1 > k <=> k = 0) /\ k - 1 + 1 = k
    BY <1>1, <1>3
  <2> HIDE DEF k
  <2> QED BY <1>4, <2>1, FS_Interval
<1>6. Unseen(r, p) = SubSeq(r, k + 1, n)
  BY <1>5 DEF Unseen
<1>7. \A i \in (k + 1)..n : r[i] \in Record
  BY <1>1, <1>3
<1>8. /\ SubSeq(r, k + 1, n) \in Seq(Record)
      /\ Len(SubSeq(r, k + 1, n)) = IF k + 1 <= n THEN n - (k + 1) + 1 ELSE 0
      /\ \A i \in 1..(n - (k + 1) + 1) : SubSeq(r, k + 1, n)[i] = r[k + 1 + i - 1]
  BY <1>1, <1>3, <1>7, SubSeqProperties, Z3
<1> QED
  BY <1>1, <1>3, <1>6, <1>8

-----------------------------------------------------------------------------
(* The counters. *)

OfUser(u) == {s \in OpenSubscriptions : subs[s].user = u}
OfChannel(c) == {s \in OpenSubscriptions : subs[s].channel = c}

LEMMA OpenIsFinite ==
    /\ IsFiniteSet(OpenSubscriptions)
    /\ \A u \in Users : IsFiniteSet(OfUser(u))
    /\ \A c \in Channels : IsFiniteSet(OfChannel(c))
<1>1. OpenSubscriptions \in SUBSET Subscriptions
  BY DEF OpenSubscriptions
<1>2. /\ \A u \in Users : OfUser(u) \in SUBSET Subscriptions
      /\ \A c \in Channels : OfChannel(c) \in SUBSET Subscriptions
  BY <1>1 DEF OfUser, OfChannel
<1> QED BY <1>1, <1>2, FS_Subset, UniverseAssumption

\* An action that opens and closes nothing keeps the counters exact.
LEMMA CountersKept ==
    ASSUME CountersExact, UNCHANGED counters,
           \A s \in Subscriptions :
              /\ subs'[s].open = subs[s].open
              /\ subs[s].open => /\ subs'[s].user = subs[s].user
                                 /\ subs'[s].channel = subs[s].channel
    PROVE  CountersExact'
<1>1. OpenSubscriptions' = OpenSubscriptions
  BY DEF OpenSubscriptions
<1>2. /\ \A u \in Users : OfUser(u)' = OfUser(u)
      /\ \A c \in Channels : OfChannel(c)' = OfChannel(c)
  BY <1>1 DEF OfUser, OfChannel, OpenSubscriptions
<1> QED BY <1>1, <1>2 DEF CountersExact, counters, OfUser, OfChannel

LEMMA CountersAfterSubscribe ==
    ASSUME TypeOK, CountersExact,
           NEW s \in Subscriptions, NEW c \in Channels, NEW u \in Users, NEW cursor \in Cursors,
           Subscribe(s, c, u, cursor)
    PROVE  CountersExact'
<1>1. /\ s \notin OpenSubscriptions
      /\ OpenSubscriptions' = OpenSubscriptions \cup {s}
  BY DEF Subscribe, OpenSubscriptions, TypeOK, Subscription
<1>2. subs'[s].user = u /\ subs'[s].channel = c /\ \A q \in Subscriptions \ {s} : subs'[q] = subs[q]
  BY DEF Subscribe, TypeOK
<1>3. \A v \in Users : OfUser(v)' = IF v = u THEN OfUser(v) \cup {s} ELSE OfUser(v)
  BY <1>1, <1>2 DEF OfUser, OpenSubscriptions
<1>4. \A d \in Channels : OfChannel(d)' = IF d = c THEN OfChannel(d) \cup {s} ELSE OfChannel(d)
  BY <1>1, <1>2 DEF OfChannel, OpenSubscriptions
<1>5. s \notin OfUser(u) /\ s \notin OfChannel(c)
  BY <1>1 DEF OfUser, OfChannel
<1>6. /\ Cardinality(OpenSubscriptions') = Cardinality(OpenSubscriptions) + 1
      /\ Cardinality(OfUser(u) \cup {s}) = Cardinality(OfUser(u)) + 1
      /\ Cardinality(OfChannel(c) \cup {s}) = Cardinality(OfChannel(c)) + 1
  BY <1>1, <1>5, OpenIsFinite, FS_AddElement
<1>7. connectionCount' = Cardinality(OpenSubscriptions')
  BY <1>6 DEF Subscribe, CountersExact
<1>8. \A v \in Users : userConnections'[v] = Cardinality(OfUser(v)')
  BY <1>3, <1>6 DEF Subscribe, CountersExact, OfUser, TypeOK
<1>9. \A d \in Channels : channelConnections'[d] = Cardinality(OfChannel(d)')
  BY <1>4, <1>6 DEF Subscribe, CountersExact, OfChannel, TypeOK
<1> QED BY <1>7, <1>8, <1>9 DEF CountersExact, OfUser, OfChannel

LEMMA CountersAfterClose ==
    ASSUME TypeOK, CountersExact, NEW s \in Subscriptions, Close(s)
    PROVE  CountersExact'
<1> DEFINE u == subs[s].user
           c == subs[s].channel
<1>0. /\ \A v \in Users : userConnections[v] = Cardinality(OfUser(v))
      /\ \A d \in Channels : channelConnections[d] = Cardinality(OfChannel(d))
  BY DEF CountersExact, OfUser, OfChannel
<1>1. /\ s \in OpenSubscriptions
      /\ OpenSubscriptions' = OpenSubscriptions \ {s}
  BY DEF Close, OpenSubscriptions, TypeOK, Unused
<1>2. \A q \in Subscriptions \ {s} : subs'[q] = subs[q]
  BY DEF Close, TypeOK
<1>3. \A v \in Users : OfUser(v)' = IF v = u THEN OfUser(v) \ {s} ELSE OfUser(v)
  BY <1>1, <1>2 DEF OfUser, OpenSubscriptions
<1>4. \A d \in Channels : OfChannel(d)' = IF d = c THEN OfChannel(d) \ {s} ELSE OfChannel(d)
  BY <1>1, <1>2 DEF OfChannel, OpenSubscriptions
<1>5. u \in Users /\ c \in Channels /\ s \in OfUser(u) /\ s \in OfChannel(c)
  BY <1>1 DEF OfUser, OfChannel, OpenSubscriptions, TypeOK, Subscription
<1>6. /\ Cardinality(OpenSubscriptions') = Cardinality(OpenSubscriptions) - 1
      /\ Cardinality(OfUser(u) \ {s}) = Cardinality(OfUser(u)) - 1
      /\ Cardinality(OfChannel(c) \ {s}) = Cardinality(OfChannel(c)) - 1
  BY <1>1, <1>5, OpenIsFinite, FS_RemoveElement
<1>7. connectionCount' = Cardinality(OpenSubscriptions')
  BY <1>6 DEF Close, CountersExact
<1>8. \A v \in Users : userConnections'[v] = Cardinality(OfUser(v)')
  BY <1>0, <1>3, <1>6 DEF Close, TypeOK
<1>9. \A d \in Channels : channelConnections'[d] = Cardinality(OfChannel(d)')
  BY <1>0, <1>4, <1>6 DEF Close, TypeOK
<1> QED BY <1>7, <1>8, <1>9 DEF CountersExact, OfUser, OfChannel

\* A subscription about to close still holds its three slots.
LEMMA CloseHasSlots ==
    ASSUME TypeOK, CountersExact, NEW s \in Subscriptions, subs[s].open
    PROVE  /\ connectionCount >= 1
           /\ userConnections[subs[s].user] >= 1
           /\ channelConnections[subs[s].channel] >= 1
<1>1. /\ subs[s].user \in Users /\ subs[s].channel \in Channels
      /\ s \in OpenSubscriptions /\ s \in OfUser(subs[s].user) /\ s \in OfChannel(subs[s].channel)
  BY DEF OfUser, OfChannel, OpenSubscriptions, TypeOK, Subscription
<1>2. /\ Cardinality(OpenSubscriptions) # 0
      /\ Cardinality(OfUser(subs[s].user)) # 0
      /\ Cardinality(OfChannel(subs[s].channel)) # 0
  BY <1>1, OpenIsFinite, FS_EmptySet
<1>3. /\ connectionCount = Cardinality(OpenSubscriptions)
      /\ \A u \in Users : userConnections[u] = Cardinality(OfUser(u))
      /\ \A c \in Channels : channelConnections[c] = Cardinality(OfChannel(c))
  BY DEF CountersExact, OfUser, OfChannel
<1>4. /\ connectionCount \in Nat
      /\ userConnections[subs[s].user] \in Nat
      /\ channelConnections[subs[s].channel] \in Nat
  BY <1>1 DEF TypeOK
<1> QED
  BY <1>1, <1>2, <1>3, <1>4

-----------------------------------------------------------------------------
(* Typing. *)

LEMMA UnusedType == Unused \in Subscription
BY UniverseAssumption DEF Unused, Subscription

LEMMA WokenType ==
    ASSUME TypeOK, NEW c \in Channels
    PROVE  /\ Woken(c) \in [Subscriptions -> Subscription]
           /\ \A s \in Subscriptions :
                 /\ Woken(c)[s].open = subs[s].open
                 /\ Woken(c)[s].channel = subs[s].channel
                 /\ Woken(c)[s].user = subs[s].user
                 /\ Woken(c)[s].position = subs[s].position
BY DEF Woken, TypeOK, Subscription

\* What the window still holds after a position it has not lost is the rest of
\* the log, one record per message.
LEMMA WindowHoldsTheRest ==
    ASSUME TypeOK, WindowIsNewestLog, NEW c \in Channels, NEW p \in 0..position[c],
           ~ReplayUnavailable(c, p)
    PROVE  LET e == Unseen(records[c], p)
           IN  /\ e \in Seq(Record)
               /\ Len(e) = position[c] - p
               /\ \A i \in 1..(position[c] - p) :
                     e[i].position = p + i /\ e[i].messageID = log[c][p + i]
<1> DEFINE r == records[c]
           n == Len(r)
           last == position[c]
           e == Unseen(r, p)
<1>1. r \in Seq(Record) /\ n \in Nat /\ last \in Nat /\ p \in Nat /\ p <= last
  BY UniverseAssumption, LenProperties DEF TypeOK
<1>2. n <= last /\ \A i \in 1..n :
         r[i] = [position |-> last - n + i, messageID |-> log[c][last - n + i]]
  BY DEF WindowIsNewestLog
<1>3. ~(p < last /\ (r = <<>> \/ p + 1 < r[1].position))
  BY DEF ReplayUnavailable
<1> HIDE DEF r, n, last, e
<1>4. \A i \in 1..n : r[i].position = last - n + i /\ r[i].messageID = log[c][last - n + i]
  <2>1. TAKE i \in 1..n
  <2> DEFINE q == last - n + i
  <2>2. r[i] = [position |-> q, messageID |-> log[c][q]] BY <1>2
  <2> HIDE DEF q
  <2>3. r[i].position = q /\ r[i].messageID = log[c][q] BY <2>2
  <2> QED BY <2>3 DEF q
<1>5. ASSUME p < last
      PROVE  r # <<>> /\ n >= 1 /\ r[1].position <= p + 1
  <2>1. r # <<>> /\ n >= 1 BY <1>1, <1>3, <1>5, EmptySeq DEF n
  <2>2. r[1].position = last - n + 1 BY <1>1, <1>4, <2>1
  <2> QED BY <1>1, <1>3, <1>5, <2>1, <2>2
<1>6. last - p <= n
  <2>1. CASE p = last BY <1>1, <2>1
  <2>2. CASE p < last
    <3>1. r[1].position = last - n + 1 BY <1>1, <1>4, <1>5, <2>2
    <3> QED BY <1>1, <1>5, <2>2, <3>1
  <2> QED BY <1>1, <2>1, <2>2
<1>7. /\ e \in Seq(Record)
      /\ Len(e) = last - p
      /\ \A i \in 1..(last - p) : e[i] = r[n - (last - p) + i]
  <2>1. n = Len(r) BY DEF n
  <2> QED BY <1>1, <1>2, <1>4, <1>5, <2>1, UnseenIsTheRest DEF e
<1>8. \A i \in 1..(last - p) : e[i].position = p + i /\ e[i].messageID = log[c][p + i]
  <2>1. TAKE i \in 1..(last - p)
  <2>2. /\ n - (last - p) + i \in 1..n
        /\ last - n + (n - (last - p) + i) = p + i
    BY <1>1, <1>6
  <2> QED BY <1>4, <1>7, <2>2
<1> QED BY <1>7, <1>8 DEF e, r, last

LEMMA WindowServesTheRest ==
    ASSUME TypeOK, WindowIsNewestLog, NEW c \in Channels, NEW p \in 0..position[c],
           ~ReplayUnavailable(c, p)
    PROVE  LET e == Unseen(records[c], p)
               d == [i \in DOMAIN e |-> e[i].messageID]
           IN  /\ d \in Seq(Messages)
               /\ Len(d) = position[c] - p
               /\ \A i \in 1..(position[c] - p) : d[i] = log[c][p + i]
<1> DEFINE e == Unseen(records[c], p)
           d == [i \in DOMAIN e |-> e[i].messageID]
           k == position[c] - p
<1>1. k \in Nat
  BY UniverseAssumption DEF TypeOK
<1>2. /\ e \in Seq(Record) /\ Len(e) = k
      /\ \A i \in 1..k : e[i].messageID = log[c][p + i]
  BY WindowHoldsTheRest
<1> HIDE DEF e, k
<1>3. DOMAIN e = 1..k /\ \A i \in 1..k : e[i] \in Record
  BY <1>1, <1>2, LenProperties, ElementOfSeq
<1>4. d \in [1..k -> Messages] /\ \A i \in 1..k : d[i] = log[c][p + i]
  BY <1>2, <1>3 DEF Record
<1> HIDE DEF d
<1>5. d \in Seq(Messages) /\ Len(d) = k
  BY <1>1, <1>4
<1> QED BY <1>4, <1>5 DEF d, e, k

\* Drain hands over the messages after the subscription's position, one each.
LEMMA DrainReturnsTheRest ==
    ASSUME TypeOK, WindowIsNewestLog, DrainedIsUnbroken,
           NEW s \in Subscriptions, subs[s].open,
           ~ReplayUnavailable(subs[s].channel, subs[s].position)
    PROVE  LET c == subs[s].channel
               p == subs[s].position
               d == [i \in DOMAIN DrainedRecords(s) |-> DrainedRecords(s)[i].messageID]
           IN  /\ d \in Seq(Messages)
               /\ Len(d) = position[c] - p
               /\ \A i \in 1..(position[c] - p) : d[i] = log[c][p + i]
<1>1. subs[s].channel \in Channels /\ position[subs[s].channel] \in Nat
  BY UniverseAssumption DEF TypeOK, Subscription
<1>2. subs[s].position \in 0..position[subs[s].channel]
  BY <1>1 DEF TypeOK, Subscription, DrainedIsUnbroken
<1> QED BY <1>1, <1>2, WindowServesTheRest DEF DrainedRecords

LEMMA TypeStep ==
    ASSUME TypeOK, WindowIsNewestLog, DrainedIsUnbroken, CountersExact, [Next]_hubVars
    PROVE  TypeOK'
<1> USE UniverseAssumption DEF TypeOK
<1>1. ASSUME NEW c \in Channels, NEW m \in Messages, NotifyMessageCreated(c, m)
      PROVE  TypeOK'
  <2> DEFINE rec == [position |-> position[c] + 1, messageID |-> m]
  <2>1. rec \in Record BY DEF Record
  <2>2. Append(records[c], rec) \in Seq(Record) BY <2>1, AppendProperties
  <2>3. TrimToLimit(Append(records[c], rec)) \in Seq(Record) BY <2>2, TrimKeepsNewest
  <2>4. records' \in [Channels -> Seq(Record)] BY <1>1, <2>3 DEF NotifyMessageCreated
  <2>5. subs' \in [Subscriptions -> Subscription] BY <1>1, WokenType DEF NotifyMessageCreated
  <2>6. log' \in [Channels -> Seq(Messages)] BY <1>1 DEF NotifyMessageCreated
  <2>7. position' \in [Channels -> 0..MaxPosition] BY <1>1 DEF NotifyMessageCreated
  <2> QED BY <1>1, <2>4, <2>5, <2>6, <2>7 DEF NotifyMessageCreated, counters
<1>2. ASSUME NEW c \in Channels, NotifyChannelAccessChanged(c)
      PROVE  TypeOK'
  BY <1>2, WokenType DEF NotifyChannelAccessChanged, counters
<1>3. ASSUME NEW s \in Subscriptions, NEW c \in Channels, NEW u \in Users, NEW cursor \in Cursors,
             Subscribe(s, c, u, cursor)
      PROVE  TypeOK'
  <2>1. StartPosition(c, cursor) \in Nat BY <1>3 DEF StartPosition, Cursors
  <2>2. subs' \in [Subscriptions -> Subscription] BY <1>3, <2>1 DEF Subscribe, Subscription
  <2>3. start' \in [Subscriptions -> Nat] /\ got' \in [Subscriptions -> Seq(Messages)]
    BY <1>3, <2>1, EmptySeq DEF Subscribe
  <2>4. /\ connectionCount' \in Nat
        /\ userConnections' \in [Users -> Nat]
        /\ channelConnections' \in [Channels -> Nat]
    <3>1. /\ connectionCount' = connectionCount + 1
          /\ userConnections' = [userConnections EXCEPT ![u] = @ + 1]
          /\ channelConnections' = [channelConnections EXCEPT ![c] = @ + 1]
      BY <1>3 DEF Subscribe
    <3>2. connectionCount' \in Nat
      BY <3>1
    <3>3. userConnections[u] + 1 \in Nat /\ channelConnections[c] + 1 \in Nat
      OBVIOUS
    <3> QED BY <3>1, <3>2, <3>3, Zenon
  <2> QED BY <1>3, <2>2, <2>3, <2>4 DEF Subscribe
<1>4. ASSUME NEW s \in Subscriptions, ReceiveWake(s)
      PROVE  TypeOK'
  BY <1>4 DEF ReceiveWake, counters, Subscription
<1>5. ASSUME NEW s \in Subscriptions, Drain(s)
      PROVE  TypeOK'
  <2>1. subs[s].channel \in Channels /\ position[subs[s].channel] \in Nat BY DEF Subscription
  <2>2. subs' \in [Subscriptions -> Subscription]
    <3>1. [subs[s] EXCEPT !.position = position[subs[s].channel]] \in Subscription
      BY <2>1 DEF Subscription
    <3> QED BY <1>5, <3>1 DEF Drain
  <2>3. [i \in DOMAIN DrainedRecords(s) |-> DrainedRecords(s)[i].messageID] \in Seq(Messages)
    BY <1>5, DrainReturnsTheRest DEF Drain
  <2>4. got' \in [Subscriptions -> Seq(Messages)] BY <1>5, <2>3 DEF Drain
  <2> QED BY <1>5, <2>2, <2>4 DEF Drain, counters
<1>6. ASSUME NEW s \in Subscriptions, Close(s)
      PROVE  TypeOK'
  <2>1. subs[s].user \in Users /\ subs[s].channel \in Channels BY DEF Subscription
  <2>2. subs[s].open BY <1>6 DEF Close
  <2>3. /\ connectionCount - 1 \in Nat
        /\ userConnections[subs[s].user] - 1 \in Nat
        /\ channelConnections[subs[s].channel] - 1 \in Nat
    <3>1. /\ connectionCount >= 1
          /\ userConnections[subs[s].user] >= 1
          /\ channelConnections[subs[s].channel] >= 1
      BY <2>2, CloseHasSlots
    <3>2. /\ connectionCount \in Nat
          /\ userConnections[subs[s].user] \in Nat
          /\ channelConnections[subs[s].channel] \in Nat
      BY <2>1
    <3>3. \A k \in Nat : k >= 1 => k - 1 \in Nat
      OBVIOUS
    <3> QED BY <3>1, <3>2, <3>3, Zenon
  <2>4. /\ connectionCount' \in Nat
        /\ userConnections' \in [Users -> Nat]
        /\ channelConnections' \in [Channels -> Nat]
    BY <1>6, <2>1, <2>3 DEF Close
  <2>5. subs' \in [Subscriptions -> Subscription] BY <1>6, UnusedType DEF Close
  <2>6. start' \in [Subscriptions -> Nat] /\ got' \in [Subscriptions -> Seq(Messages)]
    BY <1>6, EmptySeq DEF Close
  <2> QED BY <1>6, <2>4, <2>5, <2>6 DEF Close
<1>7. CASE Shutdown
  BY <1>7 DEF Shutdown, counters, Subscription
<1>8. CASE UNCHANGED hubVars
  BY <1>8 DEF hubVars
<1> QED BY <1>1, <1>2, <1>3, <1>4, <1>5, <1>6, <1>7, <1>8 DEF Next

-----------------------------------------------------------------------------
(* The window, the counters and the limits. *)

\* One notification: the window slides by at most one record.
LEMMA WindowAfterNotify ==
    ASSUME TypeOK, WindowIsNewestLog, NEW c \in Channels, NEW m \in Messages,
           NotifyMessageCreated(c, m)
    PROVE  WindowIsNewestLog'
<1> DEFINE r == records[c]
           rec == [position |-> position[c] + 1, messageID |-> m]
           a == Append(r, rec)
           w == TrimToLimit(a)
           l == Append(log[c], m)
           last == position[c] + 1
<1>1. /\ r \in Seq(Record) /\ Len(r) \in Nat /\ position[c] \in Nat
      /\ log[c] \in Seq(Messages) /\ ReplayLimit \in Nat \ {0}
  BY UniverseAssumption, LimitsAssumption, LenProperties DEF TypeOK
<1>2. /\ Len(log[c]) = position[c] /\ Len(r) <= position[c] /\ Len(r) <= ReplayLimit
      /\ Len(r) \in {position[c], ReplayLimit}
      /\ \A i \in 1..Len(r) : r[i] = [position |-> position[c] - Len(r) + i,
                                       messageID |-> log[c][position[c] - Len(r) + i]]
  BY DEF WindowIsNewestLog
<1>3. /\ position' = [position EXCEPT ![c] = last]
      /\ records' = [records EXCEPT ![c] = w]
      /\ log' = [log EXCEPT ![c] = l]
  BY DEF NotifyMessageCreated
<1>4. rec \in Record BY <1>1 DEF Record
<1>5. /\ a \in Seq(Record) /\ Len(a) = Len(r) + 1
      /\ \A i \in 1..Len(r) : a[i] = r[i]
      /\ a[Len(r) + 1] = rec
  <2> HIDE DEF r, rec
  <2> QED BY <1>1, <1>4, AppendProperties
<1>6. /\ Len(l) = last
      /\ \A i \in 1..position[c] : l[i] = log[c][i]
      /\ l[last] = m
  BY <1>1, <1>2, AppendProperties
<1>7. /\ w \in Seq(Record)
      /\ Len(w) = IF Len(a) > ReplayLimit THEN ReplayLimit ELSE Len(a)
      /\ \A i \in 1..Len(w) : w[i] = a[Len(a) - Len(w) + i]
  <2> HIDE DEF a
  <2> QED BY <1>5, TrimKeepsNewest
<1> HIDE DEF r, a, w, l, last
<1>8. last = position[c] + 1 /\ last \in Nat BY <1>1 DEF last
<1>9. /\ Len(w) \in Nat /\ Len(w) <= last /\ Len(w) <= ReplayLimit
      /\ Len(w) \in {last, ReplayLimit} /\ Len(w) <= Len(a)
  BY <1>1, <1>2, <1>5, <1>7, <1>8
<1>10. \A i \in 1..Len(a) : a[i] = [position |-> last - Len(a) + i, messageID |-> l[last - Len(a) + i]]
  <2>1. TAKE i \in 1..Len(a)
  <2>2. CASE i = Len(a)
    <3>1. last - Len(a) + i = last BY <1>1, <1>5, <1>8, <2>2
    <3> QED BY <1>5, <1>6, <1>8, <2>2, <3>1
  <2>3. CASE i # Len(a)
    <3>1. /\ i \in 1..Len(r)
          /\ last - Len(a) + i = position[c] - Len(r) + i
          /\ position[c] - Len(r) + i \in 1..position[c]
      BY <1>1, <1>2, <1>5, <1>8, <2>3
    <3>2. a[i] = r[i] BY <1>5, <3>1
    <3>3. r[i] = [position |-> position[c] - Len(r) + i,
                  messageID |-> log[c][position[c] - Len(r) + i]]
      BY <1>2, <3>1
    <3>4. l[position[c] - Len(r) + i] = log[c][position[c] - Len(r) + i]
      BY <1>6, <3>1
    <3> QED BY <3>1, <3>2, <3>3, <3>4
  <2> QED BY <2>2, <2>3
<1>11. \A i \in 1..Len(w) : w[i] = [position |-> last - Len(w) + i, messageID |-> l[last - Len(w) + i]]
  <2>1. TAKE i \in 1..Len(w)
  <2>2. /\ Len(a) - Len(w) + i \in 1..Len(a)
        /\ last - Len(a) + (Len(a) - Len(w) + i) = last - Len(w) + i
    <3>1. Len(a) \in Nat /\ Len(w) \in Nat /\ Len(w) <= Len(a) /\ last \in Nat
      BY <1>1, <1>5, <1>8, <1>9
    <3> QED BY <3>1
  <2>3. w[i] = a[Len(a) - Len(w) + i] BY <1>7
  <2> QED BY <1>10, <2>2, <2>3
<1>12. /\ position'[c] = last /\ records'[c] = w /\ log'[c] = l
       /\ \A d \in Channels \ {c} : /\ position'[d] = position[d]
                                    /\ records'[d] = records[d]
                                    /\ log'[d] = log[d]
  BY <1>3 DEF TypeOK
<1>13. SUFFICES ASSUME NEW d \in Channels
       PROVE  /\ Len(log'[d]) = position'[d]
              /\ Len(records'[d]) <= position'[d]
              /\ Len(records'[d]) <= ReplayLimit
              /\ Len(records'[d]) \in {position'[d], ReplayLimit}
              /\ \A i \in 1..Len(records'[d]) :
                    records'[d][i] = [position |-> position'[d] - Len(records'[d]) + i,
                                      messageID |-> log'[d][position'[d] - Len(records'[d]) + i]]
  BY DEF WindowIsNewestLog
<1>14. CASE d = c
  BY <1>6, <1>9, <1>11, <1>12, <1>14
<1>15. CASE d # c
  BY <1>12, <1>15 DEF WindowIsNewestLog
<1> QED BY <1>14, <1>15

LEMMA WindowStep ==
    ASSUME TypeOK, WindowIsNewestLog, [Next]_hubVars
    PROVE  WindowIsNewestLog'
<1>1. CASE \E c \in Channels, m \in Messages : NotifyMessageCreated(c, m)
  BY <1>1, WindowAfterNotify
<1>2. CASE UNCHANGED <<position, records, log>>
  BY <1>2 DEF WindowIsNewestLog
<1> QED
  BY <1>1, <1>2 DEF Next, hubVars, NotifyChannelAccessChanged, Subscribe, ReceiveWake,
                    Drain, Close, Shutdown

LEMMA CountersStep ==
    ASSUME TypeOK, CountersExact, [Next]_hubVars
    PROVE  CountersExact'
<1>1. ASSUME NEW c \in Channels, NEW m \in Messages, NotifyMessageCreated(c, m)
      PROVE  CountersExact'
  BY <1>1, WokenType, CountersKept DEF NotifyMessageCreated
<1>2. ASSUME NEW c \in Channels, NotifyChannelAccessChanged(c)
      PROVE  CountersExact'
  BY <1>2, WokenType, CountersKept DEF NotifyChannelAccessChanged
<1>3. ASSUME NEW s \in Subscriptions, NEW c \in Channels, NEW u \in Users, NEW cursor \in Cursors,
             Subscribe(s, c, u, cursor)
      PROVE  CountersExact'
  BY <1>3, CountersAfterSubscribe
<1>4. ASSUME NEW s \in Subscriptions, ReceiveWake(s) \/ Drain(s)
      PROVE  CountersExact'
  <2>1. UNCHANGED counters BY <1>4 DEF ReceiveWake, Drain
  <2>2. \A q \in Subscriptions : /\ subs'[q].open = subs[q].open
                                 /\ subs'[q].user = subs[q].user
                                 /\ subs'[q].channel = subs[q].channel
    <3>1. \A q \in Subscriptions : subs[q] \in Subscription BY DEF TypeOK
    <3>2. subs \in [Subscriptions -> Subscription] BY DEF TypeOK
    <3>3. CASE ReceiveWake(s)
      BY <3>1, <3>2, <3>3 DEF ReceiveWake, Subscription
    <3>4. CASE Drain(s)
      <4>1. subs' = [subs EXCEPT ![s].position = position[subs[s].channel]]
        BY <3>4 DEF Drain
      <4> QED BY <3>1, <3>2, <4>1 DEF Subscription
    <3> QED BY <1>4, <3>3, <3>4
  <2> QED BY <2>1, <2>2, CountersKept
<1>5. ASSUME NEW s \in Subscriptions, Close(s)
      PROVE  CountersExact'
  BY <1>5, CountersAfterClose
<1>6. CASE Shutdown
  BY <1>6, CountersKept DEF Shutdown, TypeOK, Subscription
<1>7. CASE UNCHANGED hubVars
  BY <1>7, CountersKept DEF hubVars, counters
<1> QED BY <1>1, <1>2, <1>3, <1>4, <1>5, <1>6, <1>7 DEF Next

LEMMA LimitsStep ==
    ASSUME TypeOK, LimitsHold, [Next]_hubVars
    PROVE  LimitsHold'
<1> USE LimitsAssumption DEF TypeOK, LimitsHold
<1>1. ASSUME NEW s \in Subscriptions, NEW c \in Channels, NEW u \in Users, NEW cursor \in Cursors,
             Subscribe(s, c, u, cursor)
      PROVE  LimitsHold'
  BY <1>1 DEF Subscribe, HasCapacity
<1>2. ASSUME NEW s \in Subscriptions, Close(s)
      PROVE  LimitsHold'
  BY <1>2 DEF Close, Subscription
<1>3. CASE UNCHANGED counters
  BY <1>3 DEF counters
<1> QED
  BY <1>1, <1>2, <1>3 DEF Next, hubVars, counters, NotifyMessageCreated, NotifyChannelAccessChanged,
                          ReceiveWake, Drain, Shutdown

-----------------------------------------------------------------------------
(* What a subscription has drained. *)

LEMMA RunProperties ==
    ASSUME NEW T, NEW l \in Seq(T), NEW from \in Nat, NEW to \in Nat, from <= to, to <= Len(l)
    PROVE  /\ Run(l, from, to) \in Seq(T)
           /\ Len(Run(l, from, to)) = to - from
           /\ \A i \in 1..(to - from) : Run(l, from, to)[i] = l[from + i]
<1> DEFINE k == to - from
<1>1. k \in Nat /\ \A i \in 1..k : from + i \in 1..Len(l) BY LenProperties
<1>2. \A i \in 1..k : l[from + i] \in T BY <1>1, ElementOfSeq
<1>3. Run(l, from, to) = [i \in 1..k |-> l[from + i]] BY DEF Run
<1> HIDE DEF k
<1>4. Run(l, from, to) \in [1..k -> T] BY <1>2, <1>3
<1>5. Run(l, from, to) \in Seq(T) /\ Len(Run(l, from, to)) = k BY <1>1, <1>4
<1> QED BY <1>3, <1>5 DEF k

\* A run ends where the next one begins.
LEMMA RunsJoin ==
    ASSUME NEW T, NEW l \in Seq(T), NEW from \in Nat, NEW mid \in Nat, NEW to \in Nat,
           from <= mid, mid <= to, to <= Len(l),
           NEW d \in Seq(T), Len(d) = to - mid, \A i \in 1..(to - mid) : d[i] = l[mid + i]
    PROVE  Run(l, from, mid) \o d = Run(l, from, to)
<1> DEFINE a == Run(l, from, mid)
           b == Run(l, from, to)
<1>1. Len(l) \in Nat /\ mid <= Len(l) /\ from <= to
  <2>1. Len(l) \in Nat BY LenProperties
  <2> QED BY <2>1
<1>2. /\ a \in Seq(T) /\ Len(a) = mid - from
      /\ \A i \in 1..(mid - from) : a[i] = l[from + i]
  <2> HIDE DEF a
  <2> QED BY <1>1, RunProperties DEF a
<1>3. /\ b \in Seq(T) /\ Len(b) = to - from
      /\ \A i \in 1..(to - from) : b[i] = l[from + i]
  <2> HIDE DEF b
  <2> QED BY <1>1, RunProperties DEF b
<1> HIDE DEF a, b
<1>4. /\ a \o d \in Seq(T)
      /\ Len(a \o d) = Len(a) + Len(d)
      /\ \A i \in 1..(Len(a) + Len(d)) : (a \o d)[i] = IF i <= Len(a) THEN a[i] ELSE d[i - Len(a)]
  BY <1>2, ConcatProperties
<1>5. \A i \in 1..(to - from) : (a \o d)[i] = b[i]
  <2>1. TAKE i \in 1..(to - from)
  <2>2. CASE i <= mid - from
    <3>1. i \in 1..(mid - from) /\ i \in 1..(Len(a) + Len(d)) BY <1>2, <2>2
    <3> QED BY <1>2, <1>3, <1>4, <2>2, <3>1
  <2>3. CASE ~(i <= mid - from)
    <3>1. /\ i - (mid - from) \in 1..(to - mid)
          /\ i \in 1..(Len(a) + Len(d))
          /\ mid + (i - (mid - from)) = from + i
      BY <1>2, <2>3
    <3> QED BY <1>2, <1>3, <1>4, <2>3, <3>1
  <2> QED BY <2>2, <2>3
<1>6. Len(a \o d) = to - from
  BY <1>2, <1>4
<1>7. a \o d = b
  <2> DEFINE z == a \o d
  <2>1. /\ z \in Seq(T) /\ Len(z) = Len(b)
        /\ \A i \in 1..Len(z) : z[i] = b[i]
    BY <1>3, <1>4, <1>5, <1>6
  <2> HIDE DEF z
  <2>2. z = b BY <1>3, <2>1, SeqEqual
  <2> QED BY <2>2 DEF z
<1> QED BY <1>7 DEF a, b

\* The part of the log a run covers does not change when the log grows.
LEMMA RunIsStable ==
    ASSUME NEW T, NEW l \in Seq(T), NEW m \in T, NEW from \in Nat, NEW to \in Nat,
           from <= to, to <= Len(l)
    PROVE  Run(Append(l, m), from, to) = Run(l, from, to)
<1>1. Len(l) \in Nat /\ \A i \in 1..(to - from) : from + i \in 1..Len(l)
  BY LenProperties
<1>2. \A i \in 1..(to - from) : Append(l, m)[from + i] = l[from + i]
  BY <1>1, AppendProperties
<1> QED BY <1>2 DEF Run

\* What DrainedIsUnbroken says of one subscription.
DrainedOf(s) ==
    /\ start[s] <= subs[s].position
    /\ subs[s].position <= position[subs[s].channel]
    /\ got[s] = Run(log[subs[s].channel], start[s], subs[s].position)

\* A subscription that a step leaves alone stays unbroken.
LEMMA DrainedKept ==
    ASSUME DrainedIsUnbroken, UNCHANGED <<position, log>>, NEW s \in Subscriptions,
           subs[s].open, start'[s] = start[s], got'[s] = got[s],
           subs'[s].channel = subs[s].channel, subs'[s].position = subs[s].position
    PROVE  DrainedOf(s)'
BY DEF DrainedIsUnbroken, DrainedOf

LEMMA DrainedAfterNotify ==
    ASSUME TypeOK, WindowIsNewestLog, DrainedIsUnbroken,
           NEW c \in Channels, NEW m \in Messages, NotifyMessageCreated(c, m),
           NEW s \in Subscriptions, subs[s].open
    PROVE  DrainedOf(s)'
<1> DEFINE d == subs[s].channel
           p == subs[s].position
<1>1. /\ subs'[s].channel = d /\ subs'[s].position = p
      /\ start'[s] = start[s] /\ got'[s] = got[s]
  BY WokenType DEF NotifyMessageCreated
<1>2. /\ d \in Channels /\ p \in Nat /\ start[s] \in Nat
      /\ position[d] \in Nat /\ log[d] \in Seq(Messages) /\ Len(log[d]) = position[d]
  BY UniverseAssumption DEF TypeOK, Subscription, WindowIsNewestLog
<1>3. start[s] <= p /\ p <= position[d] /\ got[s] = Run(log[d], start[s], p)
  BY DEF DrainedIsUnbroken
<1> HIDE DEF d, p
<1>4. CASE d = c
  <2>1. position'[d] = position[d] + 1 /\ log'[d] = Append(log[d], m)
    BY <1>2, <1>4 DEF NotifyMessageCreated, TypeOK
  <2>2. Run(Append(log[d], m), start[s], p) = Run(log[d], start[s], p)
    BY <1>2, <1>3, RunIsStable
  <2> QED BY <1>1, <1>2, <1>3, <2>1, <2>2 DEF DrainedOf
<1>5. CASE d # c
  <2>1. position'[d] = position[d] /\ log'[d] = log[d]
    BY <1>2, <1>5 DEF NotifyMessageCreated, TypeOK
  <2> QED BY <1>1, <1>3, <2>1 DEF DrainedOf
<1> QED BY <1>4, <1>5

LEMMA DrainedAfterDrain ==
    ASSUME TypeOK, WindowIsNewestLog, DrainedIsUnbroken, NEW s \in Subscriptions, Drain(s)
    PROVE  DrainedOf(s)'
<1> DEFINE c == subs[s].channel
           p == subs[s].position
           e == [i \in DOMAIN DrainedRecords(s) |-> DrainedRecords(s)[i].messageID]
<1>1. /\ c \in Channels /\ p \in Nat /\ start[s] \in Nat
      /\ position[c] \in Nat /\ log[c] \in Seq(Messages) /\ Len(log[c]) = position[c]
  BY UniverseAssumption DEF TypeOK, Subscription, WindowIsNewestLog
<1>2. start[s] <= p /\ p <= position[c] /\ got[s] = Run(log[c], start[s], p)
  BY DEF Drain, DrainedIsUnbroken
<1>3. /\ e \in Seq(Messages) /\ Len(e) = position[c] - p
      /\ \A i \in 1..(position[c] - p) : e[i] = log[c][p + i]
  BY DrainReturnsTheRest DEF Drain
<1>4. /\ subs'[s].channel = c /\ subs'[s].position = position[c]
      /\ got'[s] = got[s] \o e
      /\ UNCHANGED <<position, log, start>>
  <2>1. subs' = [subs EXCEPT ![s].position = position[c]] /\ subs[s] \in Subscription
        /\ subs \in [Subscriptions -> Subscription]
    BY DEF Drain, TypeOK
  <2>2. got' = [got EXCEPT ![s] = @ \o e] BY DEF Drain
  <2>3. subs'[s].channel = c /\ subs'[s].position = position[c]
    BY <2>1 DEF Subscription
  <2>4. got'[s] = got[s] \o e BY <2>2 DEF TypeOK
  <2> QED BY <2>3, <2>4 DEF Drain
<1> HIDE DEF c, p, e
<1>5. Run(log[c], start[s], p) \o e = Run(log[c], start[s], position[c])
  <2> DEFINE l == log[c]
             from == start[s]
             to == position[c]
  <2>1. /\ l \in Seq(Messages) /\ from \in Nat /\ to \in Nat
        /\ from <= p /\ p <= to /\ to <= Len(l)
        /\ \A i \in 1..(to - p) : e[i] = l[p + i]
        /\ Len(e) = to - p
    BY <1>1, <1>2, <1>3
  <2> HIDE DEF l, from, to
  <2>2. Run(l, from, p) \o e = Run(l, from, to)
    BY <1>1, <1>3, <2>1, RunsJoin
  <2> QED BY <2>2 DEF l, from, to
<1> QED BY <1>1, <1>2, <1>4, <1>5 DEF DrainedOf

LEMMA DrainedAfterSubscribe ==
    ASSUME TypeOK, NEW s \in Subscriptions, NEW c \in Channels, NEW u \in Users,
           NEW cursor \in Cursors, Subscribe(s, c, u, cursor)
    PROVE  DrainedOf(s)'
<1> DEFINE p == StartPosition(c, cursor)
<1>1. /\ subs'[s].channel = c /\ subs'[s].position = p /\ start'[s] = p
      /\ got'[s] = <<>> /\ UNCHANGED <<position, log>>
  BY DEF Subscribe, TypeOK
<1>2. p \in Nat /\ p <= position[c]
  BY UniverseAssumption DEF Subscribe, CanResume, StartPosition, Cursors, TypeOK
<1> HIDE DEF p
<1>3. Run(log[c], p, p) = <<>> BY <1>2 DEF Run
<1> QED BY <1>1, <1>2, <1>3 DEF DrainedOf

LEMMA DrainedStep ==
    ASSUME TypeOK, WindowIsNewestLog, DrainedIsUnbroken, [Next]_hubVars
    PROVE  DrainedIsUnbroken'
<1> SUFFICES ASSUME NEW s \in Subscriptions, subs'[s].open
             PROVE  DrainedOf(s)'
  BY DEF DrainedIsUnbroken, DrainedOf
<1>1. ASSUME NEW c \in Channels, NEW m \in Messages, NotifyMessageCreated(c, m)
      PROVE  DrainedOf(s)'
  BY <1>1, WokenType, DrainedAfterNotify DEF NotifyMessageCreated
<1>2. ASSUME NEW c \in Channels, NotifyChannelAccessChanged(c)
      PROVE  DrainedOf(s)'
  BY <1>2, WokenType, DrainedKept DEF NotifyChannelAccessChanged
<1>3. ASSUME NEW q \in Subscriptions, NEW c \in Channels, NEW u \in Users, NEW cursor \in Cursors,
             Subscribe(q, c, u, cursor)
      PROVE  DrainedOf(s)'
  <2>1. CASE s = q BY <1>3, <2>1, DrainedAfterSubscribe
  <2>2. CASE s # q
    <3>1. subs'[s] = subs[s] /\ start'[s] = start[s] /\ got'[s] = got[s]
      BY <1>3, <2>2 DEF Subscribe, TypeOK
    <3> QED BY <1>3, <3>1, DrainedKept DEF Subscribe
  <2> QED BY <2>1, <2>2
<1>4. ASSUME NEW q \in Subscriptions, Drain(q)
      PROVE  DrainedOf(s)'
  <2>1. CASE s = q BY <1>4, <2>1, DrainedAfterDrain
  <2>2. CASE s # q
    <3>1. subs'[s] = subs[s] /\ start'[s] = start[s] /\ got'[s] = got[s]
      BY <1>4, <2>2 DEF Drain, TypeOK
    <3> QED BY <1>4, <3>1, DrainedKept DEF Drain
  <2> QED BY <2>1, <2>2
<1>5. ASSUME NEW q \in Subscriptions, Close(q)
      PROVE  DrainedOf(s)'
  <2>1. s # q BY <1>5 DEF Close, Unused, TypeOK
  <2>2. subs'[s] = subs[s] /\ start'[s] = start[s] /\ got'[s] = got[s]
    BY <1>5, <2>1 DEF Close, TypeOK
  <2> QED BY <1>5, <2>2, DrainedKept DEF Close
<1>6. ASSUME NEW q \in Subscriptions, ReceiveWake(q)
      PROVE  DrainedOf(s)'
  <2>1. /\ subs'[s].open = subs[s].open /\ subs'[s].channel = subs[s].channel
        /\ subs'[s].position = subs[s].position
    BY <1>6 DEF ReceiveWake, TypeOK, Subscription
  <2> QED BY <1>6, <2>1, DrainedKept DEF ReceiveWake
<1>7. CASE Shutdown
  <2>1. /\ subs'[s].open = subs[s].open /\ subs'[s].channel = subs[s].channel
        /\ subs'[s].position = subs[s].position
    BY <1>7 DEF Shutdown, TypeOK, Subscription
  <2> QED BY <1>7, <2>1, DrainedKept DEF Shutdown
<1>8. CASE UNCHANGED hubVars
  BY <1>8, DrainedKept DEF hubVars
<1> QED BY <1>1, <1>2, <1>3, <1>4, <1>5, <1>6, <1>7, <1>8 DEF Next

-----------------------------------------------------------------------------
(* The invariant and what follows from it. *)

LEMMA InitEstablishesHubInv == Init => HubInv
<1> SUFFICES ASSUME Init PROVE HubInv OBVIOUS
<1>1. TypeOK
  <2>1. 0 \in 0..MaxPosition BY UniverseAssumption
  <2>2. <<>> \in Seq(Record) /\ <<>> \in Seq(Messages) BY EmptySeq
  <2>3. subs \in [Subscriptions -> Subscription] BY UnusedType DEF Init
  <2> QED BY <2>1, <2>2, <2>3 DEF Init, TypeOK
<1>2. WindowIsNewestLog
  BY LimitsAssumption, EmptySeq DEF Init, WindowIsNewestLog
<1>3. DrainedIsUnbroken
  BY DEF Init, DrainedIsUnbroken, Unused
<1>4. CountersExact
  <2>1. OpenSubscriptions = {}
    BY DEF Init, OpenSubscriptions, Unused
  <2>2. /\ \A u \in Users : OfUser(u) = {}
        /\ \A c \in Channels : OfChannel(c) = {}
    BY <2>1 DEF OfUser, OfChannel
  <2> QED BY <2>1, <2>2, FS_EmptySet DEF Init, CountersExact, OfUser, OfChannel
<1>5. LimitsHold
  BY LimitsAssumption DEF Init, LimitsHold
<1> QED BY <1>1, <1>2, <1>3, <1>4, <1>5 DEF HubInv

LEMMA HubInvStep == HubInv /\ [Next]_hubVars => HubInv'
BY TypeStep, WindowStep, DrainedStep, CountersStep, LimitsStep DEF HubInv

\* Every reachable state of the hub is well typed, its windows are the newest end
\* of the channel logs, its subscribers have drained unbroken runs, and its
\* connection counters are exact and within the limits.
THEOREM HubIsCorrect ==
    Spec => [](TypeOK /\ WindowIsNewestLog /\ DrainedIsUnbroken /\ CountersExact /\ LimitsHold)
<1>1. HubInv => TypeOK /\ WindowIsNewestLog /\ DrainedIsUnbroken /\ CountersExact /\ LimitsHold
  BY DEF HubInv
<1> QED BY <1>1, InitEstablishesHubInv, HubInvStep, PTL DEF Spec

\* For every window size, the resync test of hub.go is exact: a subscriber is
\* refused if and only if a message it has not drained has left the window.
THEOREM ResyncIsExact == Spec => []ResyncExactlyWhenLost
<1>1. ASSUME HubInv
      PROVE  ResyncExactlyWhenLost
  <2> SUFFICES ASSUME NEW s \in Subscriptions, subs[s].open
               PROVE  ReplayUnavailable(subs[s].channel, subs[s].position)
                        <=> position[subs[s].channel] - subs[s].position > ReplayLimit
    BY DEF ResyncExactlyWhenLost
  <2> DEFINE c == subs[s].channel
             p == subs[s].position
             r == records[c]
  <2>1. /\ c \in Channels /\ p \in Nat /\ position[c] \in Nat /\ r \in Seq(Record)
        /\ Len(r) \in Nat /\ ReplayLimit \in Nat \ {0}
    BY <1>1, UniverseAssumption, LimitsAssumption, LenProperties DEF HubInv, TypeOK, Subscription
  <2>2. p <= position[c]
    BY <1>1 DEF HubInv, DrainedIsUnbroken
  <2>3. /\ Len(r) <= position[c] /\ Len(r) <= ReplayLimit
        /\ Len(r) = position[c] \/ Len(r) = ReplayLimit
        /\ \A i \in 1..Len(r) : r[i] = [position |-> position[c] - Len(r) + i,
                                         messageID |-> log[c][position[c] - Len(r) + i]]
    BY <1>1, <2>1 DEF HubInv, WindowIsNewestLog
  <2>4. ReplayUnavailable(c, p) <=> p < position[c] /\ (r = <<>> \/ p + 1 < r[1].position)
    BY DEF ReplayUnavailable
  <2> HIDE DEF c, p, r
  <2>5. CASE r = <<>>
    <3>1. Len(r) = 0 BY <2>5, EmptySeq
    <3>2. position[c] = 0 BY <2>1, <2>3, <3>1
    <3> QED BY <2>1, <2>2, <2>4, <3>2 DEF c, p
  <2>6. CASE r # <<>>
    <3>1. 1 \in 1..Len(r) BY <2>1, <2>6, EmptySeq
    <3>2. r[1].position = position[c] - Len(r) + 1
      <4>1. r[1] = [position |-> position[c] - Len(r) + 1,
                    messageID |-> log[c][position[c] - Len(r) + 1]]
        BY <2>3, <3>1
      <4> HIDE <2>3
      <4> QED BY <4>1
    <3>3. ReplayUnavailable(c, p) <=> p < position[c] /\ p + 1 < position[c] - Len(r) + 1
      BY <2>4, <2>6, <3>2
    <3>4. ReplayUnavailable(c, p) <=> position[c] - p > ReplayLimit
      BY <2>1, <2>2, <2>3, <3>3
    <3> QED BY <3>4 DEF c, p
  <2> QED BY <2>5, <2>6
<1> QED BY <1>1, InitEstablishesHubInv, HubInvStep, PTL DEF Spec

\* Once the hub is shut down no message is announced, no subscriber admitted and
\* none is handed anything, whatever it was still owed.
THEOREM ShutdownEndsDelivery == Spec => ShutdownIsFinal
<1>1. ASSUME HubInv, [Next]_hubVars, closed
      PROVE  /\ closed' /\ log' = log
             /\ \A s \in Subscriptions : subs'[s].open => subs[s].open /\ got'[s] = got[s]
  <2> USE <1>1
  <2>1. TypeOK BY DEF HubInv
  <2>2. ASSUME NEW c \in Channels, NotifyChannelAccessChanged(c)
        PROVE  /\ closed' /\ log' = log
               /\ \A s \in Subscriptions : subs'[s].open => subs[s].open /\ got'[s] = got[s]
    BY <2>1, <2>2, WokenType DEF NotifyChannelAccessChanged
  <2>3. ASSUME NEW q \in Subscriptions, ReceiveWake(q)
        PROVE  /\ closed' /\ log' = log
               /\ \A s \in Subscriptions : subs'[s].open => subs[s].open /\ got'[s] = got[s]
    <3>1. \A s \in Subscriptions : subs'[s].open = subs[s].open
      BY <2>1, <2>3 DEF ReceiveWake, TypeOK, Subscription
    <3> QED BY <2>3, <3>1 DEF ReceiveWake
  <2>4. ASSUME NEW q \in Subscriptions, Close(q)
        PROVE  /\ closed' /\ log' = log
               /\ \A s \in Subscriptions : subs'[s].open => subs[s].open /\ got'[s] = got[s]
    BY <2>1, <2>4 DEF Close, Unused, TypeOK
  <2>5. CASE UNCHANGED hubVars
    BY <2>5 DEF hubVars
  <2> QED BY <2>2, <2>3, <2>4, <2>5 DEF Next, NotifyMessageCreated, Subscribe, Drain, Shutdown
<1> QED
  BY <1>1, InitEstablishesHubInv, HubInvStep, PTL DEF Spec, ShutdownIsFinal

-----------------------------------------------------------------------------
(* The hub implements ChannelFeed. *)

\* The refinement mapping of Feed, per subscription.
Mapped(s) == [open |-> subs[s].open, channel |-> subs[s].channel,
              start |-> start[s], got |-> got[s]]
feedBar == [s \in Subscriptions |-> Mapped(s)]

LEMMA FeedStutters ==
    ASSUME \A s \in Subscriptions : /\ subs'[s].open = subs[s].open
                                    /\ subs'[s].channel = subs[s].channel,
           UNCHANGED <<start, got>>
    PROVE  feedBar' = feedBar
BY DEF feedBar, Mapped

LEMMA FeedStep ==
    ASSUME HubInv, [Next]_hubVars
    PROVE  [Feed!Next]_(Feed!vars)
<1> USE DEF HubInv
<1>0. Feed!vars = <<log, feedBar>> /\ Feed!vars' = <<log', feedBar'>>
  BY DEF Feed!vars, feedBar, Mapped
<1>1. ASSUME NEW c \in Channels, NEW m \in Messages, NotifyMessageCreated(c, m)
      PROVE  Feed!Publish(c, m)
  <2>1. feedBar' = feedBar BY <1>1, WokenType, FeedStutters DEF NotifyMessageCreated
  <2> QED BY <1>1, <2>1 DEF Feed!Publish, NotifyMessageCreated, feedBar, Mapped
<1>2. ASSUME NEW c \in Channels, NotifyChannelAccessChanged(c)
      PROVE  UNCHANGED Feed!vars
  BY <1>0, <1>2, WokenType, FeedStutters DEF NotifyChannelAccessChanged
<1>3. ASSUME NEW s \in Subscriptions, NEW c \in Channels, NEW u \in Users, NEW cursor \in Cursors,
             Subscribe(s, c, u, cursor)
      PROVE  \E p \in 0..Len(log[c]) : Feed!Join(s, c, p)
  <2> DEFINE p == StartPosition(c, cursor)
             joined == [open |-> TRUE, channel |-> c, start |-> p, got |-> <<>>]
  <2>1. p \in 0..Len(log[c])
    BY <1>3, UniverseAssumption
       DEF Subscribe, CanResume, StartPosition, Cursors, TypeOK, WindowIsNewestLog
  <2>2. Mapped(s)' = joined
    BY <1>3 DEF Subscribe, TypeOK, Mapped
  <2>3. \A q \in Subscriptions \ {s} : Mapped(q)' = Mapped(q)
    BY <1>3 DEF Subscribe, TypeOK, Mapped
  <2>4. feedBar' = [feedBar EXCEPT ![s] = joined]
    BY <2>2, <2>3 DEF feedBar
  <2>5. ~feedBar[s].open
    BY <1>3 DEF Subscribe, feedBar, Mapped
  <2>6. UNCHANGED log BY <1>3 DEF Subscribe
  <2> QED
    BY <2>1, <2>4, <2>5, <2>6 DEF Feed!Join, feedBar, Mapped
<1>4. ASSUME NEW s \in Subscriptions, ReceiveWake(s)
      PROVE  UNCHANGED Feed!vars
  <2>1. \A q \in Subscriptions : /\ subs'[q].open = subs[q].open
                                 /\ subs'[q].channel = subs[q].channel
    BY <1>4 DEF ReceiveWake, TypeOK, Subscription
  <2> QED BY <1>0, <1>4, <2>1, FeedStutters DEF ReceiveWake
<1>5. ASSUME NEW s \in Subscriptions, Drain(s)
      PROVE  Feed!HandOver(s)
  <2> DEFINE c == subs[s].channel
             whole == Feed!Run(log[c], start[s], Len(log[c]))
  <2>1. /\ c \in Channels /\ Len(log[c]) = position[c]
        /\ subs[s] \in Subscription /\ subs \in [Subscriptions -> Subscription]
    BY DEF TypeOK, Subscription, WindowIsNewestLog
  <2>2. subs' = [subs EXCEPT ![s].position = position[c]] /\ UNCHANGED <<log, start, position>>
    BY <1>5 DEF Drain
  <2>3. /\ subs'[s].open = subs[s].open /\ subs'[s].channel = c
        /\ subs'[s].position = position[c]
    BY <2>1, <2>2 DEF Subscription
  <2>4. got'[s] = Run(log[c], start[s], position[c])
    BY <1>5, <2>2, <2>3, DrainedAfterDrain DEF DrainedOf
  <2>5. got'[s] = whole
    BY <2>1, <2>4 DEF Run, Feed!Run
  <2>6. \A q \in Subscriptions \ {s} : Mapped(q)' = Mapped(q)
    BY <1>5 DEF Drain, TypeOK, Mapped
  <2>7. Mapped(s)' = [Mapped(s) EXCEPT !.got = whole]
    BY <2>2, <2>3, <2>5 DEF Mapped
  <2>8. feedBar' = [feedBar EXCEPT ![s].got = whole]
    BY <2>6, <2>7 DEF feedBar
  <2>9. feedBar[s].open /\ feedBar[s].channel = c /\ feedBar[s].start = start[s]
    BY <1>5 DEF Drain, feedBar, Mapped
  <2> QED BY <2>2, <2>8, <2>9 DEF Feed!HandOver, feedBar, Mapped
<1>6. ASSUME NEW s \in Subscriptions, Close(s)
      PROVE  Feed!Leave(s)
  <2>1. Mapped(s)' = Feed!Idle
    BY <1>6 DEF Close, Unused, TypeOK, Mapped, Feed!Idle
  <2>2. \A q \in Subscriptions \ {s} : Mapped(q)' = Mapped(q)
    BY <1>6 DEF Close, TypeOK, Mapped
  <2>3. feedBar' = [feedBar EXCEPT ![s] = Feed!Idle]
    BY <2>1, <2>2 DEF feedBar
  <2>4. feedBar[s].open /\ UNCHANGED log
    BY <1>6 DEF Close, feedBar, Mapped
  <2> QED BY <2>3, <2>4 DEF Feed!Leave, feedBar, Mapped
<1>7. CASE Shutdown
  <2>1. \A q \in Subscriptions : /\ subs'[q].open = subs[q].open
                                 /\ subs'[q].channel = subs[q].channel
    BY <1>7 DEF Shutdown, TypeOK, Subscription
  <2> QED BY <1>0, <1>7, <2>1, FeedStutters DEF Shutdown
<1>8. CASE UNCHANGED hubVars
  BY <1>0, <1>8, FeedStutters DEF hubVars
<1> QED
  BY <1>1, <1>2, <1>3, <1>4, <1>5, <1>6, <1>7, <1>8 DEF Next, Feed!Next

\* The hub, with its window, its limits and its wake-ups, implements the feed its
\* subscribers rely on: every call maps to one step of ChannelFeed or to none.
THEOREM HubImplementsFeed == Spec => FeedSpec
<1>1. Init => Feed!Init
  BY DEF Init, Feed!Init, Feed!Idle, Unused
<1> QED
  BY <1>1, FeedStep, InitEstablishesHubInv, HubInvStep, PTL DEF Spec, FeedSpec, Feed!Spec

\* For every limit, the three counters that admission compares with the limits
\* count the open subscriptions: no path that closes one forgets to release its
\* place or releases it twice.
THEOREM CountersAreExact == Spec => []CountersExact
<1>1. HubInv => CountersExact
  BY DEF HubInv
<1> QED BY <1>1, InitEstablishesHubInv, HubInvStep, PTL DEF Spec
=============================================================================
