---------------------------- MODULE SequenceFacts ----------------------------
(***************************************************************************)
(* What the operators on sequences return, for sequences whose elements    *)
(* need not come from one set given beforehand: the rows of a table, the   *)
(* entries of a journal, the locks a transaction still has to take. And a  *)
(* fact about their indices: a set of numbers has a least one.             *)
(***************************************************************************)
EXTENDS Naturals, Sequences, SequenceTheorems, WellFoundedInduction, TLAPS

\* A set of numbers that is not empty has a least one.
LEMMA Least ==
    ASSUME NEW S, S \subseteq Nat, S # {}
    PROVE  \E m \in S : \A n \in S : m <= n
<1> DEFINE Lower == OpToRel(<, Nat)
<1>1. IsWellFoundedOn(Lower, Nat)
  BY NatLessThanWellFounded
<1>2. \A x, y \in Nat : x < y => <<x, y>> \in Lower
  BY DEF OpToRel
<1> HIDE DEF Lower
<1>3. \E m \in S : \A n \in S : ~(<<n, m>> \in Lower)
  BY <1>1, WFMin
<1>4. \A m, n \in Nat : ~(<<n, m>> \in Lower) => m <= n
  BY <1>2
<1> QED BY <1>3, <1>4

Elements(s) == {s[i] : i \in DOMAIN s}

\* A sequence, whatever its elements are.
Sequence(s) == s \in Seq(Elements(s))

\* Its domain is that of its length.
LEMMA SequenceDomain ==
    ASSUME NEW s, Sequence(s)
    PROVE  Len(s) \in Nat /\ DOMAIN s = 1..Len(s)
BY DEF Sequence

\* Every function on 1..n is one of length n.
LEMMA SequenceFrom ==
    ASSUME NEW s, NEW n \in Nat, s = [i \in 1..n |-> s[i]]
    PROVE  Sequence(s) /\ Len(s) = n
<1> DEFINE S == Elements(s)
<1>1. DOMAIN s = 1..n
  OBVIOUS
<1>2. s \in [1..n -> S]
  BY <1>1 DEF Elements
<1> HIDE DEF S
<1>3. s \in Seq(S)
  BY <1>2, SeqDef
<1>4. Len(s) = n
  BY <1>1, <1>3
<1> QED BY <1>3, <1>4 DEF Sequence, S

\* The sequences over a set are sequences.
LEMMA SequenceOf ==
    ASSUME NEW S, NEW s \in Seq(S)
    PROVE  Sequence(s)
<1>1. Len(s) \in Nat /\ s \in [1..Len(s) -> S]
  OBVIOUS
<1>2. s = [i \in 1..Len(s) |-> s[i]]
  BY <1>1
<1> QED BY <1>1, <1>2, SequenceFrom

\* What Append does.
LEMMA Appended ==
    ASSUME NEW s, Sequence(s), NEW x
    PROVE  /\ Sequence(Append(s, x))
           /\ Len(Append(s, x)) = Len(s) + 1
           /\ DOMAIN Append(s, x) = DOMAIN s \cup {Len(s) + 1}
           /\ Len(s) + 1 \notin DOMAIN s
           /\ \A i \in DOMAIN s : Append(s, x)[i] = s[i]
           /\ Append(s, x)[Len(s) + 1] = x
<1> DEFINE S == Elements(s) \cup {x}
<1>1. s \in Seq(S) /\ x \in S
  BY SequenceDomain DEF Sequence
<1> HIDE DEF S
<1>2. /\ Append(s, x) \in Seq(S)
      /\ Len(Append(s, x)) = Len(s) + 1
      /\ \A i \in 1..Len(s) : Append(s, x)[i] = s[i]
      /\ Append(s, x)[Len(s) + 1] = x
  BY <1>1
<1>3. Len(s) \in Nat /\ DOMAIN s = 1..Len(s) /\ DOMAIN Append(s, x) = 1..(Len(s) + 1)
  BY <1>1, <1>2
<1>4. Sequence(Append(s, x))
  BY <1>2, <1>3 DEF Sequence, Elements
<1> QED BY <1>2, <1>3, <1>4

\* What replacing one element does.
LEMMA Replaced ==
    ASSUME NEW s, Sequence(s), NEW k \in DOMAIN s, NEW x
    PROVE  LET new == [s EXCEPT ![k] = x]
           IN  /\ Sequence(new) /\ DOMAIN new = DOMAIN s /\ Len(new) = Len(s)
               /\ new[k] = x /\ \A i \in DOMAIN s : i # k => new[i] = s[i]
<1> DEFINE new == [s EXCEPT ![k] = x]
<1>1. Len(s) \in Nat /\ DOMAIN s = 1..Len(s)
  BY SequenceDomain
<1>2. DOMAIN new = DOMAIN s /\ new[k] = x /\ \A i \in DOMAIN s : i # k => new[i] = s[i]
  OBVIOUS
<1>3. new = [i \in 1..Len(s) |-> new[i]]
  BY <1>1
<1> HIDE DEF new
<1>4. Sequence(new) /\ Len(new) = Len(s)
  BY <1>1, <1>3, SequenceFrom
<1> QED BY <1>2, <1>4 DEF new

\* What Head and Tail do.
LEMMA Shortened ==
    ASSUME NEW s, Sequence(s), s # <<>>
    PROVE  /\ Sequence(Tail(s)) /\ Len(Tail(s)) = Len(s) - 1
           /\ Head(s) = s[1] /\ 1 \in DOMAIN s
           /\ DOMAIN Tail(s) = 1..(Len(s) - 1)
           /\ \A i \in DOMAIN Tail(s) : Tail(s)[i] = s[i + 1]
           /\ Elements(s) = {Head(s)} \cup Elements(Tail(s))
<1> DEFINE S == Elements(s)
<1>1. s \in Seq(S)
  BY DEF Sequence
<1> HIDE DEF S
<1>2. /\ Tail(s) \in Seq(S) /\ Len(Tail(s)) = Len(s) - 1 /\ Len(s) \in Nat \ {0}
      /\ Head(s) = s[1] /\ DOMAIN s = 1..Len(s)
      /\ DOMAIN Tail(s) = 1..(Len(s) - 1)
      /\ \A i \in 1..(Len(s) - 1) : Tail(s)[i] = s[i + 1]
  BY <1>1
<1>3. Sequence(Tail(s))
  BY <1>2, SequenceOf
<1>4. ASSUME NEW i \in 1..Len(s) PROVE s[i] \in {Head(s)} \cup Elements(Tail(s))
  <2>1. CASE i = 1
    BY <1>2, <2>1 DEF Elements
  <2>2. CASE i # 1
    <3>1. i - 1 \in 1..(Len(s) - 1) /\ Tail(s)[i - 1] = s[i]
      BY <1>2, <1>4, <2>2
    <3> QED BY <1>2, <3>1 DEF Elements
  <2> QED BY <2>1, <2>2
<1>5. \A j \in 1..(Len(s) - 1) : j + 1 \in 1..Len(s)
  BY <1>2
<1> QED BY <1>2, <1>3, <1>4, <1>5 DEF Elements

\* What concatenation does.
LEMMA Joined ==
    ASSUME NEW s, NEW r, Sequence(s), Sequence(r)
    PROVE  /\ Sequence(s \o r) /\ Len(s \o r) = Len(s) + Len(r)
           /\ \A i \in DOMAIN s : i \in DOMAIN (s \o r) /\ (s \o r)[i] = s[i]
           /\ \A i \in DOMAIN r : Len(s) + i \in DOMAIN (s \o r) /\ (s \o r)[Len(s) + i] = r[i]
<1> DEFINE S == Elements(s) \cup Elements(r)
<1>1. s \in Seq(S) /\ r \in Seq(S)
  BY SequenceDomain DEF Sequence
<1> HIDE DEF S
<1>2. /\ s \o r \in Seq(S) /\ DOMAIN s = 1..Len(s) /\ DOMAIN r = 1..Len(r)
      /\ Len(s) \in Nat /\ Len(r) \in Nat
      /\ DOMAIN (s \o r) = 1..(Len(s) + Len(r))
      /\ \A i \in 1..Len(s) : (s \o r)[i] = s[i]
      /\ \A i \in 1..Len(r) : (s \o r)[Len(s) + i] = r[i]
  BY <1>1, SMTT(30)
<1>3. Sequence(s \o r)
  BY <1>2, SequenceOf
<1>4. Len(s \o r) = Len(s) + Len(r)
  BY <1>1, SMTT(30)
<1> QED BY <1>2, <1>3, <1>4

\* Tuples are sequences of what they list.
LEMMA Listing ==
    /\ Sequence(<<>>) /\ Elements(<<>>) = {}
    /\ \A x : Sequence(<<x>>) /\ Elements(<<x>>) = {x}
    /\ \A x, y : Sequence(<<x, y>>) /\ Elements(<<x, y>>) = {x, y}
    /\ \A x, y, z : Sequence(<<x, y, z>>) /\ Elements(<<x, y, z>>) = {x, y, z}
BY DEF Sequence, Elements

\* The elements of a concatenation.
LEMMA ElementsJoined ==
    ASSUME NEW s, NEW r, Sequence(s), Sequence(r)
    PROVE  Sequence(s \o r) /\ Elements(s \o r) = Elements(s) \cup Elements(r)
<1>1. /\ Len(s) \in Nat /\ Len(r) \in Nat /\ Sequence(s \o r)
      /\ DOMAIN s = 1..Len(s) /\ DOMAIN r = 1..Len(r)
  BY SequenceDomain, Joined
<1>2. DOMAIN (s \o r) = 1..(Len(s) + Len(r))
  OBVIOUS
<1>3. ASSUME NEW i \in DOMAIN (s \o r) PROVE (s \o r)[i] \in Elements(s) \cup Elements(r)
  <2>1. CASE i <= Len(s)
    <3>1. i \in DOMAIN s
      BY <1>1, <1>2, <1>3, <2>1
    <3> QED BY <3>1, Joined DEF Elements
  <2>2. CASE ~(i <= Len(s))
    <3>1. i - Len(s) \in DOMAIN r /\ Len(s) + (i - Len(s)) = i
      BY <1>1, <1>2, <1>3, <2>2
    <3> QED BY <3>1, Joined DEF Elements
  <2> QED BY <2>1, <2>2
<1>4. \A i \in DOMAIN s : s[i] \in Elements(s \o r)
  BY Joined DEF Elements
<1>5. ASSUME NEW i \in DOMAIN r PROVE r[i] \in Elements(s \o r)
  <2>1. Len(s) + i \in DOMAIN (s \o r) /\ (s \o r)[Len(s) + i] = r[i]
    BY <1>5, Joined
  <2> QED BY <2>1 DEF Elements
<1> QED BY <1>1, <1>3, <1>4, <1>5 DEF Elements

\* p has n elements, and they are the first n of q.
ListsAs(p, n, q) == Sequence(p) /\ Len(p) = n /\ \A i \in 1..n : p[i] = q[i]

\* A concatenation is what its two parts list one after the other.
LEMMA JoinedAs ==
    ASSUME NEW s, NEW r, NEW q, NEW n \in Nat, NEW m \in Nat,
           Sequence(s), Sequence(r), Len(s) = n, Len(r) = m,
           \A i \in 1..n : q[i] = s[i], \A i \in 1..m : q[n + i] = r[i]
    PROVE  ListsAs(s \o r, n + m, q)
<1>1. DOMAIN s = 1..n /\ DOMAIN r = 1..m
  BY SequenceDomain
<1> DEFINE p == s \o r
<1>2. /\ Sequence(p) /\ Len(p) = Len(s) + Len(r)
      /\ \A i \in DOMAIN s : i \in DOMAIN p /\ p[i] = s[i]
      /\ \A i \in DOMAIN r : Len(s) + i \in DOMAIN p /\ p[Len(s) + i] = r[i]
  BY Joined
<1> HIDE DEF p
<1>3. /\ Sequence(p) /\ Len(p) = Len(s) + Len(r)
      /\ \A i \in DOMAIN s : p[i] = s[i]
      /\ \A i \in DOMAIN r : p[Len(s) + i] = r[i]
  BY <1>2
<1>4. /\ Sequence(p) /\ Len(p) = n + m
      /\ \A i \in 1..n : p[i] = s[i]
      /\ \A i \in 1..m : p[n + i] = r[i]
  BY <1>1, <1>3
<1>5. ASSUME NEW i \in 1..(n + m) PROVE p[i] = q[i]
  <2>1. CASE i <= n
    BY <1>4, <2>1
  <2>2. CASE ~(i <= n)
    <3>1. PICK j \in 1..m : n + j = i
      <4>1. i - n \in 1..m /\ n + (i - n) = i
        BY <2>2
      <4> QED BY <4>1
    <3> QED BY <1>4, <3>1
  <2> QED BY <2>1, <2>2
<1> QED BY <1>4, <1>5 DEF ListsAs, p

\* The same for some tuples.
LEMMA TuplesJoined ==
    \A a, b, c, d : /\ ListsAs(<<a>> \o <<b>>, 2, <<a, b>>)
                    /\ ListsAs(<<a>> \o <<b, c, d>>, 4, <<a, b, c, d>>)
                    /\ ListsAs(<<a, b, c>> \o <<d>>, 4, <<a, b, c, d>>)
<1>1. \A a, b, c : /\ Sequence(<<a>>) /\ Len(<<a>>) = 1
                   /\ Sequence(<<a, b, c>>) /\ Len(<<a, b, c>>) = 3
  BY Listing
<1> TAKE a, b, c, d
<1>2. ListsAs(<<a>> \o <<b>>, 2, <<a, b>>)
  <2> DEFINE s == <<a>>
             r == <<b>>
             q == <<a, b>>
  <2>1. \A i \in 1..1 : q[i] = s[i] /\ q[1 + i] = r[i]
    OBVIOUS
  <2>2. Sequence(s) /\ Sequence(r) /\ Len(s) = 1 /\ Len(r) = 1
    BY <1>1
  <2> HIDE DEF s, r, q
  <2>3. ListsAs(s \o r, 1 + 1, q)
    BY <2>1, <2>2, JoinedAs
  <2> QED BY <2>3 DEF s, r, q
<1>3. ListsAs(<<a>> \o <<b, c, d>>, 4, <<a, b, c, d>>)
  <2> DEFINE s == <<a>>
             r == <<b, c, d>>
             q == <<a, b, c, d>>
  <2>1. (\A i \in 1..1 : q[i] = s[i]) /\ \A i \in 1..3 : q[1 + i] = r[i]
    OBVIOUS
  <2>2. Sequence(s) /\ Sequence(r) /\ Len(s) = 1 /\ Len(r) = 3
    BY <1>1
  <2> HIDE DEF s, r, q
  <2>3. ListsAs(s \o r, 1 + 3, q)
    BY <2>1, <2>2, JoinedAs
  <2> QED BY <2>3 DEF s, r, q
<1>4. ListsAs(<<a, b, c>> \o <<d>>, 4, <<a, b, c, d>>)
  <2> DEFINE s == <<a, b, c>>
             r == <<d>>
             q == <<a, b, c, d>>
  <2>1. (\A i \in 1..3 : q[i] = s[i]) /\ \A i \in 1..1 : q[3 + i] = r[i]
    OBVIOUS
  <2>2. Sequence(s) /\ Sequence(r) /\ Len(s) = 3 /\ Len(r) = 1
    BY <1>1
  <2> HIDE DEF s, r, q
  <2>3. ListsAs(s \o r, 3 + 1, q)
    BY <2>1, <2>2, JoinedAs
  <2> QED BY <2>3 DEF s, r, q
<1> QED BY <1>2, <1>3, <1>4
=============================================================================
