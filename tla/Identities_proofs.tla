-------------------------- MODULE Identities_proofs --------------------------
(***************************************************************************)
(* Proofs about Identities, for any number of users, subjects and          *)
(* overlapping transactions: there is at most one owner, every invitation  *)
(* and every state is used once, an invitation is redeemed in the term of  *)
(* its inviter, Sessions and requests stand on what is bound and not       *)
(* revoked, and only admissions close circles of waiting transactions.     *)
(*                                                                         *)
(* A transaction decides on a row it has locked and acts later. What makes *)
(* that safe is `DecisionsOK`: whatever it decided still holds, because    *)
(* all that could undo it needs a lock that conflicts with one it holds    *)
(* (`LocksOK`, `ChecksOK`). Who can wait for whom follows from how far     *)
(* each one has come in its plan (`CoursesOK`).                            *)
(***************************************************************************)
EXTENDS Identities, SequenceFacts, FiniteSetTheorems

-----------------------------------------------------------------------------
(* The inductive invariant, part by part *)

Optional(S) == S \cup {None}

SessionRow == [user : Users, via : Subjects \cup {"password"},
               status : {"recent", "old", "expired", "logout", "revoked"}]
InvitationRow == [creator : Users, revision : 1..MaxRevision,
                  status : {"open", "expired", "consumed", "gone"}]
StateRow == [session : Optional(DOMAIN sessions), invitation : Optional(DOMAIN invitations),
             status : {"pending", "expired", "taken", "late"}]

\* What has which form.
RowsOK ==
    /\ menu \in Menus
    /\ password \subseteq Users
    /\ bound \in [Subjects -> Optional(Users)]
    /\ member \in [Users -> [role : {"none", "member", "owner"}, revision : 1..MaxRevision]]
    /\ Sequence(sessions)
    /\ \A s \in DOMAIN sessions : sessions[s] \in SessionRow
    /\ Sequence(invitations)
    /\ \A i \in DOMAIN invitations : invitations[i] \in InvitationRow
    /\ Sequence(states)
    /\ \A k \in DOMAIN states :
           /\ states[k] \in StateRow
           /\ states[k].session # None => states[k].invitation = None
    /\ joined \subseteq (DOMAIN invitations) \X Users

\* What a request carries.
RequestOK(r) ==
    /\ r.kind \in {"bootstrap", "invite", "accept", "join", "unlink", "start", "callback", "transfer"}
    /\ r.session \in Optional(DOMAIN sessions)
    /\ r.invitation \in Optional(DOMAIN invitations)
    /\ r.user \in Optional(Users)
    /\ r.kind \in {"invite", "accept", "unlink", "transfer"} => r.session # None
    /\ r.kind \in {"bootstrap", "join"} => r.session = None /\ r.user # None
    /\ r.kind \in {"accept", "join"} => r.invitation # None
    /\ r.kind \in {"bootstrap", "invite", "unlink", "transfer"} => r.invitation = None
    /\ r.kind \in {"start", "callback"} /\ r.session # None => r.invitation = None
    /\ r.kind = "transfer" => r.target \in Users /\ r.target # sessions[r.session].user

\* A running transaction. A callback that is at the provider holds nothing yet.
TxOK(t) ==
    LET r == tx[t].request
    IN  /\ tx[t] = [request |-> r, stage |-> tx[t].stage, held |-> tx[t].held,
                    found |-> tx[t].found, subject |-> tx[t].subject, todo |-> tx[t].todo]
        /\ RequestOK(r)
        /\ Sequence(tx[t].todo)
        /\ tx[t].found \in Optional(Users)
        /\ tx[t].found # None => r.kind = "callback" /\ r.session = None
        /\ tx[t].stage \in {"exchange", "locking", "purging"}
        /\ tx[t].stage = "exchange" => r.kind = "callback" /\ tx[t].held = {} /\ tx[t].todo = <<>>
        /\ r.kind = "callback" /\ tx[t].stage # "exchange" =>
               /\ tx[t].subject \in Subjects
               /\ r.session = None /\ tx[t].found = None => r.user # None /\ r.invitation # None

TxFormsOK == DOMAIN tx = Transactions /\ \A t \in Running : TxOK(t)

\* Whoever is a member has an account, and the other way round. If there is an account
\* there is an owner, and only one.
RolesOK ==
    /\ \A u \in Users : member[u].role # "none" <=> u \in Accounts
    /\ Accounts # {} => \E o \in Users : \A u \in Users : member[u].role = "owner" <=> u = o

\* Sessions and invitations are of accounts, and a new user is nobody else's.
MembersOK ==
    /\ RolesOK
    /\ \A s \in DOMAIN sessions : sessions[s].user \in Accounts
    /\ \A i \in DOMAIN invitations : invitations[i].creator \in Accounts
    /\ \A t \in Running : tx[t].request.user \notin Accounts
    /\ \A t, v \in Running :
           tx[t].request.user = tx[v].request.user /\ tx[t].request.user # None => t = v

\* Whom an invitation admitted used it up, and only the first owner needed none.
InvitationsOK ==
    /\ \A j \in joined : invitations[j[1]].status \in {"consumed", "gone"}
    /\ \A j, k \in joined : j[1] = k[1] => j = k
    /\ \A u, v \in Users :
           /\ member[u].role # "none" /\ \A j \in joined : j[2] # u
           /\ member[v].role # "none" /\ \A j \in joined : j[2] # v
           => u = v

LocksOK ==
    \A t, v \in Running : t # v =>
        \A l \in tx[t].held, m \in tx[v].held : l.row = m.row => ~Conflict(l.mode, m.mode)

If(condition, step) == IF condition THEN {step} ELSE {}

\* The steps after which a request decides.
Checks(r, found) ==
    If(r.kind = "bootstrap", Checked(<<"bootstrap">>, "update"))
    \cup If(r.kind = "transfer", Checked(<<"session", r.session>>, "share"))
    \cup If(r.kind # "transfer" /\ r.session # None,
            Checked(<<"account", sessions[r.session].user>>, "update"))
    \cup If(found # None, Checked(<<"account", found>>, "update"))
    \cup If(r.kind = "invite", Checked(<<"member", sessions[r.session].user>>, "share"))
    \cup If(r.invitation # None, Checked(<<"invitation", r.invitation>>, "update"))
    \cup If(r.invitation # None, Checked(<<"member", invitations[r.invitation].creator>>, "share"))

\* Rows that a request changes without having decided on them.
Writes(r) ==
    IF r.kind # "transfer" THEN {}
    ELSE {Lock(<<"member", u>>, "update") : u \in {sessions[r.session].user, r.target}}

ChecksAmong(r, found, all) ==
    {l \in all : l.check} = Checks(r, found) /\ Writes(r) \subseteq all

\* Those steps have been taken or still lie ahead.
ChecksOK ==
    \A t \in Running : tx[t].stage # "exchange" =>
        ChecksAmong(tx[t].request, tx[t].found, tx[t].held \cup Elements(tx[t].todo))

\* After its plan an "invite" locks only what it purges.
PurgeStep(l) == \E i : l = Lock(<<"invitation", i>>, "update")
PurgesOK ==
    \A t \in Running : tx[t].request.kind = "invite" =>
        \A l \in tx[t].held \cup Elements(tx[t].todo) : l.check \/ PurgeStep(l)

\* What has been decided still holds, but for what expires by itself.
Stands(t, row) ==
    LET r == tx[t].request
    IN  /\ row[1] = "bootstrap" => Unclaimed
        /\ row[1] = "invitation" => invitations[r.invitation].status \in {"open", "expired"}
        /\ row[1] = "member" /\ r.invitation # None => InviterStands(r.invitation)
        /\ row[1] = "account" /\ r.session = None => StillBound(t)
        /\ row[1] = "account" /\ r.session # None => sessions[r.session].status # "revoked"

DecisionsOK == \A t \in Running : \A l \in tx[t].held : l.check => Stands(t, l.row)

\* Each external login and each callback under way took a state of its own.
Logins == {s \in DOMAIN sessions : sessions[s].via # "password"}
Callbacks == {t \in Running : tx[t].request.kind = "callback"}
Taking == {k \in DOMAIN states : states[k].status \in {"taken", "late"}}

StatesOK ==
    /\ IsFiniteSet(Callbacks)
    /\ Cardinality(Logins) + Cardinality(Callbacks) <= Cardinality(Taking)

IdentitiesInv ==
    /\ RowsOK /\ TxFormsOK /\ MembersOK /\ InvitationsOK
    /\ LocksOK /\ ChecksOK /\ PurgesOK /\ DecisionsOK
    /\ SessionsOfBoundIdentities /\ StatesOK /\ CapsHold

-----------------------------------------------------------------------------
(* Facts about numbers and plans *)

\* Finitely many numbers can be listed in ascending order.
Listed(S) == \E q \in [1..Cardinality(S) -> S] : \A m, n \in DOMAIN q : m < n => q[m] < q[n]

\* By induction on their number: the least comes first, then the others.
LEMMA Ascending ==
    ASSUME NEW S, S \subseteq Nat, IsFiniteSet(S)
    PROVE  Listed(S)
<1> DEFINE Within(n) == {T \in SUBSET Nat : IsFiniteSet(T) /\ ~Listed(T) /\ Cardinality(T) = n}
           Bad == {n \in Nat : Within(n) # {}}
<1>1. SUFFICES ASSUME Bad # {} PROVE FALSE
  <2>1. Bad = {}
    BY <1>1
  <2>2. Cardinality(S) \in Nat
    BY FS_CardinalityType
  <2> QED BY <2>1, <2>2
<1>2. PICK n \in Bad : \A m \in Bad : n <= m
  BY <1>1, Least
<1>3. PICK T \in SUBSET Nat : IsFiniteSet(T) /\ ~Listed(T) /\ Cardinality(T) = n
  BY <1>2
<1>4. n \in Nat
  BY <1>2
<1>5. CASE n = 0
  <2>1. T = {}
    BY <1>3, <1>5, FS_EmptySet
  <2> DEFINE q == [i \in 1..0 |-> i]
  <2>2. q \in [1..0 -> T] /\ \A a, b \in DOMAIN q : a < b => q[a] < q[b]
    BY <2>1
  <2> QED BY <1>3, <1>5, <2>2 DEF Listed
<1>6. CASE n # 0
  <2>0. T # {}
    BY <1>3, <1>6, FS_EmptySet
  <2>1. PICK x \in T : \A y \in T : x <= y
    BY <1>3, <2>0, Least
  <2> DEFINE R == T \ {x}
  <2>2. IsFiniteSet(R) /\ Cardinality(R) = n - 1
    BY <1>3, <2>1, FS_RemoveElement
  <2>3. Listed(R)
    <3>1. n - 1 \in Nat /\ ~(n <= n - 1)
      BY <1>4, <1>6
    <3>2. n - 1 \notin Bad
      BY <1>2, <3>1
    <3>3. R \in SUBSET Nat
      BY <1>3
    <3> QED BY <2>2, <3>1, <3>2, <3>3
  <2>4. PICK q \in [1..(n - 1) -> R] : \A a, b \in DOMAIN q : a < b => q[a] < q[b]
    BY <2>2, <2>3 DEF Listed
  <2> DEFINE p == [i \in 1..n |-> IF i = 1 THEN x ELSE q[i - 1]]
  <2>5. \A i \in 1..n : i # 1 => i - 1 \in 1..(n - 1)
    BY <1>4
  <2>6. p \in [1..n -> T]
    BY <2>1, <2>4, <2>5
  <2>7. ASSUME NEW a \in 1..n, NEW b \in 1..n, a < b PROVE p[a] < p[b]
    <3>1. b # 1 /\ b - 1 \in 1..(n - 1)
      BY <1>4, <2>5, <2>7
    <3>2. q[b - 1] \in R /\ p[b] = q[b - 1]
      BY <2>4, <3>1
    <3>3. CASE a = 1
      <4>1. p[a] = x /\ x <= q[b - 1] /\ q[b - 1] # x
        BY <2>1, <3>2, <3>3
      <4>2. x \in Nat /\ q[b - 1] \in Nat
        BY <1>3, <2>1, <3>2
      <4> QED BY <3>2, <4>1, <4>2
    <3>4. CASE a # 1
      <4>1. a - 1 \in 1..(n - 1) /\ p[a] = q[a - 1] /\ a - 1 < b - 1
        BY <1>4, <2>5, <2>7, <3>4
      <4>2. \A i, j \in 1..(n - 1) : i < j => q[i] < q[j]
        BY <2>4
      <4> QED BY <3>1, <3>2, <4>1, <4>2
    <3> QED BY <3>3, <3>4
  <2>8. \A a, b \in DOMAIN p : a < b => p[a] < p[b]
    BY <2>7
  <2> HIDE DEF p
  <2>9. DOMAIN p = 1..n
    BY <2>6
  <2> QED BY <1>3, <2>6, <2>8 DEF Listed
<1> QED BY <1>5, <1>6

\* A new user is nobody yet.
LEMMA NewUserIsFresh ==
    ASSUME NewUser # None
    PROVE  /\ NewUser \in Users /\ NewUser \notin Accounts
           /\ \A t \in Running : tx[t].request.user # NewUser
<1>1. FreshUsers # {} /\ FreshUsers \subseteq Nat
  BY IdentitiesAssumption DEF NewUser, FreshUsers
<1>2. \E u \in FreshUsers : \A v \in FreshUsers : u <= v
  BY <1>1, Least
<1>3. NewUser \in FreshUsers
  BY <1>1, <1>2 DEF NewUser
<1> QED BY <1>3 DEF FreshUsers, Running

\* The account of the Session is locked and then decided on.
LEMMA Authorizing ==
    ASSUME NEW r
    PROVE  /\ Sequence(Authorize(r))
           /\ Elements(Authorize(r)) = {Checked(<<"account", sessions[r.session].user>>, "update")}
BY Listing DEF Authorize, CheckedAccount

\* The steps of a redemption.
LEMMA Redeeming ==
    ASSUME NEW r
    PROVE  /\ Sequence(Redeem(r))
           /\ {l \in Elements(Redeem(r)) : l.check} =
                  If(r.invitation # None, Checked(<<"invitation", r.invitation>>, "update"))
                  \cup If(r.invitation # None,
                          Checked(<<"member", invitations[r.invitation].creator>>, "share"))
<1>1. CASE r.invitation = None
  BY <1>1, Listing DEF Redeem, If
<1>2. CASE r.invitation # None
  <2> DEFINE a == Checked(<<"invitation", r.invitation>>, "update")
             b == Lock(<<"account", invitations[r.invitation].creator>>, "share")
             c == Checked(<<"member", invitations[r.invitation].creator>>, "share")
  <2>1. Redeem(r) = <<a, b, c>>
    BY <1>2 DEF Redeem
  <2>2. a.check /\ ~b.check /\ c.check
    BY DEF Lock, Checked
  <2> HIDE DEF a, b, c
  <2>3. Sequence(Redeem(r)) /\ {l \in Elements(Redeem(r)) : l.check} = {a} \cup {c}
    BY <2>1, <2>2, Listing
  <2> QED BY <1>2, <2>3 DEF If, a, b, c
<1> QED BY <1>1, <1>2

\* A hand-over locks both accounts and both memberships.
LEMMA HandingOver ==
    ASSUME NEW r, RowsOK, RequestOK(r), r.kind = "transfer"
    PROVE  /\ Sequence(TransferPlan(r))
           /\ {l \in Elements(TransferPlan(r)) : l.check} = {Checked(<<"session", r.session>>, "share")}
           /\ Writes(r) \subseteq Elements(TransferPlan(r))
<1> DEFINE u == sessions[r.session].user
           v == r.target
           a == Lock(<<"account", Low(u, v)>>, "share")
           b == Lock(<<"account", High(u, v)>>, "share")
           c == Checked(<<"session", r.session>>, "share")
           d == Lock(<<"member", Low(u, v)>>, "update")
           e == Lock(<<"member", High(u, v)>>, "update")
<1>1. TransferPlan(r) = (<<a>> \o <<b>>) \o <<c, d, e>>
  BY DEF TransferPlan, Account
<1>2. ~a.check /\ ~b.check /\ c.check /\ ~d.check /\ ~e.check
  BY DEF Lock, Checked
<1>3. Writes(r) = {d, e}
  BY DEF Writes, Low, High
<1> HIDE DEF a, b, c, d, e
<1>4. Sequence(<<a>> \o <<b>>) /\ Elements(<<a>> \o <<b>>) = {a} \cup {b}
  BY Listing, ElementsJoined
<1> DEFINE front == <<a>> \o <<b>>
           rear == <<c, d, e>>
<1>5. Sequence(TransferPlan(r)) /\ Elements(TransferPlan(r)) = ({a} \cup {b}) \cup {c, d, e}
  <2>1. Sequence(front) /\ Elements(front) = {a} \cup {b}
    BY <1>4
  <2>2. Sequence(rear) /\ Elements(rear) = {c, d, e}
    BY Listing
  <2>3. TransferPlan(r) = front \o rear
    BY <1>1
  <2> HIDE DEF front, rear
  <2> QED BY <2>1, <2>2, <2>3, ElementsJoined
<1>6. {l \in Elements(TransferPlan(r)) : l.check} = {c}
  BY <1>2, <1>5
<1> QED BY <1>3, <1>5, <1>6 DEF c

\* What a plan decides on and changes, in whatever order.
LEMMA PlanFacts ==
    ASSUME NEW r, NEW f, RowsOK, RequestOK(r), f # None => r.kind = "callback" /\ r.session = None
    PROVE  /\ Sequence(Plan(r, f))
           /\ {l \in Elements(Plan(r, f)) : l.check} = Checks(r, f)
           /\ Writes(r) \subseteq Elements(Plan(r, f))
           /\ r.kind = "invite" => \A l \in Elements(Plan(r, f)) : l.check
<1> DEFINE account == Checked(<<"account", sessions[r.session].user>>, "update")
           finder == Checked(<<"account", f>>, "update")
           admit == If(r.invitation # None, Checked(<<"invitation", r.invitation>>, "update"))
                    \cup If(r.invitation # None,
                            Checked(<<"member", invitations[r.invitation].creator>>, "share"))
           owner == Checked(<<"member", sessions[r.session].user>>, "share")
           setup == Checked(<<"bootstrap">>, "update")
           table == Lock(<<"states">>, "update")
<1>1. /\ account.check /\ finder.check /\ owner.check /\ setup.check /\ ~table.check
  BY DEF Lock, Checked
<1>2. /\ Sequence(Authorize(r)) /\ Elements(Authorize(r)) = {account}
      /\ Sequence(Redeem(r)) /\ {l \in Elements(Redeem(r)) : l.check} = admit
  BY Authorizing, Redeeming
<1>3. r.invitation = None => admit = {}
  BY DEF If
<1>4. Checks(r, f) = If(r.kind = "bootstrap", setup)
                     \cup If(r.kind = "transfer", Checked(<<"session", r.session>>, "share"))
                     \cup If(r.kind # "transfer" /\ r.session # None, account)
                     \cup If(f # None, finder) \cup If(r.kind = "invite", owner) \cup admit
  BY DEF Checks
<1>5. r.kind # "transfer" => Writes(r) = {}
  BY DEF Writes
<1> HIDE DEF account, finder, admit, owner, setup, table
<1>6. CASE r.kind = "bootstrap"
  <2>1. Plan(r, f) = <<setup>>
    BY <1>6 DEF Plan, setup
  <2>2. Checks(r, f) = {setup}
    BY <1>3, <1>4, <1>6 DEF If, RequestOK
  <2> QED BY <1>1, <1>5, <1>6, <2>1, <2>2, Listing
<1>7. CASE r.kind = "invite"
  <2>1. Plan(r, f) = Authorize(r) \o <<owner>>
    BY <1>7 DEF Plan, owner
  <2>2. Checks(r, f) = {account} \cup {owner}
    BY <1>3, <1>4, <1>7 DEF If, RequestOK
  <2>3. Sequence(Plan(r, f)) /\ Elements(Plan(r, f)) = {account} \cup {owner}
    BY <1>2, <2>1, Listing, ElementsJoined
  <2> QED BY <1>1, <1>5, <1>7, <2>2, <2>3
<1>8. CASE r.kind = "accept"
  <2>1. Plan(r, f) = Authorize(r) \o Redeem(r)
    BY <1>8 DEF Plan
  <2>2. Checks(r, f) = {account} \cup admit
    BY <1>4, <1>8 DEF If, RequestOK
  <2>3. Sequence(Plan(r, f)) /\ Elements(Plan(r, f)) = {account} \cup Elements(Redeem(r))
    BY <1>2, <2>1, ElementsJoined
  <2> QED BY <1>1, <1>2, <1>5, <1>8, <2>2, <2>3
<1>9. CASE r.kind = "join"
  <2>1. Plan(r, f) = Redeem(r)
    BY <1>9 DEF Plan
  <2>2. Checks(r, f) = admit
    BY <1>4, <1>9 DEF If, RequestOK
  <2> QED BY <1>2, <1>5, <1>9, <2>1, <2>2
<1>10. CASE r.kind = "unlink"
  <2>1. Plan(r, f) = Authorize(r)
    BY <1>10 DEF Plan
  <2>2. Checks(r, f) = {account}
    BY <1>3, <1>4, <1>10 DEF If, RequestOK
  <2> QED BY <1>1, <1>2, <1>5, <1>10, <2>1, <2>2
<1>11. CASE r.kind = "start"
  <2> DEFINE head == IF r.session = None THEN <<>> ELSE Authorize(r)
  <2>1. Plan(r, f) = head \o Redeem(r) \o <<table>>
    BY <1>11 DEF Plan, table
  <2>2. Sequence(head) /\ Elements(head) = IF r.session = None THEN {} ELSE {account}
    BY <1>2, Listing
  <2> HIDE DEF head
  <2>3. Sequence(head \o Redeem(r)) /\ Elements(head \o Redeem(r)) = Elements(head) \cup Elements(Redeem(r))
    BY <1>2, <2>2, ElementsJoined
  <2>4. Sequence(Plan(r, f)) /\ Elements(Plan(r, f)) = (Elements(head) \cup Elements(Redeem(r))) \cup {table}
    BY <2>1, <2>3, Listing, ElementsJoined
  <2>5. Checks(r, f) = Elements(head) \cup admit
    BY <1>4, <1>11, <2>2 DEF If, RequestOK
  <2>6. \A l \in Elements(head) : l.check
    BY <1>1, <2>2
  <2> QED BY <1>1, <1>2, <1>5, <1>11, <2>4, <2>5, <2>6
<1>12. CASE r.kind = "callback"
  <2> DEFINE head == IF f = None THEN <<>> ELSE <<finder>>
  <2>1. CASE r.session # None
    <3>1. Plan(r, f) = Authorize(r)
      BY <1>12, <2>1 DEF Plan
    <3>2. Checks(r, f) = {account}
      BY <1>3, <1>4, <1>12, <2>1 DEF If, RequestOK
    <3> QED BY <1>1, <1>2, <1>5, <1>12, <3>1, <3>2
  <2>2. CASE r.session = None
    <3>1. Plan(r, f) = head \o Redeem(r)
      BY <1>12, <2>2 DEF Plan, CheckedAccount, finder
    <3>2. Sequence(head) /\ Elements(head) = IF f = None THEN {} ELSE {finder}
      BY Listing
    <3> HIDE DEF head
    <3>3. Sequence(Plan(r, f)) /\ Elements(Plan(r, f)) = Elements(head) \cup Elements(Redeem(r))
      BY <1>2, <3>1, <3>2, ElementsJoined
    <3>4. Checks(r, f) = Elements(head) \cup admit
      BY <1>4, <1>12, <2>2, <3>2 DEF If, RequestOK
    <3>5. \A l \in Elements(head) : l.check
      BY <1>1, <3>2
    <3> QED BY <1>2, <1>5, <1>12, <3>3, <3>4, <3>5
  <2> QED BY <2>1, <2>2
<1>13. CASE r.kind = "transfer"
  <2>1. Plan(r, f) = TransferPlan(r)
    BY <1>13 DEF Plan
  <2>2. Checks(r, f) = {Checked(<<"session", r.session>>, "share")}
    BY <1>3, <1>4, <1>13 DEF If, RequestOK
  <2> QED BY <1>13, <2>1, <2>2, HandingOver
<1> QED BY <1>6, <1>7, <1>8, <1>9, <1>10, <1>11, <1>12, <1>13 DEF RequestOK

-----------------------------------------------------------------------------
(* What a step does to the transactions *)

\* A request that clients may send carries what it should; whoever it makes a user of
\* is new.
LEMMA RequestsAreOK ==
    ASSUME NEW r \in Requests, RowsOK, Room(r)
    PROVE  /\ RequestOK(r) /\ r.kind # "callback"
           /\ r.user # None => r.user = NewUser
           /\ r.kind = "start" => r.user = None
<1> USE DEF Request, OfSession, WithInvitation, AsNew
<1>0. NewUser # None => NewUser \in Users
  BY NewUserIsFresh
<1>1. CASE r \in Setups
  BY <1>0, <1>1 DEF Setups, RequestOK, Optional
<1>2. CASE r \in Invites \cup OfSession("unlink")
  <2>1. PICK s \in DOMAIN sessions, kind \in {"invite", "unlink"} :
            r = [kind |-> kind, session |-> s, invitation |-> None, user |-> None, target |-> None]
    BY <1>2 DEF Invites
  <2>2. s # None
    BY IdentitiesAssumption, SequenceDomain DEF RowsOK
  <2> QED BY <2>1, <2>2 DEF RequestOK, Optional
<1>3. CASE r \in WithInvitation(OfSession("accept"))
  <2>1. PICK s \in DOMAIN sessions, i \in DOMAIN invitations :
            r = [kind |-> "accept", session |-> s, invitation |-> i, user |-> None, target |-> None]
    BY <1>3
  <2>2. s # None /\ i # None
    BY IdentitiesAssumption, SequenceDomain DEF RowsOK
  <2> QED BY <2>1, <2>2 DEF RequestOK, Optional
<1>4. CASE r \in AsNew(WithInvitation({Request("join")}))
  <2>1. NewUser # None /\ \E q \in WithInvitation({Request("join")}) : r = [q EXCEPT !.user = NewUser]
    BY <1>4
  <2>2. PICK i \in DOMAIN invitations :
            r = [kind |-> "join", session |-> None, invitation |-> i, user |-> NewUser, target |-> None]
    BY <2>1
  <2>3. i # None
    BY IdentitiesAssumption, SequenceDomain DEF RowsOK
  <2> QED BY <1>0, <2>1, <2>2, <2>3 DEF RequestOK, Optional
<1>5. CASE r \in Starts
  <2>1. PICK s \in Optional(DOMAIN sessions), i \in Optional(DOMAIN invitations) :
            /\ r = [kind |-> "start", session |-> s, invitation |-> i, user |-> None, target |-> None]
            /\ s # None => i = None
    <3>1. CASE r \in Links
      <4>1. PICK s \in DOMAIN sessions : r = [Request("start") EXCEPT !.session = s]
        BY <3>1 DEF Links
      <4> QED BY <4>1 DEF Optional
    <3>2. CASE r = Request("start")
      BY <3>2 DEF Optional
    <3>3. CASE r \in WithInvitation({Request("start")})
      <4>1. PICK i \in DOMAIN invitations : r = [Request("start") EXCEPT !.invitation = i]
        BY <3>3
      <4> QED BY <4>1 DEF Optional
    <3> QED BY <1>5, <3>1, <3>2, <3>3 DEF Starts
  <2> QED BY <2>1 DEF RequestOK, Optional
<1>6. CASE r \in Transfers
  BY <1>0, <1>6, IdentitiesAssumption DEF Transfers, RequestOK, Optional, Room
<1> QED BY <1>1, <1>2, <1>3, <1>4, <1>5, <1>6 DEF Requests, Admissions

Entered(r, stage, f, x) ==
    [request |-> r, stage |-> stage, held |-> {}, found |-> f, subject |-> x,
     todo |-> IF stage = "exchange" THEN <<>> ELSE Plan(r, f)]
Acquired(t) ==
    [request |-> tx[t].request, stage |-> tx[t].stage, held |-> tx[t].held \cup {Head(tx[t].todo)},
     found |-> tx[t].found, subject |-> tx[t].subject, todo |-> Tail(tx[t].todo)]
Purging(t, todo) ==
    [request |-> tx[t].request, stage |-> "purging", held |-> tx[t].held,
     found |-> tx[t].found, subject |-> tx[t].subject, todo |-> todo]

\* Only t moves.
Only(t) == \A v \in Transactions : v # t => tx'[v] = tx[v]

\* A transaction takes its next lock.
LEMMA Acquiring ==
    ASSUME NEW t \in Transactions, TxFormsOK, Acquire(t)
    PROVE  t \in Running /\ Only(t) /\ tx'[t] = Acquired(t) /\ DOMAIN tx' = Transactions
<1> DEFINE next == Head(tx[t].todo)
           rest == Tail(tx[t].todo)
           held == tx[t].held \cup {next}
<1>1. t \in Running /\ DOMAIN tx = Transactions /\ TxOK(t)
  BY DEF Acquire, Running, TxFormsOK
<1>2. tx' = [tx EXCEPT ![t] = [tx[t] EXCEPT !.held = held, !.todo = rest]]
  BY <1>1 DEF Acquire, TxOK
<1>3. PICK a, b, c, d, e, f :
          /\ tx[t] = [request |-> a, stage |-> b, held |-> c, found |-> d, subject |-> e, todo |-> f]
          /\ a = tx[t].request /\ b = tx[t].stage /\ d = tx[t].found /\ e = tx[t].subject
  BY <1>1 DEF TxOK
<1> HIDE DEF next, rest, held
<1>4. [tx[t] EXCEPT !.held = held, !.todo = rest] =
          [request |-> a, stage |-> b, held |-> held, found |-> d, subject |-> e, todo |-> rest]
  <2>1. [tx[t] EXCEPT !.held = held] =
            [request |-> a, stage |-> b, held |-> held, found |-> d, subject |-> e, todo |-> f]
    BY <1>3
  <2>2. \A z : z = [request |-> a, stage |-> b, held |-> held, found |-> d, subject |-> e, todo |-> f]
            => [z EXCEPT !.todo = rest] =
                  [request |-> a, stage |-> b, held |-> held, found |-> d, subject |-> e, todo |-> rest]
    OBVIOUS
  <2> QED BY <2>1, <2>2
<1> QED BY <1>1, <1>2, <1>3, <1>4 DEF Acquired, Only, next, rest, held

\* The rows that a purge locks, in ascending order.
LEMMA PurgeStarts ==
    ASSUME NEW t \in Transactions, RowsOK, TxFormsOK, Purge(t)
    PROVE  /\ t \in Running /\ Only(t) /\ DOMAIN tx' = Transactions
           /\ \E todo : /\ tx'[t] = Purging(t, todo) /\ Sequence(todo)
                        /\ \A l \in Elements(todo) : PurgeStep(l)
<1> DEFINE old == {i \in DOMAIN invitations : Purgeable(i)}
           plan == CHOOSE q \in [1..Cardinality(old) -> old] :
                       \A m, n \in DOMAIN q : m < n => q[m] < q[n]
           todo == [n \in DOMAIN plan |-> Lock(<<"invitation", plan[n]>>, "update")]
<1>1. t \in Running /\ DOMAIN tx = Transactions /\ TxOK(t)
  BY DEF Purge, Running, TxFormsOK
<1>2. tx' = [tx EXCEPT ![t] = [tx[t] EXCEPT !.stage = "purging", !.todo = todo]]
  <2>1. tx' = [tx EXCEPT ![t].stage = "purging", ![t].todo = todo]
    BY Zenon DEF Purge
  <2> HIDE DEF todo
  <2> QED BY <1>1, <2>1
<1>3. old \subseteq Nat /\ IsFiniteSet(old)
  <2>1. Len(invitations) \in Nat /\ DOMAIN invitations = 1..Len(invitations)
    BY SequenceDomain DEF RowsOK
  <2>2. IsFiniteSet(1..Len(invitations))
    BY <2>1, FS_Interval
  <2> QED BY <2>1, <2>2, FS_Subset
<1> HIDE DEF old
<1>4. Listed(old) /\ Cardinality(old) \in Nat
  BY <1>3, Ascending, FS_CardinalityType
<1>5. plan \in [1..Cardinality(old) -> old]
  BY <1>4 DEF Listed
<1> HIDE DEF plan
<1>6. Sequence(todo)
  BY <1>4, <1>5, SequenceFrom
<1>7. \A l \in Elements(todo) : PurgeStep(l)
  BY DEF Elements, PurgeStep
<1> HIDE DEF todo
<1>8. PICK a, b, c, d, e, f :
          /\ tx[t] = [request |-> a, stage |-> b, held |-> c, found |-> d, subject |-> e, todo |-> f]
          /\ a = tx[t].request /\ c = tx[t].held /\ d = tx[t].found /\ e = tx[t].subject
  BY <1>1 DEF TxOK
<1>9. [tx[t] EXCEPT !.stage = "purging", !.todo = todo] =
          [request |-> a, stage |-> "purging", held |-> c, found |-> d, subject |-> e, todo |-> todo]
  <2>1. [tx[t] EXCEPT !.stage = "purging"] =
            [request |-> a, stage |-> "purging", held |-> c, found |-> d, subject |-> e, todo |-> f]
    BY <1>8
  <2>2. \A z : z = [request |-> a, stage |-> "purging", held |-> c, found |-> d, subject |-> e, todo |-> f]
            => [z EXCEPT !.todo = todo] =
                  [request |-> a, stage |-> "purging", held |-> c, found |-> d, subject |-> e, todo |-> todo]
    OBVIOUS
  <2> QED BY <2>1, <2>2
<1>10. tx'[t] = Purging(t, todo)
  BY <1>1, <1>2, <1>8, <1>9 DEF Purging
<1> QED BY <1>1, <1>2, <1>6, <1>7, <1>10 DEF Only

\* A transaction that ends.
LEMMA Ending ==
    ASSUME NEW t \in Transactions, TxFormsOK, Abort(t) \/ Commit(t)
    PROVE  t \in Running /\ Only(t) /\ tx'[t] = None /\ DOMAIN tx' = Transactions
BY DEF Abort, Commit, TxFormsOK, Running, Only

\* A transaction that begins, or begins after its callback has been at the provider.
LEMMA Entering ==
    ASSUME NEW t \in Transactions, NEW r, NEW stage, NEW f, NEW x, TxFormsOK, Enter(t, r, stage, f, x)
    PROVE  Only(t) /\ tx'[t] = Entered(r, stage, f, x) /\ DOMAIN tx' = Transactions
BY DEF Enter, Entered, Only, TxFormsOK

NewRequest(r) ==
    /\ RequestOK(r) /\ r.kind # "callback"
    /\ r.user # None => r.user = NewUser

\* What may have become of a running transaction.
Move(v) ==
    \/ v \in Running /\ tx'[v] = tx[v]
    \/ /\ tx[v] = None /\ Only(v) /\ UNCHANGED rows
       /\ \E r : NewRequest(r) /\ tx'[v] = Entered(r, "locking", None, None)
    \/ /\ tx[v] = None /\ Only(v)
       /\ \E k \in DOMAIN states : ConsumeState(v, k) /\ tx'[v] = Entered(CallbackOf(k), "exchange", None, None)
    \/ /\ v \in Running /\ Only(v)
       /\ \E x \in Subjects :
              /\ Exchange(v, x)
              /\ tx'[v] = Entered(tx[v].request, "locking",
                                  IF tx[v].request.session = None THEN bound[x] ELSE None, x)
    \/ v \in Running /\ Only(v) /\ Acquire(v) /\ tx'[v] = Acquired(v)
    \/ /\ v \in Running /\ Only(v) /\ Purge(v)
       /\ \E todo : /\ tx'[v] = Purging(v, todo) /\ Sequence(todo)
                    /\ \A l \in Elements(todo) : PurgeStep(l)

\* Every running transaction has made one of these moves, or none.
LEMMA Moving ==
    ASSUME RowsOK, TxFormsOK, [Next]_vars
    PROVE  DOMAIN tx' = Transactions /\ \A v \in Running' : Move(v)
<1> DEFINE Goal == DOMAIN tx' = Transactions /\ \A v \in Running' : Move(v)
<1>0. ASSUME NEW t \in Transactions, Only(t), DOMAIN tx' = Transactions, t \in Running' => Move(t)
      PROVE  Goal
  BY <1>0 DEF Move, Running, Only
<1>1. ASSUME NEW t \in Transactions, Begin(t) PROVE Goal
  <2>1. PICK r \in Requests : Room(r) /\ Enter(t, r, "locking", None, None)
    BY <1>1 DEF Begin
  <2>2. tx[t] = None /\ UNCHANGED rows
    BY <1>1 DEF Begin
  <2>3. Only(t) /\ tx'[t] = Entered(r, "locking", None, None) /\ DOMAIN tx' = Transactions
    BY <2>1, Entering
  <2>4. NewRequest(r)
    BY <2>1, RequestsAreOK DEF NewRequest
  <2>5. Move(t)
    BY <2>2, <2>3, <2>4 DEF Move
  <2> QED BY <1>0, <2>3, <2>5
<1>2. ASSUME NEW t \in Transactions, NEW k \in DOMAIN states, ConsumeState(t, k) PROVE Goal
  <2>1. tx[t] = None /\ Enter(t, CallbackOf(k), "exchange", None, None)
    BY <1>2 DEF ConsumeState
  <2> DEFINE r == CallbackOf(k)
  <2>2. Only(t) /\ tx'[t] = Entered(r, "exchange", None, None) /\ DOMAIN tx' = Transactions
    BY <2>1 DEF Enter, Entered, Only, TxFormsOK
  <2>3. Move(t)
    BY <1>2, <2>1, <2>2 DEF Move
  <2> QED BY <1>0, <2>2, <2>3
<1>3. ASSUME NEW t \in Transactions, NEW x \in Subjects, Exchange(t, x) PROVE Goal
  <2> DEFINE r == tx[t].request
             f == IF r.session = None THEN bound[x] ELSE None
  <2>1. t \in Running /\ Enter(t, r, "locking", f, x)
    BY <1>3 DEF Exchange, Running
  <2>2. Only(t) /\ tx'[t] = Entered(r, "locking", f, x) /\ DOMAIN tx' = Transactions
    BY <2>1 DEF Enter, Entered, Only, TxFormsOK
  <2>3. Move(t)
    BY <1>3, <2>1, <2>2 DEF Move
  <2> QED BY <1>0, <2>2, <2>3
<1>4. ASSUME NEW t \in Transactions, Acquire(t) PROVE Goal
  BY <1>0, <1>4, Acquiring DEF Move
<1>5. ASSUME NEW t \in Transactions, Purge(t) PROVE Goal
  <2>1. /\ t \in Running /\ Only(t) /\ DOMAIN tx' = Transactions
        /\ \E todo : /\ tx'[t] = Purging(t, todo) /\ Sequence(todo)
                     /\ \A l \in Elements(todo) : PurgeStep(l)
    BY <1>5, PurgeStarts
  <2>2. Move(t)
    BY <1>5, <2>1 DEF Move
  <2> QED BY <1>0, <2>1, <2>2
<1>6. ASSUME NEW t \in Transactions, Abort(t) \/ Commit(t) PROVE Goal
  BY <1>0, <1>6, Ending DEF Running
<1>7. ASSUME UNCHANGED tx PROVE Goal
  BY <1>7 DEF Move, Running, TxFormsOK
<1>8. ASSUME NEW u \in Users, Login(u) \/ Recover(u) PROVE Goal
  BY <1>7, <1>8 DEF Login, Recover
<1>9. ASSUME NEW s \in DOMAIN sessions, RevokeSession(s) PROVE Goal
  BY <1>7, <1>9 DEF RevokeSession
<1>10. ASSUME Age \/ UNCHANGED vars PROVE Goal
  BY <1>7, <1>10 DEF Age, vars
<1> HIDE DEF Goal
<1>11. Goal
  BY <1>1, <1>2, <1>3, <1>4, <1>5, <1>6, <1>8, <1>9, <1>10 DEF Next
<1> QED BY <1>11 DEF Goal

-----------------------------------------------------------------------------
(* What a step does to the rows *)

Vias == Subjects \cup {"password"}

\* The forms a change of the Sessions may have.
SessionsMove ==
    \/ sessions' = sessions
    \/ \E u \in Users, via \in Vias : sessions' = NewSession(u, via)
    \/ \E u \in Users : sessions' = Revoked(u)
    \/ \E s \in DOMAIN sessions, st \in {"old", "expired", "logout"} :
           InForce(s) /\ sessions' = [sessions EXCEPT ![s].status = st]

\* The forms a change of the invitations may have.
InvitationsMove ==
    \/ invitations' = invitations
    \/ \E i \in DOMAIN invitations : invitations' = [invitations EXCEPT ![i] = Consumed(i)]
    \/ \E i \in DOMAIN invitations :
           /\ invitations[i].status = "open"
           /\ invitations' = [invitations EXCEPT ![i].status = "expired"]
    \/ \E purged : \E u \in Users :
           invitations' = Append([i \in DOMAIN invitations |->
               IF i \in purged THEN [invitations[i] EXCEPT !.status = "gone"] ELSE invitations[i]],
               [creator |-> u, revision |-> member[u].revision, status |-> "open"])

\* The forms a change of the states may have.
StatesMove ==
    \/ states' = states
    \/ \E s \in Optional(DOMAIN sessions), i \in Optional(DOMAIN invitations) :
           /\ s # None => i = None
           /\ states' = Append(states, [session |-> s, invitation |-> i, status |-> "pending"])
    \/ \E k \in DOMAIN states :
           /\ states[k].status = "pending"
           /\ states' = [states EXCEPT ![k] = Taken(k)]
    \/ \E k \in DOMAIN states, st \in {"expired", "late"} :
           /\ states[k].status = IF st = "expired" THEN "pending" ELSE "taken"
           /\ states' = [states EXCEPT ![k].status = st]

\* Who an effect makes a user of, and with which Session, is known.
LEMMA Effects ==
    ASSUME NEW t \in Transactions, RowsOK, TxFormsOK, Commit(t)
    PROVE  SessionsMove /\ InvitationsMove /\ StatesMove
<1> DEFINE r == tx[t].request
<1>1. t \in Running /\ TxOK(t) /\ RequestOK(r) /\ tx[t].stage # "exchange" /\ Effect(t, r)
  BY DEF Commit, Running, TxFormsOK, TxOK
<1>2. r.session # None => sessions[r.session].user \in Users
  BY <1>1 DEF RowsOK, RequestOK, Optional, SessionRow
<1> HIDE DEF r
<1>3. ASSUME Bootstrap(r) \/ TransferOwner(r) PROVE UNCHANGED <<sessions, invitations, states>>
  BY <1>3 DEF Bootstrap, TransferOwner
<1>4. ASSUME CreateInvitation(t, r) PROVE UNCHANGED <<sessions, states>> /\ InvitationsMove
  <2>1. sessions[r.session].user \in Users
    BY <1>1, <1>2, <1>4 DEF CreateInvitation, RequestOK
  <2> QED BY <1>4, <2>1 DEF CreateInvitation, InvitationsMove
<1>5. ASSUME NEW u, Join(r.invitation, u), r.invitation # None PROVE InvitationsMove
  BY <1>1, <1>5 DEF Join, InvitationsMove, RequestOK, Optional
<1>6. ASSUME AcceptInvitation(r) PROVE UNCHANGED states /\ SessionsMove /\ InvitationsMove
  <2>1. r.invitation # None
    BY <1>1, <1>6 DEF AcceptInvitation, RequestOK
  <2>2. r.kind = "join" => r.user \in Users
    BY <1>1 DEF RequestOK, Optional
  <2> QED BY <1>5, <1>6, <2>1, <2>2 DEF AcceptInvitation, SessionsMove, Vias
<1>7. ASSUME UnlinkExternal(r) PROVE UNCHANGED <<invitations, states>> /\ SessionsMove
  <2>1. sessions[r.session].user \in Users
    BY <1>1, <1>2, <1>7 DEF UnlinkExternal, RequestOK
  <2> QED BY <1>7, <2>1 DEF UnlinkExternal, SessionsMove
<1>8. ASSUME BeginOIDC(r) PROVE UNCHANGED <<sessions, invitations>> /\ StatesMove
  BY <1>1, <1>8 DEF BeginOIDC, StatesMove, RequestOK
<1>9. ASSUME CompleteOIDC(t, r) PROVE UNCHANGED states /\ SessionsMove /\ InvitationsMove
  <2> DEFINE x == tx[t].subject
             u == IF tx[t].found = None THEN r.user ELSE tx[t].found
  <2>1. CASE r.session # None
    BY <1>9, <2>1 DEF CompleteOIDC, SessionsMove, InvitationsMove
  <2>2. CASE r.session = None
    <3>1. x \in Subjects /\ u \in Users
      BY <1>1, <1>9, <2>2 DEF CompleteOIDC, TxOK, RequestOK, Optional, r
    <3>2. UNCHANGED states /\ sessions' = NewSession(u, x)
      BY <1>9, <2>2 DEF CompleteOIDC
    <3>3. UNCHANGED invitations \/ (r.invitation # None /\ Join(r.invitation, u))
      BY <1>9, <2>2 DEF CompleteOIDC
    <3> HIDE DEF x, u
    <3> QED BY <1>5, <3>1, <3>2, <3>3 DEF SessionsMove, InvitationsMove, Vias
  <2> QED BY <2>1, <2>2
<1> QED
  BY <1>1, <1>3, <1>4, <1>6, <1>7, <1>8, <1>9 DEF Effect, SessionsMove, InvitationsMove, StatesMove

\* Every step changes the rows in one of those forms.
LEMMA RowsMove ==
    ASSUME RowsOK, TxFormsOK, [Next]_vars
    PROVE  SessionsMove /\ InvitationsMove /\ StatesMove
<1> DEFINE Goal == SessionsMove /\ InvitationsMove /\ StatesMove
<1>1. ASSUME UNCHANGED <<sessions, invitations, states>> PROVE Goal
  BY <1>1 DEF SessionsMove, InvitationsMove, StatesMove
<1> HIDE DEF Goal
<1>2. ASSUME NEW t \in Transactions,
             \/ Begin(t) \/ Acquire(t) \/ Purge(t) \/ Abort(t) \/ \E x \in Subjects : Exchange(t, x)
      PROVE  Goal
  BY <1>1, <1>2 DEF Begin, Acquire, Purge, Abort, Exchange, rows
<1>3. ASSUME NEW t \in Transactions, Commit(t) PROVE Goal
  BY <1>3, Effects DEF Goal
<1>4. ASSUME NEW t \in Transactions, NEW k \in DOMAIN states, ConsumeState(t, k) PROVE Goal
  BY <1>4 DEF ConsumeState, Goal, SessionsMove, InvitationsMove, StatesMove
<1>5. ASSUME NEW u \in Users, Login(u) \/ Recover(u) PROVE Goal
  BY <1>5 DEF Login, Recover, Vias, Goal, SessionsMove, InvitationsMove, StatesMove
<1>6. ASSUME NEW s \in DOMAIN sessions, RevokeSession(s) PROVE Goal
  BY <1>6 DEF RevokeSession, Goal, SessionsMove, InvitationsMove, StatesMove
<1>7. ASSUME Age PROVE Goal
  <2>1. ASSUME NEW s \in DOMAIN sessions, InForce(s),
               sessions' = [sessions EXCEPT ![s].status = IF @ = "recent" THEN "old" ELSE "expired"]
        PROVE  SessionsMove
    <3>1. \E st \in {"old", "expired"} : sessions' = [sessions EXCEPT ![s].status = st]
      BY <2>1
    <3> QED BY <2>1, <3>1 DEF SessionsMove
  <2>2. ASSUME NEW k \in DOMAIN states, states[k].status \in {"pending", "taken"},
               states' = [states EXCEPT ![k].status = IF @ = "pending" THEN "expired" ELSE "late"]
        PROVE  StatesMove
    BY <2>2 DEF StatesMove
  <2>3. ASSUME NEW i \in DOMAIN invitations, invitations[i].status = "open",
               invitations' = [invitations EXCEPT ![i].status = "expired"]
        PROVE  InvitationsMove
    BY <2>3 DEF InvitationsMove
  <2>4. UNCHANGED sessions => SessionsMove
    BY DEF SessionsMove
  <2>5. UNCHANGED invitations => InvitationsMove
    BY DEF InvitationsMove
  <2>6. UNCHANGED states => StatesMove
    BY DEF StatesMove
  <2> QED BY <1>7, <2>1, <2>2, <2>3, <2>4, <2>5, <2>6 DEF Age, Goal
<1>8. UNCHANGED vars => Goal
  BY <1>1 DEF vars, rows
<1>9. Goal
  BY <1>2, <1>3, <1>4, <1>5, <1>6, <1>7, <1>8 DEF Next
<1> QED BY <1>9 DEF Goal

\* What stays with a Session, an invitation and a state. Nothing comes into force again.
Keeps ==
    /\ DOMAIN sessions \subseteq DOMAIN sessions'
    /\ \A s \in DOMAIN sessions :
           /\ sessions'[s].user = sessions[s].user /\ sessions'[s].via = sessions[s].via
           /\ InForce(s)' => InForce(s)
    /\ DOMAIN invitations \subseteq DOMAIN invitations'
    /\ \A i \in DOMAIN invitations :
           /\ invitations'[i].creator = invitations[i].creator
           /\ invitations'[i].revision = invitations[i].revision
           /\ invitations'[i].status = "open" => invitations[i].status = "open"
    /\ DOMAIN states \subseteq DOMAIN states'
    /\ \A k \in DOMAIN states :
           /\ states'[k].session = states[k].session /\ states'[k].invitation = states[k].invitation
           /\ states[k].status \in {"taken", "late"} => states'[k].status \in {"taken", "late"}
           /\ states'[k].status = "pending" => states[k].status = "pending"

\* What a new status leaves of a row.
LEMMA StatusWritten ==
    \A row \in InvitationRow : \A st \in {"open", "expired", "consumed", "gone"} :
        LET new == [row EXCEPT !.status = st]
        IN  /\ new \in InvitationRow /\ new.creator = row.creator /\ new.revision = row.revision
            /\ new.status = st
BY DEF InvitationRow

\* Sessions keep their user, and none comes back into force.
LEMMA SessionsKept ==
    ASSUME RowsOK, SessionsMove
    PROVE  /\ Sequence(sessions') /\ \A s \in DOMAIN sessions' : sessions'[s] \in SessionRow
           /\ DOMAIN sessions \subseteq DOMAIN sessions'
           /\ \A s \in DOMAIN sessions :
                 /\ sessions'[s].user = sessions[s].user /\ sessions'[s].via = sessions[s].via
                 /\ InForce(s)' => InForce(s)
<1>0. /\ Sequence(sessions) /\ \A s \in DOMAIN sessions : sessions[s] \in SessionRow
      /\ Len(sessions) \in Nat /\ DOMAIN sessions = 1..Len(sessions)
  BY SequenceDomain DEF RowsOK
<1>1. CASE sessions' = sessions
  BY <1>0, <1>1 DEF InForce
<1>2. ASSUME NEW u \in Users, NEW via \in Vias, sessions' = NewSession(u, via)
      PROVE  /\ Sequence(sessions') /\ DOMAIN sessions' = DOMAIN sessions \cup {Len(sessions) + 1}
             /\ \A s \in DOMAIN sessions : sessions'[s] = sessions[s]
             /\ sessions'[Len(sessions) + 1] = [user |-> u, via |-> via, status |-> "recent"]
  BY <1>0, <1>2, Appended DEF NewSession
<1>3. ASSUME NEW u \in Users, sessions' = Revoked(u)
      PROVE  /\ Sequence(sessions') /\ DOMAIN sessions' = DOMAIN sessions
             /\ \A s \in DOMAIN sessions :
                   \/ sessions'[s] = sessions[s]
                   \/ sessions'[s] = [sessions[s] EXCEPT !.status = "revoked"]
  <2>1. DOMAIN sessions' = 1..Len(sessions) /\ sessions' = [s \in 1..Len(sessions) |-> sessions'[s]]
    BY <1>0, <1>3 DEF Revoked
  <2> QED BY <1>0, <1>3, <2>1, SequenceFrom DEF Revoked
<1>4. ASSUME NEW s \in DOMAIN sessions, NEW st \in {"old", "expired", "logout"}, InForce(s),
             sessions' = [sessions EXCEPT ![s].status = st]
      PROVE  /\ Sequence(sessions') /\ DOMAIN sessions' = DOMAIN sessions
             /\ sessions'[s] = [sessions[s] EXCEPT !.status = st]
             /\ \A q \in DOMAIN sessions : q # s => sessions'[q] = sessions[q]
  <2> DEFINE new == [sessions[s] EXCEPT !.status = st]
  <2>1. sessions' = [sessions EXCEPT ![s] = new]
    BY <1>4
  <2> HIDE DEF new
  <2>2. Sequence(sessions') /\ DOMAIN sessions' = DOMAIN sessions
    BY <1>0, <2>1, Replaced
  <2>3. sessions'[s] = new /\ \A q \in DOMAIN sessions : q # s => sessions'[q] = sessions[q]
    BY <1>0, <2>1, Replaced
  <2> QED BY <2>2, <2>3 DEF new
<1>5. CASE \E u \in Users, via \in Vias : sessions' = NewSession(u, via)
  <2>1. PICK u \in Users, via \in Vias : sessions' = NewSession(u, via)
    BY <1>5
  <2> DEFINE new == [user |-> u, via |-> via, status |-> "recent"]
  <2>2. new \in SessionRow
    BY DEF SessionRow, Vias
  <2> HIDE DEF new
  <2>3. /\ Sequence(sessions') /\ DOMAIN sessions' = DOMAIN sessions \cup {Len(sessions) + 1}
        /\ \A s \in DOMAIN sessions : sessions'[s] = sessions[s]
        /\ sessions'[Len(sessions) + 1] = new
    BY <1>2, <2>1 DEF new
  <2> QED BY <1>0, <2>2, <2>3 DEF InForce
<1>6. CASE \E u \in Users : sessions' = Revoked(u)
  <2>1. PICK u \in Users : sessions' = Revoked(u)
    BY <1>6
  <2>2. /\ Sequence(sessions') /\ DOMAIN sessions' = DOMAIN sessions
        /\ \A s \in DOMAIN sessions :
              \/ sessions'[s] = sessions[s]
              \/ sessions'[s] = [sessions[s] EXCEPT !.status = "revoked"]
    BY <1>3, <2>1
  <2>3. ASSUME NEW s \in DOMAIN sessions
        PROVE  /\ sessions'[s] \in SessionRow
               /\ sessions'[s].user = sessions[s].user /\ sessions'[s].via = sessions[s].via
               /\ sessions'[s].status \in {sessions[s].status, "revoked"}
    <3> DEFINE new == [sessions[s] EXCEPT !.status = "revoked"]
    <3>1. /\ new \in SessionRow /\ new.status = "revoked"
          /\ new.user = sessions[s].user /\ new.via = sessions[s].via
      BY <1>0 DEF SessionRow
    <3>2. sessions'[s] = sessions[s] \/ sessions'[s] = new
      BY <2>2
    <3> HIDE DEF new
    <3> QED BY <1>0, <3>1, <3>2
  <2> QED BY <1>0, <2>2, <2>3 DEF InForce
<1>7. CASE \E s \in DOMAIN sessions, st \in {"old", "expired", "logout"} :
               InForce(s) /\ sessions' = [sessions EXCEPT ![s].status = st]
  <2>1. PICK s \in DOMAIN sessions, st \in {"old", "expired", "logout"} :
               InForce(s) /\ sessions' = [sessions EXCEPT ![s].status = st]
    BY <1>7
  <2>2. /\ Sequence(sessions') /\ DOMAIN sessions' = DOMAIN sessions
        /\ sessions'[s] = [sessions[s] EXCEPT !.status = st]
        /\ \A q \in DOMAIN sessions : q # s => sessions'[q] = sessions[q]
    BY <1>4, <2>1
  <2>3. /\ sessions'[s] \in SessionRow
        /\ sessions'[s].user = sessions[s].user /\ sessions'[s].via = sessions[s].via
    <3> DEFINE new == [sessions[s] EXCEPT !.status = st]
    <3>1. new \in SessionRow /\ new.user = sessions[s].user /\ new.via = sessions[s].via
      BY <1>0 DEF SessionRow
    <3>2. sessions'[s] = new
      BY <2>2
    <3> HIDE DEF new
    <3> QED BY <3>1, <3>2
  <2> QED BY <1>0, <2>1, <2>2, <2>3 DEF InForce
<1> QED BY <1>1, <1>5, <1>6, <1>7 DEF SessionsMove

\* Invitations keep their inviter and term, and none is opened again.
LEMMA InvitationsKept ==
    ASSUME RowsOK, InvitationsMove
    PROVE  /\ Sequence(invitations') /\ \A i \in DOMAIN invitations' : invitations'[i] \in InvitationRow
           /\ DOMAIN invitations \subseteq DOMAIN invitations'
           /\ \A i \in DOMAIN invitations :
                 /\ invitations'[i].creator = invitations[i].creator
                 /\ invitations'[i].revision = invitations[i].revision
                 /\ invitations'[i].status = "open" => invitations[i].status = "open"
<1>0. /\ Sequence(invitations) /\ \A i \in DOMAIN invitations : invitations[i] \in InvitationRow
      /\ Len(invitations) \in Nat /\ DOMAIN invitations = 1..Len(invitations)
  BY SequenceDomain DEF RowsOK
<1>1. CASE invitations' = invitations
  BY <1>0, <1>1
<1>2. ASSUME NEW i \in DOMAIN invitations, NEW new, invitations' = [invitations EXCEPT ![i] = new]
      PROVE  /\ Sequence(invitations') /\ DOMAIN invitations' = DOMAIN invitations
             /\ invitations'[i] = new
             /\ \A q \in DOMAIN invitations : q # i => invitations'[q] = invitations[q]
  BY <1>0, <1>2, Replaced
<1>3. CASE \E i \in DOMAIN invitations : invitations' = [invitations EXCEPT ![i] = Consumed(i)]
  <2>1. PICK i \in DOMAIN invitations : invitations' = [invitations EXCEPT ![i] = Consumed(i)]
    BY <1>3
  <2> DEFINE new == Consumed(i)
  <2>2. /\ new \in InvitationRow /\ new.status = "consumed"
        /\ new.creator = invitations[i].creator /\ new.revision = invitations[i].revision
    BY <1>0, StatusWritten DEF Consumed
  <2> HIDE DEF new
  <2>3. /\ Sequence(invitations') /\ DOMAIN invitations' = DOMAIN invitations
        /\ invitations'[i] = new
        /\ \A q \in DOMAIN invitations : q # i => invitations'[q] = invitations[q]
    BY <1>2, <2>1 DEF new
  <2> QED BY <1>0, <2>2, <2>3
<1>4. CASE \E i \in DOMAIN invitations :
               /\ invitations[i].status = "open"
               /\ invitations' = [invitations EXCEPT ![i].status = "expired"]
  <2>1. PICK i \in DOMAIN invitations :
               invitations' = [invitations EXCEPT ![i] = [invitations[i] EXCEPT !.status = "expired"]]
    BY <1>4
  <2> DEFINE new == [invitations[i] EXCEPT !.status = "expired"]
  <2>2. /\ new \in InvitationRow /\ new.status = "expired"
        /\ new.creator = invitations[i].creator /\ new.revision = invitations[i].revision
    BY <1>0, StatusWritten
  <2> HIDE DEF new
  <2>3. /\ Sequence(invitations') /\ DOMAIN invitations' = DOMAIN invitations
        /\ invitations'[i] = new
        /\ \A q \in DOMAIN invitations : q # i => invitations'[q] = invitations[q]
    BY <1>2, <2>1 DEF new
  <2> QED BY <1>0, <2>2, <2>3
<1>5. CASE \E purged : \E u \in Users :
               invitations' = Append([i \in DOMAIN invitations |->
                   IF i \in purged THEN [invitations[i] EXCEPT !.status = "gone"] ELSE invitations[i]],
                   [creator |-> u, revision |-> member[u].revision, status |-> "open"])
  <2>1. PICK purged : \E u \in Users :
               invitations' = Append([i \in DOMAIN invitations |->
                   IF i \in purged THEN [invitations[i] EXCEPT !.status = "gone"] ELSE invitations[i]],
                   [creator |-> u, revision |-> member[u].revision, status |-> "open"])
    BY <1>5
  <2> DEFINE old == [i \in DOMAIN invitations |->
                 IF i \in purged THEN [invitations[i] EXCEPT !.status = "gone"] ELSE invitations[i]]
  <2>2. PICK u \in Users : invitations' = Append(old, [creator |-> u, revision |-> member[u].revision,
                                                       status |-> "open"])
    BY <2>1
  <2>3. Sequence(old) /\ Len(old) = Len(invitations)
    <3>1. old = [i \in 1..Len(invitations) |-> old[i]]
      BY <1>0
    <3> HIDE DEF old
    <3> QED BY <1>0, <3>1, SequenceFrom
  <2>4. /\ DOMAIN old = DOMAIN invitations
        /\ \A i \in DOMAIN invitations :
               old[i] = invitations[i] \/ old[i] = [invitations[i] EXCEPT !.status = "gone"]
    OBVIOUS
  <2> DEFINE new == [creator |-> u, revision |-> member[u].revision, status |-> "open"]
  <2>5. new \in InvitationRow
    BY DEF RowsOK, InvitationRow
  <2> HIDE DEF old, new
  <2>6. invitations' = Append(old, new)
    BY <2>2 DEF new
  <2>7. /\ Sequence(invitations') /\ DOMAIN invitations' = DOMAIN invitations \cup {Len(old) + 1}
        /\ \A i \in DOMAIN invitations : invitations'[i] = old[i]
        /\ invitations'[Len(old) + 1] = new
    BY <2>3, <2>4, <2>6, Appended
  <2> QED BY <1>0, <2>4, <2>5, <2>7 DEF InvitationRow
<1> QED BY <1>1, <1>3, <1>4, <1>5 DEF InvitationsMove

\* States keep what they are for, and none becomes pending again.
LEMMA StatesKept ==
    ASSUME RowsOK, StatesMove
    PROVE  /\ Sequence(states') /\ DOMAIN states \subseteq DOMAIN states'
           /\ \A k \in DOMAIN states' :
                 /\ states'[k] \in StateRow
                 /\ states'[k].session # None => states'[k].invitation = None
           /\ \A k \in DOMAIN states :
                 /\ states'[k].session = states[k].session
                 /\ states'[k].invitation = states[k].invitation
                 /\ states[k].status \in {"taken", "late"} => states'[k].status \in {"taken", "late"}
                 /\ states'[k].status = "pending" => states[k].status = "pending"
<1>0. /\ Sequence(states) /\ Len(states) \in Nat /\ DOMAIN states = 1..Len(states)
      /\ \A k \in DOMAIN states :
            states[k] \in StateRow /\ (states[k].session # None => states[k].invitation = None)
  BY SequenceDomain DEF RowsOK
<1>1. CASE states' = states
  BY <1>0, <1>1
<1>2. CASE \E s \in Optional(DOMAIN sessions), i \in Optional(DOMAIN invitations) :
               /\ s # None => i = None
               /\ states' = Append(states, [session |-> s, invitation |-> i, status |-> "pending"])
  <2>1. PICK s \in Optional(DOMAIN sessions), i \in Optional(DOMAIN invitations) :
               /\ s # None => i = None
               /\ states' = Append(states, [session |-> s, invitation |-> i, status |-> "pending"])
    BY <1>2
  <2> DEFINE new == [session |-> s, invitation |-> i, status |-> "pending"]
  <2>2. new \in StateRow /\ (new.session # None => new.invitation = None)
    BY <2>1 DEF StateRow
  <2>3. states' = Append(states, new)
    BY <2>1
  <2> HIDE DEF new
  <2>4. /\ Sequence(states') /\ DOMAIN states' = DOMAIN states \cup {Len(states) + 1}
        /\ \A k \in DOMAIN states : states'[k] = states[k]
        /\ states'[Len(states) + 1] = new
    BY <1>0, <2>3, Appended
  <2> QED BY <1>0, <2>2, <2>4
<1>3. ASSUME NEW k \in DOMAIN states, NEW st \in {"taken", "expired", "late"},
             states[k].status \in {"pending", "taken"},
             st = "expired" => states[k].status = "pending",
             states' = [states EXCEPT ![k] = [states[k] EXCEPT !.status = st]]
      PROVE  /\ Sequence(states') /\ DOMAIN states' = DOMAIN states
             /\ states'[k] \in StateRow
             /\ states'[k].session = states[k].session /\ states'[k].invitation = states[k].invitation
             /\ states[k].status \in {"taken", "late"} => states'[k].status \in {"taken", "late"}
             /\ states'[k].status # "pending"
             /\ \A q \in DOMAIN states : q # k => states'[q] = states[q]
  <2> DEFINE new == [states[k] EXCEPT !.status = st]
  <2>1. /\ new \in StateRow /\ new.status = st
        /\ new.session = states[k].session /\ new.invitation = states[k].invitation
    BY <1>0, <1>3 DEF StateRow
  <2> HIDE DEF new
  <2>2. states' = [states EXCEPT ![k] = new]
    BY <1>3 DEF new
  <2>3. /\ Sequence(states') /\ DOMAIN states' = DOMAIN states /\ states'[k] = new
        /\ \A q \in DOMAIN states : q # k => states'[q] = states[q]
    BY <1>0, <2>2, Replaced
  <2> QED BY <1>3, <2>1, <2>3
<1>4. CASE \E k \in DOMAIN states :
               /\ states[k].status = "pending"
               /\ states' = [states EXCEPT ![k] = Taken(k)]
  <2>1. PICK k \in DOMAIN states :
               /\ states[k].status = "pending"
               /\ states' = [states EXCEPT ![k] = [states[k] EXCEPT !.status = "taken"]]
    BY <1>4 DEF Taken
  <2> QED BY <1>0, <1>3, <2>1
<1>5. CASE \E k \in DOMAIN states, st \in {"expired", "late"} :
               /\ states[k].status = IF st = "expired" THEN "pending" ELSE "taken"
               /\ states' = [states EXCEPT ![k].status = st]
  <2>1. PICK k \in DOMAIN states, st \in {"expired", "late"} :
               /\ states[k].status = IF st = "expired" THEN "pending" ELSE "taken"
               /\ states' = [states EXCEPT ![k] = [states[k] EXCEPT !.status = st]]
    BY <1>5
  <2> QED BY <1>0, <1>3, <2>1
<1> QED BY <1>1, <1>2, <1>4, <1>5 DEF StatesMove

\* So it is for every step.
LEMMA Kept ==
    ASSUME RowsOK, TxFormsOK, [Next]_vars
    PROVE  Keeps
<1>1. SessionsMove /\ InvitationsMove /\ StatesMove
  BY RowsMove
<1>2. /\ DOMAIN sessions \subseteq DOMAIN sessions'
      /\ \A s \in DOMAIN sessions :
            /\ sessions'[s].user = sessions[s].user /\ sessions'[s].via = sessions[s].via
            /\ InForce(s)' => InForce(s)
  BY <1>1, SessionsKept
<1>3. /\ DOMAIN invitations \subseteq DOMAIN invitations'
      /\ \A i \in DOMAIN invitations :
            /\ invitations'[i].creator = invitations[i].creator
            /\ invitations'[i].revision = invitations[i].revision
            /\ invitations'[i].status = "open" => invitations[i].status = "open"
  BY <1>1, InvitationsKept
<1>4. /\ DOMAIN states \subseteq DOMAIN states'
      /\ \A k \in DOMAIN states :
            /\ states'[k].session = states[k].session
            /\ states'[k].invitation = states[k].invitation
            /\ states[k].status \in {"taken", "late"} => states'[k].status \in {"taken", "late"}
            /\ states'[k].status = "pending" => states[k].status = "pending"
  BY <1>1, StatesKept
<1> QED BY <1>2, <1>3, <1>4 DEF Keeps

MemberRow == [role : {"none", "member", "owner"}, revision : 1..MaxRevision]

\* Whom an effect admits, if it admits anybody.
Admitted(t) ==
    LET r == tx[t].request
    IN  IF r.session # None THEN sessions[r.session].user
        ELSE IF tx[t].found # None THEN tx[t].found ELSE r.user

\* What an effect does to accounts and members, kind by kind.
LEMMA EffectFacts ==
    ASSUME NEW t \in Transactions, RowsOK, TxFormsOK, Commit(t)
    PROVE  LET r == tx[t].request
               u == Admitted(t)
           IN  /\ t \in Running /\ TxOK(t) /\ RequestOK(r)
               /\ r.kind # "start" => u \in Users
               /\ r.kind = "callback" => tx[t].subject \in Subjects
               /\ \/ /\ Bootstrap(r) /\ r.session = None /\ tx[t].found = None /\ r.user = u
                  \/ CreateInvitation(t, r)
                  \/ /\ r.kind \in {"accept", "join"} /\ r.invitation # None /\ Join(r.invitation, u)
                     /\ password' = IF r.kind = "join" THEN password \cup {u} ELSE password
                     /\ sessions' = IF r.kind = "join" THEN NewSession(u, "password") ELSE sessions
                     /\ r.kind = "join" => u = r.user
                     /\ r.kind = "accept" => r.session # None
                     /\ UNCHANGED <<bound, states>>
                  \/ UnlinkExternal(r)
                  \/ BeginOIDC(r)
                  \/ /\ r.kind = "callback" /\ r.session # None
                     /\ bound' = [bound EXCEPT ![tx[t].subject] = u]
                     /\ UNCHANGED <<password, member, sessions, invitations, states, joined>>
                  \/ /\ r.kind = "callback" /\ r.session = None
                     /\ bound' = IF tx[t].found = None THEN [bound EXCEPT ![tx[t].subject] = u] ELSE bound
                     /\ sessions' = NewSession(u, tx[t].subject)
                     /\ tx[t].found = None => u = r.user /\ r.invitation # None
                     /\ \/ r.invitation = None /\ UNCHANGED <<member, invitations, joined>>
                        \/ r.invitation # None /\ Join(r.invitation, u)
                     /\ UNCHANGED <<password, states>>
                  \/ TransferOwner(r) /\ MayHandOver(r)
<1> DEFINE r == tx[t].request
           u == Admitted(t)
<1>1. t \in Running /\ TxOK(t) /\ RequestOK(r) /\ tx[t].stage # "exchange" /\ Effect(t, r) /\ Valid(t)
  BY DEF Commit, Running, TxFormsOK, TxOK
<1>2. r.session # None => sessions[r.session].user \in Users
  BY <1>1 DEF RowsOK, RequestOK, Optional, SessionRow
<1>3. /\ tx[t].found # None => r.kind = "callback" /\ r.session = None
      /\ tx[t].found \in Optional(Users)
      /\ r.kind = "callback" => /\ tx[t].subject \in Subjects
                                /\ r.session = None /\ tx[t].found = None => r.user # None /\ r.invitation # None
  BY <1>1 DEF TxOK
<1>4. u = IF r.session # None THEN sessions[r.session].user
          ELSE IF tx[t].found # None THEN tx[t].found ELSE r.user
  BY DEF Admitted
<1> HIDE DEF r, u
<1>5. r.kind # "start" => u \in Users
  BY <1>1, <1>2, <1>3, <1>4 DEF RequestOK, Optional
<1>6. ASSUME Bootstrap(r) PROVE r.session = None /\ tx[t].found = None /\ r.user = u
  BY <1>1, <1>3, <1>4, <1>6 DEF Bootstrap, RequestOK
<1>7. ASSUME AcceptInvitation(r)
      PROVE  /\ r.kind \in {"accept", "join"} /\ r.invitation # None /\ Join(r.invitation, u)
             /\ password' = IF r.kind = "join" THEN password \cup {u} ELSE password
             /\ sessions' = IF r.kind = "join" THEN NewSession(u, "password") ELSE sessions
             /\ r.kind = "join" => u = r.user
             /\ r.kind = "accept" => r.session # None
             /\ UNCHANGED <<bound, states>>
  <2>1. CASE r.kind = "accept"
    BY <1>1, <1>3, <1>4, <1>7, <2>1 DEF AcceptInvitation, RequestOK
  <2>2. CASE r.kind = "join"
    BY <1>1, <1>3, <1>4, <1>7, <2>2 DEF AcceptInvitation, RequestOK
  <2> QED BY <1>7, <2>1, <2>2 DEF AcceptInvitation
<1>8. ASSUME CompleteOIDC(t, r), r.session # None
      PROVE  /\ r.kind = "callback"
             /\ bound' = [bound EXCEPT ![tx[t].subject] = u]
             /\ UNCHANGED <<password, member, sessions, invitations, states, joined>>
  BY <1>4, <1>8 DEF CompleteOIDC
<1>9. ASSUME CompleteOIDC(t, r), r.session = None
      PROVE  /\ r.kind = "callback"
             /\ bound' = IF tx[t].found = None THEN [bound EXCEPT ![tx[t].subject] = u] ELSE bound
             /\ sessions' = NewSession(u, tx[t].subject)
             /\ tx[t].found = None => u = r.user /\ r.invitation # None
             /\ \/ r.invitation = None /\ UNCHANGED <<member, invitations, joined>>
                \/ r.invitation # None /\ Join(r.invitation, u)
             /\ UNCHANGED <<password, states>>
  BY <1>3, <1>4, <1>9 DEF CompleteOIDC
<1>10. ASSUME TransferOwner(r) PROVE MayHandOver(r)
  BY <1>1, <1>10 DEF TransferOwner, Valid, r
<1> QED
  BY <1>1, <1>3, <1>5, <1>6, <1>7, <1>8, <1>9, <1>10 DEF Effect, r, u

SmallRowsOK ==
    /\ menu \in Menus /\ password \subseteq Users
    /\ bound \in [Subjects -> Optional(Users)] /\ member \in [Users -> MemberRow]

\* An admission keeps members what they are and uses up the invitation.
LEMMA Joining ==
    ASSUME NEW i \in DOMAIN invitations, NEW u \in Users, RowsOK, Join(i, u)
    PROVE  /\ member' \in [Users -> MemberRow]
           /\ member'[u].role # "none"
           /\ member[u].role # "none" => member'[u] = member[u]
           /\ member[u].role = "none" => member'[u].role = "member"
           /\ \A v \in Users : v # u => member'[v] = member[v]
           /\ DOMAIN invitations' = DOMAIN invitations
           /\ invitations'[i].status = "consumed"
           /\ \A q \in DOMAIN invitations : q # i => invitations'[q] = invitations[q]
           /\ joined' = joined \cup {<<i, u>>} /\ joined' \subseteq (DOMAIN invitations) \X Users
<1>1. member \in [Users -> MemberRow] /\ Sequence(invitations) /\ invitations[i] \in InvitationRow
  BY DEF RowsOK, MemberRow
<1> DEFINE new == [member[u] EXCEPT !.role = "member"]
<1>2. new \in MemberRow /\ new.role = "member"
  BY <1>1 DEF MemberRow
<1>3. member' = IF member[u].role = "none" THEN [member EXCEPT ![u] = new] ELSE member
  BY DEF Join
<1> HIDE DEF new
<1>4. /\ member' \in [Users -> MemberRow]
      /\ member'[u].role # "none"
      /\ member[u].role # "none" => member'[u] = member[u]
      /\ member[u].role = "none" => member'[u].role = "member"
      /\ \A v \in Users : v # u => member'[v] = member[v]
  BY <1>1, <1>2, <1>3
<1> DEFINE used == Consumed(i)
<1>5. used.status = "consumed"
  BY <1>1 DEF Consumed, InvitationRow
<1>6. invitations' = [invitations EXCEPT ![i] = used]
  BY DEF Join
<1> HIDE DEF used
<1>7. /\ DOMAIN invitations' = DOMAIN invitations
      /\ invitations'[i].status = "consumed"
      /\ \A q \in DOMAIN invitations : q # i => invitations'[q] = invitations[q]
  BY <1>1, <1>5, <1>6, Replaced
<1> QED BY <1>4, <1>7 DEF Join, RowsOK

\* A hand-over exchanges two roles.
LEMMA HandedOver ==
    ASSUME NEW r, RowsOK, RequestOK(r), TransferOwner(r), MayHandOver(r)
    PROVE  LET u == sessions[r.session].user
           IN  /\ u \in Users /\ r.target \in Users /\ r.target # u
               /\ member[u].role = "owner" /\ member[r.target].role = "member"
               /\ member' \in [Users -> MemberRow]
               /\ member'[u].role = "member" /\ member'[r.target].role = "owner"
               /\ \A w \in Users : w \notin {u, r.target} => member'[w] = member[w]
<1> DEFINE u == sessions[r.session].user
<1>1. /\ r.kind = "transfer" /\ r.session \in DOMAIN sessions /\ r.target \in Users
      /\ member \in [Users -> MemberRow]
  BY DEF TransferOwner, RequestOK, Optional, RowsOK, MemberRow
<1>2. u \in Users /\ r.target # u
  BY <1>1 DEF RowsOK, SessionRow, RequestOK
<1>3. /\ member[u].role = "owner" /\ member[r.target].role = "member"
      /\ member[u].revision < MaxRevision /\ member[r.target].revision < MaxRevision
  BY DEF MayHandOver
<1>4. MaxRevision \in Nat
  BY IdentitiesAssumption
<1> DEFINE new(w) == [role |-> IF w = u THEN "member" ELSE "owner", revision |-> member[w].revision + 1]
<1>5. \A w \in {u, r.target} : new(w) \in MemberRow
  <2>1. \A w \in {u, r.target} : member[w].revision \in 1..MaxRevision /\ member[w].revision < MaxRevision
    BY <1>1, <1>2, <1>3 DEF MemberRow
  <2>2. \A w \in {u, r.target} : member[w].revision + 1 \in 1..MaxRevision
    BY <1>4, <2>1
  <2> QED BY <2>2 DEF MemberRow
<1>6. new(u).role = "member" /\ new(r.target).role = "owner"
  BY <1>2
<1>7. member' = [w \in Users |-> IF w \in {u, r.target} THEN new(w) ELSE member[w]]
  BY DEF TransferOwner
<1> HIDE DEF new
<1> QED BY <1>1, <1>2, <1>3, <1>5, <1>6, <1>7

\* Rows keep their form.
LEMMA RowsKept ==
    ASSUME RowsOK, TxFormsOK, [Next]_vars
    PROVE  RowsOK'
<1> DEFINE Goal == SmallRowsOK' /\ joined' \subseteq (DOMAIN invitations') \X Users
<1>0. SmallRowsOK /\ joined \subseteq (DOMAIN invitations) \X Users /\ Keeps
  BY Kept DEF RowsOK, SmallRowsOK, MemberRow
<1>1. ASSUME UNCHANGED <<menu, password, bound, member, joined>> PROVE Goal
  BY <1>0, <1>1 DEF SmallRowsOK, Keeps
<1>2. ASSUME NEW t \in Transactions, Commit(t) PROVE Goal
  <2> DEFINE r == tx[t].request
             u == Admitted(t)
             x == tx[t].subject
  <2>1. /\ RequestOK(r)
        /\ r.kind # "start" => u \in Users
        /\ r.kind = "callback" => x \in Subjects
        /\ UNCHANGED menu
    BY <1>2, EffectFacts DEF Commit
  <2>2. ASSUME UNCHANGED <<password, bound, member, joined>> PROVE Goal
    BY <1>1, <2>1, <2>2
  <2>3. r.invitation # None => r.invitation \in DOMAIN invitations
    BY <1>2, EffectFacts DEF RequestOK, Optional
  <2>4. ASSUME r.invitation # None, u \in Users, Join(r.invitation, u)
        PROVE  member' \in [Users -> MemberRow] /\ joined' \subseteq (DOMAIN invitations') \X Users
    BY <2>3, <2>4, Joining
  <2>5. ASSUME Bootstrap(r), r.user = u PROVE Goal
    <3>1. u \in Users
      BY <2>1, <2>5 DEF Bootstrap
    <3>2. [member[u] EXCEPT !.role = "owner"] \in MemberRow
      BY <1>0, <3>1 DEF SmallRowsOK, MemberRow
    <3>3. member' = [member EXCEPT ![u] = [member[u] EXCEPT !.role = "owner"]]
      BY <2>5 DEF Bootstrap
    <3>4. member' \in [Users -> MemberRow]
      BY <1>0, <3>2, <3>3 DEF SmallRowsOK
    <3> QED BY <1>0, <2>1, <2>5, <3>1, <3>4 DEF Bootstrap, SmallRowsOK
  <2>6. ASSUME CreateInvitation(t, r) PROVE Goal
    BY <1>0, <2>1, <2>6 DEF CreateInvitation, SmallRowsOK, Keeps
  <2>7. ASSUME UnlinkExternal(r) PROVE Goal
    BY <1>0, <2>1, <2>7 DEF UnlinkExternal, SmallRowsOK, Keeps, Optional
  <2>8. ASSUME BeginOIDC(r) PROVE Goal
    BY <2>2, <2>8 DEF BeginOIDC
  <2>9. ASSUME TransferOwner(r), MayHandOver(r) PROVE Goal
    <3>1. member' \in [Users -> MemberRow]
      BY <2>1, <2>9, HandedOver
    <3> QED BY <1>0, <2>1, <2>9, <3>1 DEF TransferOwner, SmallRowsOK
  <2>10. ASSUME r.kind \in {"accept", "join"}, r.invitation # None, Join(r.invitation, u),
                password' = IF r.kind = "join" THEN password \cup {u} ELSE password,
                UNCHANGED <<bound, states>>
         PROVE  Goal
    BY <1>0, <2>1, <2>4, <2>10 DEF SmallRowsOK
  <2>11. ASSUME r.kind = "callback", bound' \in {bound, [bound EXCEPT ![x] = u]}, UNCHANGED password,
                \/ UNCHANGED <<member, invitations, joined>>
                \/ r.invitation # None /\ Join(r.invitation, u)
         PROVE  Goal
    <3>1. bound' \in [Subjects -> Optional(Users)]
      BY <1>0, <2>1, <2>11 DEF SmallRowsOK, Optional
    <3>2. member' \in [Users -> MemberRow] /\ joined' \subseteq (DOMAIN invitations') \X Users
      BY <1>0, <2>1, <2>4, <2>11 DEF SmallRowsOK
    <3> QED BY <1>0, <2>1, <2>11, <3>1, <3>2 DEF SmallRowsOK
  <2> HIDE DEF Goal, r, u, x
  <2> QED BY <1>2, <2>2, <2>5, <2>6, <2>7, <2>8, <2>9, <2>10, <2>11, EffectFacts DEF r, u, x
<1>3. ASSUME NEW t \in Transactions,
             \/ Begin(t) \/ Acquire(t) \/ Purge(t) \/ Abort(t)
             \/ \E x \in Subjects : Exchange(t, x)
             \/ \E k \in DOMAIN states : ConsumeState(t, k)
      PROVE  Goal
  BY <1>1, <1>3 DEF Begin, Acquire, Purge, Abort, Exchange, ConsumeState, rows
<1>4. ASSUME NEW u, Login(u) \/ Recover(u) \/ RevokeSession(u) \/ Age PROVE Goal
  BY <1>1, <1>4 DEF Login, Recover, RevokeSession, Age
<1>5. ASSUME UNCHANGED vars PROVE Goal
  BY <1>1, <1>5 DEF vars, rows
<1> HIDE DEF Goal
<1>6. Goal
  BY <1>2, <1>3, <1>4, <1>5 DEF Next
<1>7. SessionsMove /\ InvitationsMove /\ StatesMove
  BY RowsMove
<1>8. Sequence(sessions') /\ \A s \in DOMAIN sessions' : sessions'[s] \in SessionRow
  BY <1>7, SessionsKept
<1>9. Sequence(invitations') /\ \A i \in DOMAIN invitations' : invitations'[i] \in InvitationRow
  BY <1>7, InvitationsKept
<1>10. /\ Sequence(states')
       /\ \A k \in DOMAIN states' :
             /\ states'[k] \in StateRow
             /\ states'[k].session # None => states'[k].invitation = None
  BY <1>7, StatesKept
<1>11. StateRow \subseteq StateRow'
  BY <1>0 DEF StateRow, Keeps, Optional
<1> QED BY <1>6, <1>8, <1>9, <1>10, <1>11 DEF Goal, RowsOK, SmallRowsOK, MemberRow, SessionRow, InvitationRow

-----------------------------------------------------------------------------
(* Transactions keep their form *)

\* What a request names stays there.
LEMMA RequestsStay ==
    ASSUME NEW r, RowsOK, Keeps, RequestOK(r)
    PROVE  RequestOK(r)'
BY DEF RequestOK, Keeps, Optional

\* What a callback is about.
LEMMA CallbacksAreOK ==
    ASSUME NEW k \in DOMAIN states, RowsOK
    PROVE  LET r == CallbackOf(k)
           IN  /\ RequestOK(r) /\ r.kind = "callback" /\ r.target = k
               /\ r.user # None => r.user = NewUser
<1>1. /\ states[k].session \in Optional(DOMAIN sessions)
      /\ states[k].invitation \in Optional(DOMAIN invitations)
      /\ states[k].session # None => states[k].invitation = None
  BY DEF RowsOK, StateRow
<1>2. NewUser # None => NewUser \in Users
  BY NewUserIsFresh
<1> DEFINE r == CallbackOf(k)
<1>3. /\ r.kind = "callback" /\ r.session = states[k].session /\ r.target = k
      /\ r.invitation = states[k].invitation
      /\ r.user = IF states[k].session = None THEN NewUser ELSE None
  BY DEF CallbackOf, Request
<1> HIDE DEF r
<1>4. /\ RequestOK(r) /\ r.kind = "callback" /\ r.target = k
      /\ r.user # None => r.user = NewUser
  BY <1>1, <1>2, <1>3 DEF RequestOK, Optional
<1> QED BY <1>4 DEF r

\* A transaction as its fields say.
Formed(x) == x = [request |-> x.request, stage |-> x.stage, held |-> x.held,
                  found |-> x.found, subject |-> x.subject, todo |-> x.todo]

\* The fields of a transaction that has moved.
LEMMA Fields ==
    /\ \A r, stage, f, x :
           LET e == Entered(r, stage, f, x)
           IN  /\ Formed(e) /\ e.request = r /\ e.stage = stage /\ e.held = {} /\ e.found = f
               /\ e.subject = x /\ e.todo = IF stage = "exchange" THEN <<>> ELSE Plan(r, f)
    /\ \A t :
           LET e == Acquired(t)
           IN  /\ Formed(e) /\ e.request = tx[t].request /\ e.stage = tx[t].stage
               /\ e.held = tx[t].held \cup {Head(tx[t].todo)} /\ e.found = tx[t].found
               /\ e.subject = tx[t].subject /\ e.todo = Tail(tx[t].todo)
    /\ \A t, todo :
           LET e == Purging(t, todo)
           IN  /\ Formed(e) /\ e.request = tx[t].request /\ e.stage = "purging"
               /\ e.held = tx[t].held /\ e.found = tx[t].found
               /\ e.subject = tx[t].subject /\ e.todo = todo
BY DEF Entered, Acquired, Purging, Formed

\* What a transaction is, given its request and fields.
Shape(e) ==
    /\ Formed(e) /\ Sequence(e.todo)
    /\ e.found \in Optional(Users)
    /\ e.found # None => e.request.kind = "callback" /\ e.request.session = None
    /\ e.stage \in {"exchange", "locking", "purging"}
    /\ e.stage = "exchange" => e.request.kind = "callback" /\ e.held = {} /\ e.todo = <<>>
    /\ e.request.kind = "callback" /\ e.stage # "exchange" =>
           /\ e.subject \in Subjects
           /\ e.request.session = None /\ e.found = None => e.request.user # None /\ e.request.invitation # None

\* So does every running transaction.
LEMMA TxFormsKept ==
    ASSUME RowsOK, TxFormsOK, [Next]_vars
    PROVE  TxFormsOK'
<1>0. Keeps /\ DOMAIN tx' = Transactions /\ \A v \in Running' : Move(v)
  BY Kept, Moving
<1>1. ASSUME NEW v \in Running'
      PROVE  Shape(tx'[v]) /\ \E r : r = tx'[v].request /\ RequestOK(r)
  <2>1. CASE v \in Running /\ tx'[v] = tx[v]
    BY <2>1 DEF TxFormsOK, TxOK, Shape, Formed
  <2>2. CASE \E r : NewRequest(r) /\ tx'[v] = Entered(r, "locking", None, None)
    <3>1. PICK r : NewRequest(r) /\ tx'[v] = Entered(r, "locking", None, None)
      BY <2>2
    <3>2. /\ Formed(tx'[v]) /\ tx'[v].request = r /\ tx'[v].stage = "locking" /\ tx'[v].held = {}
          /\ tx'[v].found = None /\ tx'[v].subject = None /\ tx'[v].todo = Plan(r, None)
      BY <3>1, Fields
    <3>3. RequestOK(r) /\ Sequence(Plan(r, None)) /\ r.kind # "callback"
      BY <3>1, PlanFacts DEF NewRequest
    <3> QED BY <3>2, <3>3 DEF Shape, Optional
  <2>3. CASE \E k \in DOMAIN states :
                 ConsumeState(v, k) /\ tx'[v] = Entered(CallbackOf(k), "exchange", None, None)
    <3>1. PICK k \in DOMAIN states : tx'[v] = Entered(CallbackOf(k), "exchange", None, None)
      BY <2>3
    <3>2. PICK r : r = CallbackOf(k)
      OBVIOUS
    <3>3. /\ Formed(tx'[v]) /\ tx'[v].request = r /\ tx'[v].stage = "exchange" /\ tx'[v].held = {}
          /\ tx'[v].found = None /\ tx'[v].todo = <<>>
      BY <3>1, <3>2, Fields
    <3>4. RequestOK(r) /\ r.kind = "callback"
      BY <3>2, CallbacksAreOK
    <3> QED BY <3>3, <3>4, Listing DEF Shape, Optional
  <2>4. CASE /\ v \in Running
             /\ \E x \in Subjects :
                    /\ Exchange(v, x)
                    /\ tx'[v] = Entered(tx[v].request, "locking",
                                        IF tx[v].request.session = None THEN bound[x] ELSE None, x)
    <3>1. PICK x \in Subjects :
                    /\ Exchange(v, x)
                    /\ tx'[v] = Entered(tx[v].request, "locking",
                                        IF tx[v].request.session = None THEN bound[x] ELSE None, x)
      BY <2>4
    <3>2. PICK r : r = tx[v].request
      OBVIOUS
    <3>3. PICK f : f = IF r.session = None THEN bound[x] ELSE None
      OBVIOUS
    <3>4. RequestOK(r) /\ r.kind = "callback"
      BY <2>4, <3>1, <3>2 DEF TxFormsOK, TxOK, Exchange
    <3>5. f \in Optional(Users) /\ (f # None => r.session = None)
      BY <3>3 DEF RowsOK, Optional
    <3>6. r.session = None /\ f = None => r.user # None /\ r.invitation # None
      BY <3>1, <3>2, <3>3 DEF Exchange
    <3>7. /\ Formed(tx'[v]) /\ tx'[v].request = r /\ tx'[v].stage = "locking" /\ tx'[v].held = {}
          /\ tx'[v].found = f /\ tx'[v].subject = x /\ tx'[v].todo = Plan(r, f)
      BY <3>1, <3>2, <3>3, Fields
    <3>8. Sequence(Plan(r, f))
      BY <3>4, <3>5, PlanFacts
    <3> QED BY <3>4, <3>5, <3>6, <3>7, <3>8 DEF Shape
  <2>5. CASE v \in Running /\ Acquire(v) /\ tx'[v] = Acquired(v)
    <3>1. /\ Formed(tx'[v]) /\ tx'[v].request = tx[v].request /\ tx'[v].stage = tx[v].stage
          /\ tx'[v].found = tx[v].found /\ tx'[v].subject = tx[v].subject /\ tx'[v].todo = Tail(tx[v].todo)
      BY <2>5, Fields
    <3>2. TxOK(v) /\ tx[v].todo # <<>>
      BY <2>5 DEF TxFormsOK, Acquire
    <3>3. Sequence(Tail(tx[v].todo))
      BY <3>2, Shortened DEF TxOK
    <3> QED BY <3>1, <3>2, <3>3 DEF TxOK, Shape
  <2>6. CASE /\ v \in Running /\ Purge(v)
             /\ \E todo : /\ tx'[v] = Purging(v, todo) /\ Sequence(todo)
                          /\ \A l \in Elements(todo) : PurgeStep(l)
    <3>1. PICK todo : tx'[v] = Purging(v, todo) /\ Sequence(todo)
      BY <2>6
    <3>2. /\ Formed(tx'[v]) /\ tx'[v].request = tx[v].request /\ tx'[v].stage = "purging"
          /\ tx'[v].found = tx[v].found /\ tx'[v].subject = tx[v].subject /\ tx'[v].todo = todo
      BY <3>1, Fields
    <3>3. TxOK(v) /\ tx[v].request.kind = "invite"
      BY <2>6 DEF TxFormsOK, Purge
    <3> QED BY <3>1, <3>2, <3>3 DEF TxOK, Shape
  <2> QED BY <1>0, <1>1, <2>1, <2>2, <2>3, <2>4, <2>5, <2>6 DEF Move
<1>2. ASSUME NEW v \in Running' PROVE TxOK(v)'
  <2>1. PICK r : r = tx'[v].request /\ RequestOK(r)
    BY <1>1
  <2>2. RequestOK(r)'
    BY <1>0, <2>1, RequestsStay
  <2>3. RequestOK(tx[v].request)'
    BY <2>1, <2>2 DEF RequestOK
  <2> QED BY <1>1, <2>3 DEF TxOK, Shape, Formed
<1> QED BY <1>0, <1>2 DEF TxFormsOK

-----------------------------------------------------------------------------
(* Transactions keep to their plans, and their locks are compatible *)

\* The steps of a plan depend on nothing that changes later.
LEMMA ChecksStay ==
    ASSUME NEW r, NEW f, NEW all, RowsOK, Keeps, RequestOK(r), ChecksAmong(r, f, all)
    PROVE  ChecksAmong(r, f, all)'
<1>1. r.session # None => sessions'[r.session].user = sessions[r.session].user
  BY DEF RequestOK, Optional, Keeps
<1>2. r.invitation # None => invitations'[r.invitation].creator = invitations[r.invitation].creator
  BY DEF RequestOK, Optional, Keeps
<1>3. Checks(r, f)' = Checks(r, f)
  BY <1>1, <1>2 DEF Checks, If, RequestOK
<1>4. Writes(r)' = Writes(r)
  BY <1>1 DEF Writes, RequestOK
<1> QED BY <1>3, <1>4 DEF ChecksAmong

\* What was still to be done is done, and nothing is left out.
LEMMA ChecksKept ==
    ASSUME RowsOK, TxFormsOK, ChecksOK, [Next]_vars
    PROVE  ChecksOK'
<1>0. Keeps /\ DOMAIN tx' = Transactions /\ \A v \in Running' : Move(v)
  BY Kept, Moving
<1>1. ASSUME NEW v \in Running', tx'[v].stage # "exchange"
      PROVE  \E r, f, all : /\ r = tx'[v].request /\ f = tx'[v].found
                            /\ all = tx'[v].held \cup Elements(tx'[v].todo)
                            /\ RequestOK(r) /\ ChecksAmong(r, f, all)
  <2>1. CASE v \in Running /\ tx'[v] = tx[v]
    BY <1>1, <2>1 DEF TxFormsOK, TxOK, ChecksOK
  <2>2. CASE \E r : NewRequest(r) /\ tx'[v] = Entered(r, "locking", None, None)
    <3>1. PICK r : NewRequest(r) /\ tx'[v] = Entered(r, "locking", None, None)
      BY <2>2
    <3>2. /\ tx'[v].request = r /\ tx'[v].held = {}
          /\ tx'[v].found = None /\ tx'[v].todo = Plan(r, None)
      BY <3>1, Fields
    <3>3. /\ RequestOK(r) /\ Writes(r) \subseteq Elements(Plan(r, None))
          /\ {l \in Elements(Plan(r, None)) : l.check} = Checks(r, None)
      BY <3>1, PlanFacts DEF NewRequest
    <3> DEFINE all == {} \cup Elements(Plan(r, None))
    <3>4. all = Elements(Plan(r, None))
      OBVIOUS
    <3> HIDE DEF all
    <3>5. ChecksAmong(r, None, all)
      BY <3>3, <3>4 DEF ChecksAmong
    <3> QED BY <3>2, <3>3, <3>5 DEF all
  <2>3. CASE \E k \in DOMAIN states :
                 ConsumeState(v, k) /\ tx'[v] = Entered(CallbackOf(k), "exchange", None, None)
    BY <1>1, <2>3, Fields
  <2>4. CASE /\ v \in Running
             /\ \E x \in Subjects :
                    /\ Exchange(v, x)
                    /\ tx'[v] = Entered(tx[v].request, "locking",
                                        IF tx[v].request.session = None THEN bound[x] ELSE None, x)
    <3>1. PICK x \in Subjects :
                    /\ Exchange(v, x)
                    /\ tx'[v] = Entered(tx[v].request, "locking",
                                        IF tx[v].request.session = None THEN bound[x] ELSE None, x)
      BY <2>4
    <3>2. PICK r : r = tx[v].request
      OBVIOUS
    <3>3. PICK f : f = IF r.session = None THEN bound[x] ELSE None
      OBVIOUS
    <3>4. RequestOK(r) /\ r.kind = "callback"
      BY <2>4, <3>1, <3>2 DEF TxFormsOK, TxOK, Exchange
    <3>5. f # None => r.session = None
      BY <3>3
    <3>6. /\ tx'[v].request = r /\ tx'[v].held = {} /\ tx'[v].found = f /\ tx'[v].todo = Plan(r, f)
      BY <3>1, <3>2, <3>3, Fields
    <3>7. /\ Writes(r) \subseteq Elements(Plan(r, f))
          /\ {l \in Elements(Plan(r, f)) : l.check} = Checks(r, f)
      BY <3>4, <3>5, PlanFacts
    <3> DEFINE all == {} \cup Elements(Plan(r, f))
    <3>8. all = Elements(Plan(r, f))
      OBVIOUS
    <3> HIDE DEF all
    <3>9. ChecksAmong(r, f, all)
      BY <3>7, <3>8 DEF ChecksAmong
    <3> QED BY <3>4, <3>6, <3>9 DEF all
  <2>5. CASE v \in Running /\ Acquire(v) /\ tx'[v] = Acquired(v)
    <3> DEFINE todo == tx[v].todo
               held == tx[v].held
    <3>1. /\ tx'[v].request = tx[v].request /\ tx'[v].stage = tx[v].stage
          /\ tx'[v].held = held \cup {Head(todo)}
          /\ tx'[v].found = tx[v].found /\ tx'[v].todo = Tail(todo)
      BY <2>5, Fields
    <3>2. TxOK(v) /\ todo # <<>> /\ ChecksAmong(tx[v].request, tx[v].found, held \cup Elements(todo))
      BY <1>1, <2>5, <3>1 DEF TxFormsOK, Acquire, ChecksOK
    <3>3. Elements(todo) = {Head(todo)} \cup Elements(Tail(todo))
      BY <3>2, Shortened DEF TxOK
    <3>4. (held \cup {Head(todo)}) \cup Elements(Tail(todo)) = held \cup Elements(todo)
      BY <3>3
    <3>5. RequestOK(tx[v].request)
      BY <3>2 DEF TxOK
    <3> HIDE DEF todo, held
    <3> QED BY <3>1, <3>2, <3>4, <3>5
  <2>6. CASE /\ v \in Running /\ Purge(v)
             /\ \E todo : /\ tx'[v] = Purging(v, todo) /\ Sequence(todo)
                          /\ \A l \in Elements(todo) : PurgeStep(l)
    <3>1. PICK todo : /\ tx'[v] = Purging(v, todo) /\ Sequence(todo)
                      /\ \A l \in Elements(todo) : PurgeStep(l)
      BY <2>6
    <3>2. /\ tx'[v].request = tx[v].request /\ tx'[v].held = tx[v].held
          /\ tx'[v].found = tx[v].found /\ tx'[v].todo = todo
      BY <3>1, Fields
    <3>3. /\ RequestOK(tx[v].request) /\ tx[v].todo = <<>>
          /\ ChecksAmong(tx[v].request, tx[v].found, tx[v].held \cup Elements(tx[v].todo))
      BY <2>6 DEF TxFormsOK, TxOK, Purge, ChecksOK
    <3>4. tx[v].held \cup Elements(tx[v].todo) = tx[v].held
      BY <3>3, Listing
    <3>5. ChecksAmong(tx[v].request, tx[v].found, tx[v].held \cup Elements(todo))
      <4>1. \A l \in Elements(todo) : ~l.check
        BY <3>1 DEF PurgeStep, Lock
      <4> QED BY <3>3, <3>4, <4>1 DEF ChecksAmong
    <3> QED BY <3>2, <3>3, <3>5
  <2> QED BY <1>0, <1>1, <2>1, <2>2, <2>3, <2>4, <2>5, <2>6 DEF Move
<1>2. ASSUME NEW v \in Running', tx'[v].stage # "exchange"
      PROVE  ChecksAmong(tx[v].request, tx[v].found, tx[v].held \cup Elements(tx[v].todo))'
  <2>1. PICK r, f, all : /\ r = tx'[v].request /\ f = tx'[v].found
                         /\ all = tx'[v].held \cup Elements(tx'[v].todo)
                         /\ RequestOK(r) /\ ChecksAmong(r, f, all)
    BY <1>1, <1>2
  <2>2. ChecksAmong(r, f, all)'
    BY <1>0, <2>1, ChecksStay
  <2>3. Elements(tx[v].todo)' = Elements(tx'[v].todo)
    BY DEF Elements
  <2> QED BY <2>1, <2>2, <2>3 DEF ChecksAmong, Checks, Writes
<1> QED BY <1>2 DEF ChecksOK

\* The steps of an "invite" are of its plan or of its purge.
LEMMA PurgesKept ==
    ASSUME RowsOK, TxFormsOK, PurgesOK, [Next]_vars
    PROVE  PurgesOK'
<1>0. \A v \in Running' : Move(v)
  BY Moving
<1>1. ASSUME NEW v \in Running', tx'[v].request.kind = "invite"
      PROVE  \A l \in tx'[v].held \cup Elements(tx'[v].todo) : l.check \/ PurgeStep(l)
  <2>1. CASE v \in Running /\ tx'[v] = tx[v]
    BY <1>1, <2>1 DEF PurgesOK
  <2>2. CASE \E r : NewRequest(r) /\ tx'[v] = Entered(r, "locking", None, None)
    <3>1. PICK r : NewRequest(r) /\ tx'[v] = Entered(r, "locking", None, None)
      BY <2>2
    <3>2. tx'[v].request = r /\ tx'[v].held = {} /\ tx'[v].todo = Plan(r, None)
      BY <3>1, Fields
    <3>3. \A l \in Elements(Plan(r, None)) : l.check
      BY <1>1, <3>1, <3>2, PlanFacts DEF NewRequest
    <3> QED BY <3>2, <3>3
  <2>3. CASE \E k \in DOMAIN states :
                 ConsumeState(v, k) /\ tx'[v] = Entered(CallbackOf(k), "exchange", None, None)
    <3>1. PICK k \in DOMAIN states : tx'[v] = Entered(CallbackOf(k), "exchange", None, None)
      BY <2>3
    <3>2. PICK r : r = CallbackOf(k)
      OBVIOUS
    <3>3. tx'[v].request = r /\ r.kind = "callback"
      BY <3>1, <3>2, Fields, CallbacksAreOK
    <3> QED BY <1>1, <3>3
  <2>4. CASE /\ v \in Running
             /\ \E x \in Subjects :
                    /\ Exchange(v, x)
                    /\ tx'[v] = Entered(tx[v].request, "locking",
                                        IF tx[v].request.session = None THEN bound[x] ELSE None, x)
    <3>1. tx'[v].request = tx[v].request
      BY <2>4, Fields
    <3>2. tx[v].request.kind = "callback"
      BY <2>4 DEF TxFormsOK, TxOK, Exchange
    <3> QED BY <1>1, <3>1, <3>2
  <2>5. CASE v \in Running /\ Acquire(v) /\ tx'[v] = Acquired(v)
    <3> DEFINE todo == tx[v].todo
    <3>1. /\ tx'[v].request = tx[v].request /\ tx'[v].held = tx[v].held \cup {Head(todo)}
          /\ tx'[v].todo = Tail(todo)
      BY <2>5, Fields
    <3>2. Elements(todo) = {Head(todo)} \cup Elements(Tail(todo))
      BY <2>5, Shortened DEF TxFormsOK, TxOK, Acquire
    <3>3. \A l \in tx[v].held \cup Elements(todo) : l.check \/ PurgeStep(l)
      BY <1>1, <2>5, <3>1 DEF PurgesOK
    <3> HIDE DEF todo
    <3> QED BY <3>1, <3>2, <3>3
  <2>6. CASE /\ v \in Running /\ Purge(v)
             /\ \E todo : /\ tx'[v] = Purging(v, todo) /\ Sequence(todo)
                          /\ \A l \in Elements(todo) : PurgeStep(l)
    <3>1. PICK todo : tx'[v] = Purging(v, todo) /\ \A l \in Elements(todo) : PurgeStep(l)
      BY <2>6
    <3>2. tx'[v].request = tx[v].request /\ tx'[v].held = tx[v].held /\ tx'[v].todo = todo
      BY <3>1, Fields
    <3>3. \A l \in tx[v].held : l.check \/ PurgeStep(l)
      BY <1>1, <2>6, <3>2 DEF PurgesOK
    <3> QED BY <3>1, <3>2, <3>3
  <2> QED BY <1>0, <1>1, <2>1, <2>2, <2>3, <2>4, <2>5, <2>6 DEF Move
<1> QED BY <1>1 DEF PurgesOK, Elements

\* A lock is taken only when nobody has one that conflicts with it.
LEMMA LocksKept ==
    ASSUME RowsOK, TxFormsOK, LocksOK, [Next]_vars
    PROVE  LocksOK'
<1>0. DOMAIN tx' = Transactions /\ \A v \in Running' : Move(v)
  BY Moving
<1>1. ASSUME NEW v \in Running', Move(v)
      PROVE  \/ tx'[v].held = {}
             \/ v \in Running /\ tx'[v].held = tx[v].held
             \/ /\ v \in Running /\ Only(v) /\ Free(v) /\ tx[v].todo # <<>>
                /\ tx'[v].held = tx[v].held \cup {Head(tx[v].todo)}
  BY <1>1, Fields DEF Move, Acquire
<1>2. ASSUME NEW v \in Running', NEW w \in Running', v # w,
             NEW l \in tx'[v].held, NEW m \in tx'[w].held, l.row = m.row
      PROVE  ~Conflict(l.mode, m.mode)
  <2>1. v \in Running /\ w \in Running
    BY <1>0, <1>1, <1>2
  <2>2. CASE tx'[v].held = tx[v].held /\ tx'[w].held = tx[w].held
    BY <1>2, <2>1, <2>2 DEF LocksOK
  <2>3. ASSUME NEW a \in Running, NEW b \in Running, a # b, Only(a), Free(a), tx[a].todo # <<>>,
               tx'[a].held = tx[a].held \cup {Head(tx[a].todo)},
               NEW p \in tx'[a].held, NEW q \in tx'[b].held, p.row = q.row
        PROVE  ~Conflict(p.mode, q.mode) /\ ~Conflict(q.mode, p.mode)
    <3>1. tx'[b] = tx[b]
      BY <2>3 DEF Only, Running
    <3>2. CASE p \in tx[a].held
      BY <2>3, <3>1, <3>2 DEF LocksOK, Conflict
    <3>3. CASE p = Head(tx[a].todo)
      BY <2>3, <3>1, <3>3 DEF Free, WaitsFor, Blocks, Conflict
    <3> QED BY <2>3, <3>2, <3>3
  <2>4. CASE /\ Only(v) /\ Free(v) /\ tx[v].todo # <<>>
             /\ tx'[v].held = tx[v].held \cup {Head(tx[v].todo)}
    BY <1>2, <2>1, <2>3, <2>4
  <2>5. CASE /\ Only(w) /\ Free(w) /\ tx[w].todo # <<>>
             /\ tx'[w].held = tx[w].held \cup {Head(tx[w].todo)}
    BY <1>2, <2>1, <2>3, <2>5
  <2> QED BY <1>0, <1>1, <1>2, <2>2, <2>4, <2>5
<1> QED BY <1>2 DEF LocksOK

-----------------------------------------------------------------------------
(* Accounts, members and the owner *)

\* Who has a Session, when a step opened at most one.
LEMMA SessionUsers ==
    ASSUME NEW A, RowsOK, Keeps, \A s \in DOMAIN sessions : sessions[s].user \in A,
           \/ DOMAIN sessions' = DOMAIN sessions
           \/ \E u \in A : \E via : sessions' = NewSession(u, via)
    PROVE  \A s \in DOMAIN sessions' : sessions'[s].user \in A
<1>1. CASE DOMAIN sessions' = DOMAIN sessions
  BY <1>1 DEF Keeps
<1>2. CASE \E u \in A : \E via : sessions' = NewSession(u, via)
  <2>1. PICK u \in A : \E via : sessions' = NewSession(u, via)
    BY <1>2
  <2>2. PICK via : sessions' = NewSession(u, via)
    BY <2>1
  <2> DEFINE new == [user |-> u, via |-> via, status |-> "recent"]
  <2>3. new.user = u /\ sessions' = Append(sessions, new)
    BY <2>2 DEF NewSession
  <2> HIDE DEF new
  <2>4. /\ DOMAIN sessions' = DOMAIN sessions \cup {Len(sessions) + 1}
        /\ sessions'[Len(sessions) + 1] = new
    BY <2>3, Appended DEF RowsOK
  <2> QED BY <2>3, <2>4 DEF Keeps
<1> QED BY <1>1, <1>2

\* Who made an invitation, when a step made at most one.
LEMMA Creators ==
    ASSUME NEW A, RowsOK, Keeps, \A i \in DOMAIN invitations : invitations[i].creator \in A,
           \/ DOMAIN invitations' = DOMAIN invitations
           \/ \E u \in A : \E old, new : /\ new.creator = u /\ Sequence(old)
                                         /\ DOMAIN old = DOMAIN invitations
                                         /\ invitations' = Append(old, new)
    PROVE  \A i \in DOMAIN invitations' : invitations'[i].creator \in A
<1>1. CASE DOMAIN invitations' = DOMAIN invitations
  BY <1>1 DEF Keeps
<1>2. CASE \E u \in A : \E old, new : /\ new.creator = u /\ Sequence(old)
                                      /\ DOMAIN old = DOMAIN invitations
                                      /\ invitations' = Append(old, new)
  <2>1. PICK u \in A : \E old, new : /\ new.creator = u /\ Sequence(old)
                                     /\ DOMAIN old = DOMAIN invitations
                                     /\ invitations' = Append(old, new)
    BY <1>2
  <2>2. PICK old, new : /\ new.creator = u /\ Sequence(old)
                        /\ DOMAIN old = DOMAIN invitations
                        /\ invitations' = Append(old, new)
    BY <2>1
  <2>3. /\ DOMAIN invitations' = DOMAIN invitations \cup {Len(old) + 1}
        /\ invitations'[Len(old) + 1] = new
    BY <2>2, Appended
  <2> QED BY <2>1, <2>2, <2>3 DEF Keeps
<1> QED BY <1>1, <1>2

\* The invitations after a purge of those that t has locked.
Left(t, old) ==
    /\ Sequence(old) /\ DOMAIN old = DOMAIN invitations /\ Len(old) = Len(invitations)
    /\ \A i \in DOMAIN invitations :
           \/ old[i] = invitations[i]
           \/ /\ \E l \in tx[t].held : l.row[1] = "invitation" /\ l.row[2] = i
              /\ old[i] = [invitations[i] EXCEPT !.status = "gone"]

\* A new invitation is added to what a purge has left.
LEMMA Inviting ==
    ASSUME NEW t, NEW r, RowsOK, CreateInvitation(t, r)
    PROVE  LET u == sessions[r.session].user
               new == [creator |-> u, revision |-> member[u].revision, status |-> "open"]
           IN  \E old : Left(t, old) /\ invitations' = Append(old, new)
<1> DEFINE u == sessions[r.session].user
           new == [creator |-> u, revision |-> member[u].revision, status |-> "open"]
           purged == {l.row[2] : l \in {l \in tx[t].held : l.row[1] = "invitation"}}
           old == [i \in DOMAIN invitations |->
                      IF i \in purged THEN [invitations[i] EXCEPT !.status = "gone"] ELSE invitations[i]]
<1>1. invitations' = Append(old, new)
  BY DEF CreateInvitation
<1>2. \A i \in purged : \E l \in tx[t].held : l.row[1] = "invitation" /\ l.row[2] = i
  OBVIOUS
<1> HIDE DEF new, purged
<1>3. /\ DOMAIN old = DOMAIN invitations
      /\ \A i \in DOMAIN invitations :
             old[i] = IF i \in purged THEN [invitations[i] EXCEPT !.status = "gone"] ELSE invitations[i]
  OBVIOUS
<1>4. Len(invitations) \in Nat /\ DOMAIN invitations = 1..Len(invitations)
  BY SequenceDomain DEF RowsOK
<1>5. old = [i \in 1..Len(invitations) |-> old[i]]
  BY <1>4
<1> HIDE DEF old
<1>6. Sequence(old) /\ Len(old) = Len(invitations)
  BY <1>4, <1>5, SequenceFrom
<1>7. Left(t, old)
  BY <1>2, <1>3, <1>6 DEF Left
<1> QED BY <1>1, <1>7 DEF new

\* What one more binding, or one more password, does to the accounts.
LEMMA AccountAdded ==
    ASSUME NEW u \in Users, RowsOK,
           \/ password' = password \cup {u} /\ bound' = bound
           \/ \E x \in Subjects : /\ bound[x] = None /\ bound' = [bound EXCEPT ![x] = u]
                                  /\ password' = password
    PROVE  Accounts' = Accounts \cup {u}
<1>0. bound \in [Subjects -> Optional(Users)] /\ None \notin Users
  BY IdentitiesAssumption DEF RowsOK
<1>1. CASE password' = password \cup {u} /\ bound' = bound
  BY <1>1 DEF Accounts
<1>2. CASE \E x \in Subjects : /\ bound[x] = None /\ bound' = [bound EXCEPT ![x] = u]
                               /\ password' = password
  <2>1. PICK x \in Subjects : /\ bound[x] = None /\ bound' = [bound EXCEPT ![x] = u]
                              /\ password' = password
    BY <1>2
  <2>2. bound'[x] = u /\ \A y \in Subjects : y # x => bound'[y] = bound[y]
    BY <1>0, <2>1
  <2>3. ASSUME NEW w \in Users PROVE w \in Accounts' <=> w \in Accounts \cup {u}
    BY <1>0, <2>1, <2>2 DEF Accounts
  <2> QED BY <2>3 DEF Accounts
<1> QED BY <1>1, <1>2

\* Accounts and roles agree after every effect.
LEMMA RolesKept ==
    ASSUME NEW t \in Transactions, RowsOK, TxFormsOK, MembersOK, Commit(t),
           tx[t].request.kind = "bootstrap" => Unclaimed,
           tx[t].found # None => StillBound(t)
    PROVE  /\ RolesOK'
           /\ \/ Accounts' = Accounts
              \/ /\ Admitted(t) = tx[t].request.user /\ tx[t].request.user # None
                 /\ Accounts' = Accounts \cup {Admitted(t)}
           /\ tx[t].request.kind # "start" => Admitted(t) \in Accounts'
<1> DEFINE r == tx[t].request
           u == Admitted(t)
           x == tx[t].subject
           Goal == /\ RolesOK'
                   /\ \/ Accounts' = Accounts
                      \/ u = r.user /\ r.user # None /\ Accounts' = Accounts \cup {u}
                   /\ r.kind # "start" => u \in Accounts'
<1>1. /\ t \in Running /\ TxOK(t) /\ RequestOK(r)
      /\ r.kind # "start" => u \in Users
      /\ r.kind = "callback" => x \in Subjects
      /\ None \notin Users /\ Valid(t)
  BY EffectFacts, IdentitiesAssumption DEF Commit
<1>2. r.session # None => r.session \in DOMAIN sessions /\ u \in Accounts
  BY <1>1 DEF RequestOK, Optional, MembersOK, Admitted
<1>3. r.invitation # None => r.invitation \in DOMAIN invitations /\ Accounts # {}
  BY <1>1 DEF RequestOK, Optional, MembersOK
<1>4. tx[t].found # None => u = tx[t].found
  BY <1>1 DEF Admitted, TxOK
<1>5. bound \in [Subjects -> Optional(Users)] /\ member \in [Users -> MemberRow]
  BY DEF RowsOK, MemberRow
<1>6. ASSUME Accounts' = Accounts, member' = member PROVE RolesOK'
  BY <1>6 DEF MembersOK, RolesOK
<1>7. ASSUME NEW i \in DOMAIN invitations, u \in Users, Accounts # {}, Join(i, u),
             Accounts' = Accounts \cup {u}
      PROVE  RolesOK'
  <2>1. /\ member'[u].role # "none"
        /\ member'[u].role = "owner" <=> member[u].role = "owner"
        /\ \A v \in Users : v # u => member'[v] = member[v]
    BY <1>7, Joining
  <2> HIDE DEF u
  <2> QED BY <1>7, <2>1 DEF MembersOK, RolesOK
<1> HIDE DEF r, u, x
<1>8. ASSUME Bootstrap(r), r.session = None, tx[t].found = None, r.user = u PROVE Goal
  <2>1. u \in Users /\ Accounts = {}
    BY <1>1, <1>8 DEF Bootstrap, Unclaimed, r
  <2>2. \A w \in Users : w \in Accounts' <=> w = u
    BY <1>8, <2>1 DEF Bootstrap, Accounts
  <2>3. Accounts' = {u}
    BY <2>1, <2>2 DEF Accounts
  <2>4. member'[u].role = "owner" /\ \A w \in Users : w # u => member'[w] = member[w]
    <3>1. member' = [member EXCEPT ![u] = [member[u] EXCEPT !.role = "owner"]]
      BY <1>8 DEF Bootstrap
    <3>2. [member[u] EXCEPT !.role = "owner"].role = "owner"
      BY <1>5, <2>1 DEF MemberRow
    <3> QED BY <1>5, <2>1, <3>1, <3>2
  <2>5. \A w \in Users : member[w].role = "none"
    BY <2>1 DEF MembersOK, RolesOK
  <2> QED BY <1>1, <1>8, <2>1, <2>3, <2>4, <2>5 DEF RolesOK
<1>9. ASSUME CreateInvitation(t, r) PROVE Goal
  <2>1. Accounts' = Accounts /\ member' = member
    BY <1>9 DEF CreateInvitation, Accounts
  <2>2. r.session # None
    BY <1>1, <1>9 DEF CreateInvitation, RequestOK
  <2> QED BY <1>2, <1>6, <2>1, <2>2
<1>10. ASSUME r.kind \in {"accept", "join"}, r.invitation # None, Join(r.invitation, u),
              password' = IF r.kind = "join" THEN password \cup {u} ELSE password,
              r.kind = "join" => u = r.user, r.kind = "accept" => r.session # None,
              UNCHANGED <<bound, states>>
       PROVE  Goal
  <2>1. CASE r.kind = "join"
    <3>1. u \in Users /\ r.user # None
      BY <1>1, <2>1 DEF RequestOK
    <3>2. Accounts' = Accounts \cup {u}
      BY <1>10, <2>1, <3>1, AccountAdded DEF u
    <3> QED BY <1>3, <1>7, <1>10, <2>1, <3>1, <3>2
  <2>2. CASE r.kind = "accept"
    <3>1. Accounts' = Accounts /\ u \in Accounts
      BY <1>2, <1>10, <2>2 DEF Accounts
    <3>2. Accounts' = Accounts \cup {u} /\ u \in Users
      BY <3>1 DEF Accounts
    <3> QED BY <1>3, <1>7, <1>10, <3>1, <3>2
  <2> QED BY <1>10, <2>1, <2>2
<1>11. ASSUME UnlinkExternal(r) PROVE Goal
  <2>1. r.session # None /\ r.kind = "unlink" /\ sessions[r.session].user \in password
    BY <1>1, <1>11 DEF UnlinkExternal, RequestOK, Valid, r
  <2>2. ASSUME NEW w \in Users PROVE w \in Accounts' <=> w \in Accounts
    <3>1. CASE w = sessions[r.session].user
      BY <1>11, <2>1, <3>1 DEF UnlinkExternal, Accounts
    <3>2. CASE w # sessions[r.session].user
      <4>1. \A y \in Subjects : bound'[y] = w <=> bound[y] = w
        BY <1>1, <1>5, <1>11, <3>2 DEF UnlinkExternal
      <4>2. password' = password
        BY <1>11 DEF UnlinkExternal
      <4> QED BY <4>1, <4>2 DEF Accounts
    <3> QED BY <3>1, <3>2
  <2>3. Accounts' = Accounts /\ member' = member
    BY <1>11, <2>2 DEF Accounts, UnlinkExternal
  <2> QED BY <1>2, <1>6, <2>1, <2>3
<1>12. ASSUME BeginOIDC(r) PROVE Goal
  <2>1. Accounts' = Accounts /\ member' = member /\ r.kind = "start"
    BY <1>12 DEF BeginOIDC, Accounts
  <2> QED BY <1>6, <2>1
<1>13. ASSUME r.kind = "callback", r.session # None, bound' = [bound EXCEPT ![x] = u],
              UNCHANGED <<password, member>>
       PROVE  Goal
  <2>1. bound[x] = None
    BY <1>1, <1>13 DEF Valid, r, x
  <2>2. u \in Accounts /\ u \in Users
    BY <1>1, <1>2, <1>13
  <2>3. Accounts' = Accounts \cup {u}
    BY <1>1, <1>13, <2>1, <2>2, AccountAdded
  <2>4. Accounts' = Accounts
    BY <2>2, <2>3
  <2> QED BY <1>6, <1>13, <2>2, <2>4
<1>14. ASSUME r.kind = "callback", r.session = None,
              bound' = IF tx[t].found = None THEN [bound EXCEPT ![x] = u] ELSE bound,
              tx[t].found = None => u = r.user /\ r.invitation # None,
              tx[t].found # None => StillBound(t),
              \/ UNCHANGED <<member, invitations, joined>> /\ r.invitation = None
              \/ r.invitation # None /\ Join(r.invitation, u),
              UNCHANGED <<password, states>>
       PROVE  Goal
  <2>0. u \in Users
    BY <1>1, <1>14
  <2>1. CASE tx[t].found = None
    <3>1. bound[x] = None
      BY <1>1, <1>14, <2>1 DEF Valid, r, x
    <3>2. Accounts' = Accounts \cup {u}
      BY <1>1, <1>14, <2>0, <2>1, <3>1, AccountAdded
    <3> QED BY <1>1, <1>3, <1>7, <1>14, <2>0, <2>1, <3>2
  <2>2. CASE tx[t].found # None
    <3>1. bound[x] = u
      BY <1>4, <1>14, <2>2 DEF StillBound, x
    <3>2. Accounts' = Accounts /\ u \in Accounts
      BY <1>1, <1>14, <2>0, <2>2, <3>1 DEF Accounts
    <3>3. Accounts' = Accounts \cup {u}
      BY <3>2
    <3> QED BY <1>3, <1>6, <1>7, <1>14, <2>0, <3>2, <3>3
  <2> QED BY <2>1, <2>2
<1>15. ASSUME TransferOwner(r), MayHandOver(r) PROVE Goal
  <2> DEFINE w == sessions[r.session].user
  <2>1. /\ w \in Users /\ r.target \in Users /\ r.target # w
        /\ member[w].role = "owner" /\ member[r.target].role = "member"
        /\ member'[w].role = "member" /\ member'[r.target].role = "owner"
        /\ \A v \in Users : v \notin {w, r.target} => member'[v] = member[v]
    BY <1>1, <1>15, HandedOver
  <2>2. Accounts' = Accounts /\ r.session # None
    BY <1>1, <1>15 DEF TransferOwner, Accounts, RequestOK
  <2> HIDE DEF w
  <2> QED BY <1>2, <2>1, <2>2 DEF MembersOK, RolesOK
<1> HIDE DEF Goal
<1>16. Goal
  BY <1>8, <1>9, <1>10, <1>11, <1>12, <1>13, <1>14, <1>15, EffectFacts DEF Bootstrap, r, u, x
<1> QED BY <1>16 DEF Goal, r, u

\* What a transaction that commits has locked, and has decided.
LEMMA Decided ==
    ASSUME NEW t \in Transactions, TxFormsOK, ChecksOK, DecisionsOK, Commit(t)
    PROVE  LET r == tx[t].request
               held == tx[t].held
           IN  /\ r.kind = "bootstrap" => Unclaimed /\ Checked(<<"bootstrap">>, "update") \in held
               /\ tx[t].found # None =>
                      StillBound(t) /\ Checked(<<"account", tx[t].found>>, "update") \in held
               /\ r.invitation # None =>
                      /\ invitations[r.invitation].status \in {"open", "expired"}
                      /\ InviterStands(r.invitation)
                      /\ Checked(<<"invitation", r.invitation>>, "update") \in held
                      /\ Checked(<<"member", invitations[r.invitation].creator>>, "share") \in held
               /\ r.session # None /\ r.kind # "transfer" =>
                      /\ sessions[r.session].status # "revoked"
                      /\ Checked(<<"account", sessions[r.session].user>>, "update") \in held
               /\ Writes(r) \subseteq held
<1> DEFINE r == tx[t].request
           held == tx[t].held
           found == tx[t].found
<1>1. /\ t \in Running /\ TxOK(t) /\ tx[t].todo = <<>> /\ tx[t].stage # "exchange"
      /\ found # None => r.session = None
  BY DEF Commit, Running, TxFormsOK, TxOK
<1>2. held \cup Elements(tx[t].todo) = held
  BY <1>1, Listing
<1>3. {l \in held : l.check} = Checks(r, found) /\ Writes(r) \subseteq held
  BY <1>1, <1>2 DEF ChecksOK, ChecksAmong
<1>4. ASSUME NEW l \in Checks(r, found) PROVE l \in held /\ Stands(t, l.row)
  BY <1>1, <1>3, <1>4 DEF DecisionsOK
<1>5. ASSUME r.kind = "bootstrap" PROVE Unclaimed /\ Checked(<<"bootstrap">>, "update") \in held
  <2>1. Checked(<<"bootstrap">>, "update") \in Checks(r, found)
    BY <1>5 DEF Checks, If
  <2> QED BY <1>4, <2>1 DEF Stands, Checked
<1>6. ASSUME found # None PROVE StillBound(t) /\ Checked(<<"account", found>>, "update") \in held
  <2>1. Checked(<<"account", found>>, "update") \in Checks(r, found)
    BY <1>6 DEF Checks, If
  <2> QED BY <1>1, <1>4, <1>6, <2>1 DEF Stands, Checked
<1>7. ASSUME r.invitation # None
      PROVE  /\ invitations[r.invitation].status \in {"open", "expired"}
             /\ InviterStands(r.invitation)
             /\ Checked(<<"invitation", r.invitation>>, "update") \in held
             /\ Checked(<<"member", invitations[r.invitation].creator>>, "share") \in held
  <2>1. /\ Checked(<<"invitation", r.invitation>>, "update") \in Checks(r, found)
        /\ Checked(<<"member", invitations[r.invitation].creator>>, "share") \in Checks(r, found)
    BY <1>7 DEF Checks, If
  <2> QED BY <1>4, <1>7, <2>1 DEF Stands, Checked
<1>8. ASSUME r.session # None, r.kind # "transfer"
      PROVE  /\ sessions[r.session].status # "revoked"
             /\ Checked(<<"account", sessions[r.session].user>>, "update") \in held
  <2>1. Checked(<<"account", sessions[r.session].user>>, "update") \in Checks(r, found)
    BY <1>8 DEF Checks, If
  <2> QED BY <1>4, <1>8, <2>1 DEF Stands, Checked
<1> QED BY <1>3, <1>5, <1>6, <1>7, <1>8

\* A transaction keeps its request, or is new and makes at most a new user.
LEMMA Requesting ==
    ASSUME NEW v \in Running', RowsOK, TxFormsOK, [Next]_vars
    PROVE  \/ v \in Running /\ tx'[v].request = tx[v].request
           \/ tx[v] = None /\ Only(v) /\ tx'[v].request.user \in {None, NewUser}
<1>1. Move(v)
  BY Moving
<1>2. CASE \E r : NewRequest(r) /\ tx'[v] = Entered(r, "locking", None, None) /\ tx[v] = None /\ Only(v)
  BY <1>2, Fields DEF NewRequest
<1>3. CASE \E k \in DOMAIN states :
               tx'[v] = Entered(CallbackOf(k), "exchange", None, None) /\ tx[v] = None /\ Only(v)
  <2>1. PICK k \in DOMAIN states :
            tx'[v] = Entered(CallbackOf(k), "exchange", None, None) /\ tx[v] = None /\ Only(v)
    BY <1>3
  <2>2. PICK r : r = CallbackOf(k)
    OBVIOUS
  <2>3. tx'[v].request = r
    BY <2>1, <2>2, Fields
  <2>4. r.user \in {None, NewUser}
    BY <2>2, CallbacksAreOK
  <2> QED BY <2>1, <2>3, <2>4
<1> QED BY <1>1, <1>2, <1>3, Fields DEF Move

\* Whose term an account and a role are of: what a step adds to the accounts.
LEMMA AccountsStep ==
    ASSUME RowsOK, TxFormsOK, MembersOK, ChecksOK, DecisionsOK, [Next]_vars
    PROVE  /\ RolesOK'
           /\ \/ Accounts' = Accounts
              \/ \E t \in Running : /\ tx'[t] = None /\ tx[t].request.user # None
                                    /\ Accounts' = Accounts \cup {tx[t].request.user}
           /\ \A s \in DOMAIN sessions' : sessions'[s].user \in Accounts'
           /\ \A i \in DOMAIN invitations' : invitations'[i].creator \in Accounts'
<1> DEFINE Goal == /\ RolesOK'
                   /\ \/ Accounts' = Accounts
                      \/ \E t \in Running : /\ tx'[t] = None /\ tx[t].request.user # None
                                            /\ Accounts' = Accounts \cup {tx[t].request.user}
                   /\ \A s \in DOMAIN sessions' : sessions'[s].user \in Accounts'
                   /\ \A i \in DOMAIN invitations' : invitations'[i].creator \in Accounts'
<1>0. Keeps
  BY Kept
<1>1. ASSUME NEW A, A = Accounts', Accounts \subseteq A,
             \/ DOMAIN sessions' = DOMAIN sessions
             \/ \E u \in A : \E via : sessions' = NewSession(u, via)
      PROVE  \A s \in DOMAIN sessions' : sessions'[s].user \in A
  BY <1>0, <1>1, SessionUsers DEF MembersOK
<1>2. ASSUME NEW A, A = Accounts', Accounts \subseteq A,
             \/ DOMAIN invitations' = DOMAIN invitations
             \/ \E u \in A : \E old, new : /\ new.creator = u /\ Sequence(old)
                                           /\ DOMAIN old = DOMAIN invitations
                                           /\ invitations' = Append(old, new)
      PROVE  \A i \in DOMAIN invitations' : invitations'[i].creator \in A
  BY <1>0, <1>2, Creators DEF MembersOK
<1>3. ASSUME UNCHANGED <<password, bound, member>>,
             \/ DOMAIN sessions' = DOMAIN sessions
             \/ \E u \in password : \E via : sessions' = NewSession(u, via),
             DOMAIN invitations' = DOMAIN invitations
      PROVE  Goal
  <2>1. Accounts' = Accounts
    BY <1>3 DEF Accounts
  <2>2. RolesOK'
    BY <1>3, <2>1 DEF MembersOK, RolesOK
  <2>3. password \subseteq Accounts
    BY DEF Accounts, RowsOK
  <2>4. \A s \in DOMAIN sessions' : sessions'[s].user \in Accounts'
    BY <1>1, <1>3, <2>1, <2>3
  <2>5. \A i \in DOMAIN invitations' : invitations'[i].creator \in Accounts'
    BY <1>2, <1>3, <2>1
  <2> QED BY <2>1, <2>2, <2>4, <2>5
<1>4. ASSUME NEW t \in Transactions, Commit(t) PROVE Goal
  <2> DEFINE r == tx[t].request
             u == Admitted(t)
  <2>1. /\ tx[t].request.kind = "bootstrap" => Unclaimed
        /\ tx[t].found # None => StillBound(t)
    BY <1>4, Decided
  <2>2. /\ RolesOK'
        /\ \/ Accounts' = Accounts
           \/ u = r.user /\ r.user # None /\ Accounts' = Accounts \cup {u}
        /\ r.kind # "start" => u \in Accounts'
    BY <1>4, <2>1, RolesKept
  <2>3. t \in Running /\ tx'[t] = None /\ RequestOK(r)
    BY <1>4, Ending DEF TxFormsOK, TxOK
  <2>4. PICK A : A = Accounts'
    OBVIOUS
  <2>5. Accounts \subseteq A
    BY <2>2, <2>4
  <2>6. \/ DOMAIN sessions' = DOMAIN sessions
        \/ \E w \in A : \E via : sessions' = NewSession(w, via)
    <3>1. \/ UNCHANGED sessions
          \/ r.kind \in {"join", "callback"} /\ \E via : sessions' = NewSession(u, via)
          \/ UnlinkExternal(r)
      BY <1>4, EffectFacts DEF Bootstrap, CreateInvitation, BeginOIDC, TransferOwner
    <3>2. UnlinkExternal(r) => DOMAIN sessions' = DOMAIN sessions
      BY DEF UnlinkExternal, Revoked
    <3> QED BY <2>2, <2>4, <3>1, <3>2
  <2>7. \/ DOMAIN invitations' = DOMAIN invitations
        \/ \E w \in A : \E old, new : /\ new.creator = w /\ Sequence(old)
                                      /\ DOMAIN old = DOMAIN invitations
                                      /\ invitations' = Append(old, new)
    <3>1. \/ UNCHANGED invitations
          \/ Join(r.invitation, u)
          \/ CreateInvitation(t, r)
      BY <1>4, EffectFacts DEF Bootstrap, UnlinkExternal, BeginOIDC, TransferOwner
    <3>2. Join(r.invitation, u) => DOMAIN invitations' = DOMAIN invitations
      BY DEF Join
    <3>3. ASSUME CreateInvitation(t, r)
          PROVE  \E w \in A : \E old, new : /\ new.creator = w /\ Sequence(old)
                                            /\ DOMAIN old = DOMAIN invitations
                                            /\ invitations' = Append(old, new)
      <4> DEFINE w == sessions[r.session].user
                 new == [creator |-> w, revision |-> member[w].revision, status |-> "open"]
      <4>1. w \in A
        BY <2>3, <2>5, <3>3 DEF CreateInvitation, RequestOK, Optional, MembersOK
      <4>2. \E old : /\ Sequence(old) /\ DOMAIN old = DOMAIN invitations
                     /\ invitations' = Append(old, new)
        BY <3>3, Inviting DEF Left
      <4>3. new.creator = w
        OBVIOUS
      <4> HIDE DEF w, new
      <4> QED BY <4>1, <4>2, <4>3
    <3> QED BY <3>1, <3>2, <3>3
  <2>8. \A s \in DOMAIN sessions' : sessions'[s].user \in A
    BY <1>1, <2>4, <2>5, <2>6
  <2>9. \A i \in DOMAIN invitations' : invitations'[i].creator \in A
    BY <1>2, <2>4, <2>5, <2>7
  <2> HIDE DEF r, u
  <2> QED BY <2>2, <2>3, <2>4, <2>8, <2>9 DEF r
<1>5. ASSUME NEW t \in Transactions,
             \/ Begin(t) \/ Acquire(t) \/ Purge(t) \/ Abort(t)
             \/ \E x \in Subjects : Exchange(t, x)
             \/ \E k \in DOMAIN states : ConsumeState(t, k)
      PROVE  Goal
  <2>1. UNCHANGED <<password, bound, member, sessions, invitations>>
    BY <1>5 DEF Begin, Acquire, Purge, Abort, Exchange, ConsumeState, rows
  <2> QED BY <1>3, <2>1
<1>6. ASSUME NEW u \in Users, Login(u) PROVE Goal
  BY <1>3, <1>6 DEF Login
<1>7. ASSUME NEW u \in Users, Recover(u) PROVE Goal
  <2>1. DOMAIN sessions' = DOMAIN sessions
    BY <1>7 DEF Recover, Revoked
  <2> QED BY <1>3, <1>7, <2>1 DEF Recover
<1>8. ASSUME NEW s \in DOMAIN sessions, RevokeSession(s) PROVE Goal
  BY <1>3, <1>8 DEF RevokeSession
<1>9. ASSUME Age PROVE Goal
  <2>1. DOMAIN sessions' = DOMAIN sessions /\ DOMAIN invitations' = DOMAIN invitations
    BY <1>9 DEF Age
  <2> QED BY <1>3, <1>9, <2>1 DEF Age
<1>10. ASSUME UNCHANGED vars PROVE Goal
  BY <1>3, <1>10 DEF vars, rows
<1> HIDE DEF Goal
<1>11. Goal
  BY <1>4, <1>5, <1>6, <1>7, <1>8, <1>9, <1>10 DEF Next
<1> QED BY <1>11 DEF Goal

\* Accounts, members, Sessions and invitations keep to one another.
LEMMA MembersKept ==
    ASSUME RowsOK, TxFormsOK, MembersOK, ChecksOK, DecisionsOK, [Next]_vars
    PROVE  MembersOK'
<1>1. /\ RolesOK'
      /\ \/ Accounts' = Accounts
         \/ \E t \in Running : /\ tx'[t] = None /\ tx[t].request.user # None
                               /\ Accounts' = Accounts \cup {tx[t].request.user}
      /\ \A s \in DOMAIN sessions' : sessions'[s].user \in Accounts'
      /\ \A i \in DOMAIN invitations' : invitations'[i].creator \in Accounts'
  BY AccountsStep
<1>2. \A v \in Running' :
          \/ v \in Running /\ tx'[v].request = tx[v].request
          \/ tx[v] = None /\ Only(v) /\ tx'[v].request.user \in {None, NewUser}
  BY Requesting
<1>3. None \notin Accounts
  BY IdentitiesAssumption DEF Accounts
<1>4. NewUser # None => NewUser \notin Accounts /\ \A t \in Running : tx[t].request.user # NewUser
  BY NewUserIsFresh
<1>5. ASSUME NEW v \in Running' PROVE tx'[v].request.user \notin Accounts'
  <2>1. CASE Accounts' = Accounts
    BY <1>2, <1>3, <1>4, <1>5, <2>1 DEF MembersOK
  <2>2. ASSUME NEW t \in Running, tx'[t] = None, tx[t].request.user # None,
               Accounts' = Accounts \cup {tx[t].request.user}
        PROVE  tx'[v].request.user \notin Accounts'
    <3>1. v # t /\ tx'[t] # tx[t]
      BY <1>5, <2>2 DEF Running
    <3>2. v \in Running /\ tx'[v].request = tx[v].request
      BY <1>2, <1>5, <2>2, <3>1 DEF Only, Running
    <3> QED BY <2>2, <3>1, <3>2 DEF MembersOK
  <2> QED BY <1>1, <2>1, <2>2
<1>6. ASSUME NEW v \in Running', NEW w \in Running', v # w,
             tx'[v].request.user = tx'[w].request.user, tx'[v].request.user # None
      PROVE  FALSE
  <2>1. CASE v \in Running /\ w \in Running /\ tx'[v].request = tx[v].request /\ tx'[w].request = tx[w].request
    BY <1>6, <2>1 DEF MembersOK
  <2>2. CASE tx[v] = None /\ Only(v) /\ tx'[v].request.user \in {None, NewUser}
    <3>1. tx'[w] = tx[w] /\ w \in Running
      BY <1>6, <2>2 DEF Only, Running
    <3> QED BY <1>4, <1>6, <2>2, <3>1
  <2>3. CASE tx[w] = None /\ Only(w) /\ tx'[w].request.user \in {None, NewUser}
    <3>1. tx'[v] = tx[v] /\ v \in Running
      BY <1>6, <2>3 DEF Only, Running
    <3> QED BY <1>4, <1>6, <2>3, <3>1
  <2> QED BY <1>2, <1>6, <2>1, <2>2, <2>3
<1> QED BY <1>1, <1>5, <1>6 DEF MembersOK

-----------------------------------------------------------------------------
(* Invitations are used once *)

\* What steps other than a commit do to the rows that decisions are about.
LEMMA Quiet ==
    ASSUME RowsOK, [Next]_vars
    PROVE  \/ \E t \in Transactions : Commit(t)
           \/ /\ UNCHANGED <<password, bound, member, joined>>
              /\ DOMAIN invitations' = DOMAIN invitations
              /\ \A i \in DOMAIN invitations :
                    \/ invitations'[i] = invitations[i]
                    \/ invitations[i].status = "open" /\ invitations'[i].status = "expired"
              /\ \/ UNCHANGED sessions
                 \/ \E u \in password : /\ Unlocked(<<"account", u>>)
                                        /\ sessions' \in {NewSession(u, "password"), Revoked(u)}
                 \/ \E s \in DOMAIN sessions, st \in {"old", "expired", "logout"} :
                        sessions' = [sessions EXCEPT ![s].status = st]
<1> DEFINE Calm == /\ DOMAIN invitations' = DOMAIN invitations
                   /\ \A i \in DOMAIN invitations :
                         \/ invitations'[i] = invitations[i]
                         \/ invitations[i].status = "open" /\ invitations'[i].status = "expired"
           Opened == \/ UNCHANGED sessions
                     \/ \E u \in password : /\ Unlocked(<<"account", u>>)
                                            /\ sessions' \in {NewSession(u, "password"), Revoked(u)}
                     \/ \E s \in DOMAIN sessions, st \in {"old", "expired", "logout"} :
                            sessions' = [sessions EXCEPT ![s].status = st]
           Goal == UNCHANGED <<password, bound, member, joined>> /\ Calm /\ Opened
<1>1. UNCHANGED invitations => Calm
  OBVIOUS
<1>2. ASSUME UNCHANGED <<password, bound, member, joined, invitations, sessions>> PROVE Goal
  BY <1>2
<1>3. ASSUME NEW t \in Transactions,
             \/ Begin(t) \/ Acquire(t) \/ Purge(t) \/ Abort(t)
             \/ \E x \in Subjects : Exchange(t, x)
             \/ \E k \in DOMAIN states : ConsumeState(t, k)
      PROVE  Goal
  <2>1. UNCHANGED <<password, bound, member, joined, invitations, sessions>>
    BY <1>3 DEF Begin, Acquire, Purge, Abort, Exchange, ConsumeState, rows
  <2> HIDE DEF Goal
  <2> QED BY <1>2, <2>1
<1> HIDE DEF Calm
<1>4. ASSUME NEW u \in Users, Login(u) \/ Recover(u) PROVE Goal
  BY <1>1, <1>4 DEF Login, Recover
<1>5. ASSUME NEW s \in DOMAIN sessions, RevokeSession(s) PROVE Goal
  BY <1>1, <1>5 DEF RevokeSession
<1>6. ASSUME Age PROVE Goal
  <2>0. UNCHANGED <<password, bound, member, joined>>
    BY <1>6 DEF Age
  <2>1. ASSUME NEW s \in DOMAIN sessions, UNCHANGED invitations,
               sessions' = [sessions EXCEPT ![s].status = IF @ = "recent" THEN "old" ELSE "expired"]
        PROVE  Goal
    <3>1. \E st \in {"old", "expired", "logout"} : sessions' = [sessions EXCEPT ![s].status = st]
      BY <2>1
    <3> QED BY <1>1, <2>0, <2>1, <3>1
  <2>2. ASSUME NEW i \in DOMAIN invitations, invitations[i].status = "open", UNCHANGED sessions,
               invitations' = [invitations EXCEPT ![i].status = "expired"]
        PROVE  Goal
    <3>0. invitations[i] \in InvitationRow
      BY DEF RowsOK
    <3>1. [invitations[i] EXCEPT !.status = "expired"].status = "expired"
      BY <3>0, StatusWritten
    <3> DEFINE new == [invitations[i] EXCEPT !.status = "expired"]
    <3>2. invitations' = [invitations EXCEPT ![i] = new]
      BY <2>2
    <3>3. new.status = "expired"
      BY <3>1
    <3> HIDE DEF new
    <3>4. Calm
      BY <2>2, <3>2, <3>3 DEF Calm
    <3> QED BY <2>0, <2>2, <3>4
  <2> QED BY <1>1, <1>6, <2>0, <2>1, <2>2 DEF Age
<1>7. ASSUME UNCHANGED vars PROVE Goal
  BY <1>1, <1>7 DEF vars, rows
<1> HIDE DEF Goal
<1>8. Goal \/ \E t \in Transactions : Commit(t)
  BY <1>3, <1>4, <1>5, <1>6, <1>7 DEF Next
<1> QED BY <1>8 DEF Goal, Calm, Opened

\* An invitation that admits somebody has admitted nobody before.
LEMMA AdmissionsKept ==
    ASSUME RowsOK, TxFormsOK, MembersOK, InvitationsOK, ChecksOK, DecisionsOK, [Next]_vars
    PROVE  InvitationsOK'
<1> DEFINE Used == \A j \in joined : invitations[j[1]].status \in {"consumed", "gone"}
           Once == \A j, k \in joined : j[1] = k[1] => j = k
           First == \A u, v \in Users :
                       /\ member[u].role # "none" /\ \A j \in joined : j[2] # u
                       /\ member[v].role # "none" /\ \A j \in joined : j[2] # v
                       => u = v
           Goal == Used' /\ Once' /\ First'
<1>0. Used /\ Once /\ First
  BY DEF InvitationsOK
<1>1. \A j \in joined : j[1] \in DOMAIN invitations /\ j[2] \in Users
  BY DEF RowsOK
<1>2. ASSUME joined \subseteq joined',
             \A u \in Users : member'[u].role # "none" =>
                 member[u].role # "none" \/ \E j \in joined' : j[2] = u
      PROVE  First'
  BY <1>0, <1>2
<1>3. ASSUME UNCHANGED joined, DOMAIN invitations \subseteq DOMAIN invitations',
             \A i \in DOMAIN invitations :
                 \/ invitations'[i] = invitations[i]
                 \/ invitations[i].status = "open"
                 \/ invitations'[i].status \in {"consumed", "gone"}
      PROVE  Used' /\ Once'
  BY <1>0, <1>1, <1>3
<1> HIDE DEF Used, Once, First
<1>4. ASSUME UNCHANGED <<joined, member, invitations>> PROVE Goal
  BY <1>2, <1>3, <1>4
<1>5. ASSUME NEW t \in Transactions, Commit(t) PROVE Goal
  <2> DEFINE r == tx[t].request
             u == Admitted(t)
  <2>1. /\ RequestOK(r) /\ (r.kind # "start" => u \in Users)
        /\ member \in [Users -> MemberRow]
    BY <1>5, EffectFacts DEF RowsOK, MemberRow
  <2>2. ASSUME Bootstrap(r) PROVE Goal
    <3>1. Accounts = {} /\ r.user \in Users
      BY <1>5, <2>1, <2>2, Decided, IdentitiesAssumption DEF Bootstrap, Unclaimed, RequestOK, Optional
    <3>2. \A w \in Users : member[w].role = "none"
      BY <3>1 DEF MembersOK, RolesOK
    <3>3. /\ member' = [member EXCEPT ![r.user].role = "owner"]
          /\ UNCHANGED <<joined, invitations>>
      BY <2>2 DEF Bootstrap
    <3>4. \A w \in Users : w # r.user => member'[w].role = "none"
      BY <2>1, <3>2, <3>3
    <3>5. First'
      BY <3>4 DEF First
    <3> QED BY <1>3, <3>3, <3>5
  <2>3. ASSUME CreateInvitation(t, r) PROVE Goal
    <3>1. UNCHANGED <<joined, member>>
      BY <2>3 DEF CreateInvitation
    <3> DEFINE w == sessions[r.session].user
               new == [creator |-> w, revision |-> member[w].revision, status |-> "open"]
    <3>0. \E old : Left(t, old) /\ invitations' = Append(old, new)
      BY <2>3, Inviting
    <3> HIDE DEF new
    <3>2. PICK old : /\ Sequence(old) /\ DOMAIN old = DOMAIN invitations
                     /\ invitations' = Append(old, new)
                     /\ \A i \in DOMAIN invitations :
                            \/ old[i] = invitations[i]
                            \/ old[i] = [invitations[i] EXCEPT !.status = "gone"]
      BY <3>0 DEF Left
    <3>3. DOMAIN invitations \subseteq DOMAIN invitations' /\ \A i \in DOMAIN invitations : invitations'[i] = old[i]
      BY <3>2, Appended
    <3>4. \A i \in DOMAIN invitations : [invitations[i] EXCEPT !.status = "gone"].status = "gone"
      BY StatusWritten DEF RowsOK
    <3>5. \A i \in DOMAIN invitations : invitations'[i] = invitations[i] \/ invitations'[i].status = "gone"
      BY <3>2, <3>3, <3>4
    <3> QED BY <1>2, <1>3, <3>1, <3>3, <3>5
  <2>4. ASSUME r.invitation # None, u \in Users, Join(r.invitation, u) PROVE Goal
    <3> DEFINE i == r.invitation
    <3>1. i \in DOMAIN invitations
      BY <2>1, <2>4 DEF RequestOK, Optional
    <3>2. invitations[i].status \in {"open", "expired"}
      BY <1>5, <2>4, Decided
    <3>3. /\ \A v \in Users : v # u => member'[v] = member[v]
          /\ invitations'[i].status = "consumed"
          /\ \A q \in DOMAIN invitations : q # i => invitations'[q] = invitations[q]
          /\ joined' = joined \cup {<<i, u>>}
      BY <2>4, <3>1, Joining
    <3> HIDE DEF i
    <3>4. \A j \in joined : j[1] # i
      BY <1>0, <3>2 DEF Used
    <3>5. Used'
      BY <1>0, <1>1, <3>3, <3>4 DEF Used
    <3>6. Once'
      BY <1>0, <3>3, <3>4 DEF Once
    <3>7. First'
      <4>1. <<i, u>> \in joined' /\ <<i, u>>[2] = u
        BY <3>3
      <4> QED BY <1>2, <3>3, <4>1
    <3> QED BY <3>5, <3>6, <3>7
  <2>5. ASSUME UnlinkExternal(r) \/ BeginOIDC(r) PROVE Goal
    BY <1>4, <2>5 DEF UnlinkExternal, BeginOIDC
  <2>6. ASSUME TransferOwner(r), MayHandOver(r) PROVE Goal
    <3> DEFINE w == sessions[r.session].user
    <3>1. /\ member[w].role # "none" /\ member[r.target].role # "none"
          /\ \A v \in Users : v \notin {w, r.target} => member'[v] = member[v]
      BY <2>1, <2>6, HandedOver
    <3>2. UNCHANGED <<joined, invitations>>
      BY <2>6 DEF TransferOwner
    <3> HIDE DEF w
    <3> QED BY <1>2, <1>3, <3>1, <3>2
  <2> HIDE DEF Goal, r, u
  <2> QED BY <1>4, <1>5, <2>1, <2>2, <2>3, <2>4, <2>5, <2>6, EffectFacts DEF r, u
<1>6. ASSUME UNCHANGED <<member, joined>>, DOMAIN invitations' = DOMAIN invitations,
             \A i \in DOMAIN invitations :
                 invitations'[i] = invitations[i] \/ invitations[i].status = "open"
      PROVE  Goal
  BY <1>2, <1>3, <1>6
<1> HIDE DEF Goal
<1>7. Goal
  BY <1>5, <1>6, Quiet
<1> QED BY <1>7 DEF Goal, Used, Once, First, InvitationsOK

-----------------------------------------------------------------------------
(* What has been decided stands *)

\* Two transactions do not hold a row that one of them has for an update.
LEMMA Excluded ==
    ASSUME LocksOK, NEW t \in Running, NEW v \in Running, NEW l \in tx[t].held, NEW m \in tx[v].held,
           l.row = m.row, "update" \in {l.mode, m.mode}
    PROVE  t = v
BY DEF LocksOK, Conflict

\* How a row and a mode are asked for.
LEMMA Asked ==
    \A row, mode : /\ Checked(row, mode).row = row /\ Checked(row, mode).mode = mode
                   /\ Lock(row, mode).row = row /\ Lock(row, mode).mode = mode
BY DEF Checked, Lock

\* While the setup is locked and there is no account, nobody else makes one.
LEMMA SetupStands ==
    ASSUME IdentitiesInv, [Next]_vars, NEW v \in Running, tx'[v] # None,
           Checked(<<"bootstrap">>, "update") \in tx[v].held, Unclaimed
    PROVE  Unclaimed'
<1>0. RowsOK /\ TxFormsOK /\ MembersOK /\ LocksOK /\ ChecksOK /\ DecisionsOK /\ Accounts = {}
  BY DEF IdentitiesInv, Unclaimed
<1>1. ASSUME NEW t \in Transactions, Commit(t) PROVE Accounts' = Accounts
  <2> DEFINE r == tx[t].request
             u == Admitted(t)
  <2>1. t \in Running /\ t # v /\ RequestOK(r) /\ TxOK(t)
    BY <1>0, <1>1, Ending DEF TxFormsOK, TxOK
  <2>2. r.kind # "bootstrap"
    <3>1. r.kind = "bootstrap" => Checked(<<"bootstrap">>, "update") \in tx[t].held
      BY <1>0, <1>1, Decided
    <3> QED BY <1>0, <2>1, <3>1, Excluded, Asked
  <2>3. r.session = None /\ r.invitation = None
    BY <1>0, <2>1 DEF RequestOK, Optional, MembersOK
  <2>4. tx[t].found = None
    <3>1. tx[t].found # None => bound[tx[t].subject] = tx[t].found /\ tx[t].subject \in Subjects /\ tx[t].found \in Users
      BY <1>0, <1>1, <2>1, Decided DEF StillBound, TxOK, Commit, Optional
    <3> QED BY <1>0, <3>1 DEF Accounts
  <2>5. r.kind = "start"
    BY <2>1, <2>2, <2>3, <2>4, <1>1 DEF RequestOK, TxOK, Commit
  <2>6. UNCHANGED <<password, bound>>
    BY <1>1, <2>5 DEF Commit, Effect, Bootstrap, CreateInvitation, AcceptInvitation, UnlinkExternal,
                      BeginOIDC, CompleteOIDC, TransferOwner
  <2> QED BY <2>6 DEF Accounts
<1>2. UNCHANGED <<password, bound>> => Accounts' = Accounts
  BY DEF Accounts
<1>3. Accounts' = Accounts
  BY <1>0, <1>1, <1>2, Quiet
<1> QED BY <1>0, <1>3 DEF Unclaimed

\* While an invitation is locked nobody else consumes or purges it.
LEMMA InvitationStands ==
    ASSUME IdentitiesInv, [Next]_vars, NEW v \in Running, tx'[v] # None, NEW i \in DOMAIN invitations,
           Checked(<<"invitation", i>>, "update") \in tx[v].held,
           invitations[i].status \in {"open", "expired"}
    PROVE  invitations'[i].status \in {"open", "expired"}
<1>0. RowsOK /\ TxFormsOK /\ MembersOK /\ LocksOK /\ ChecksOK /\ PurgesOK /\ DecisionsOK
  BY DEF IdentitiesInv
<1>1. ASSUME NEW t \in Transactions, Commit(t) PROVE invitations'[i] = invitations[i]
  <2> DEFINE r == tx[t].request
             u == Admitted(t)
  <2>1. t \in Running /\ t # v /\ RequestOK(r)
    BY <1>0, <1>1, Ending DEF TxFormsOK, TxOK
  <2>2. \A l \in tx[t].held : l.row # <<"invitation", i>>
    BY <1>0, <2>1, Excluded, Asked
  <2>3. ASSUME CreateInvitation(t, r) PROVE invitations'[i] = invitations[i]
    <3> DEFINE w == sessions[r.session].user
               new == [creator |-> w, revision |-> member[w].revision, status |-> "open"]
    <3>1. \E old : Left(t, old) /\ invitations' = Append(old, new)
      BY <1>0, <2>3, Inviting
    <3> HIDE DEF new
    <3>2. PICK old : Left(t, old) /\ invitations' = Append(old, new)
      BY <3>1
    <3>3. invitations'[i] = old[i]
      BY <3>2, Appended DEF Left
    <3>4. ASSUME NEW l \in tx[t].held, l.row[1] = "invitation", l.row[2] = i PROVE FALSE
      <4>1. r.kind = "invite" /\ tx[t].stage # "exchange" /\ tx[t].todo = <<>>
        BY <1>1, <2>3 DEF CreateInvitation, Commit
      <4>2. CASE PurgeStep(l)
        <5>1. PICK k : l = Lock(<<"invitation", k>>, "update")
          BY <4>2 DEF PurgeStep
        <5>2. l.row = <<"invitation", k>>
          BY <5>1, Asked
        <5>3. k = i
          BY <3>4, <5>2
        <5> QED BY <2>2, <5>2, <5>3
      <4>3. CASE l.check
        <5>1. l \in Checks(r, tx[t].found)
          BY <1>0, <2>1, <4>1, <4>3 DEF ChecksOK, ChecksAmong
        <5>2. r.invitation = None
          BY <2>1, <4>1 DEF RequestOK
        <5>3. l.row[1] \in {"bootstrap", "session", "account", "member"}
          <6>1. \A row, mode : Checked(row, mode).row = row
            BY Asked
          <6> QED BY <5>1, <5>2, <6>1 DEF Checks, If
        <5> QED BY <3>4, <5>3
      <4> QED BY <1>0, <2>1, <4>1, <4>2, <4>3 DEF PurgesOK
    <3> QED BY <3>2, <3>3, <3>4 DEF Left
  <2>4. ASSUME r.invitation # None, u \in Users, Join(r.invitation, u) PROVE invitations'[i] = invitations[i]
    <3>1. r.invitation \in DOMAIN invitations
      BY <2>1, <2>4 DEF RequestOK, Optional
    <3>2. Checked(<<"invitation", r.invitation>>, "update") \in tx[t].held
      BY <1>0, <1>1, <2>4, Decided
    <3>3. r.invitation # i
      BY <2>2, <3>2, Asked
    <3> QED BY <1>0, <2>4, <3>1, <3>3, Joining
  <2>5. UNCHANGED invitations => invitations'[i] = invitations[i]
    OBVIOUS
  <2>6. r.kind # "start" => u \in Users
    BY <1>0, <1>1, EffectFacts
  <2> HIDE DEF r, u
  <2>7. \/ UNCHANGED invitations
        \/ CreateInvitation(t, r)
        \/ r.kind # "start" /\ r.invitation # None /\ Join(r.invitation, u)
    BY <1>0, <1>1, EffectFacts DEF Bootstrap, UnlinkExternal, BeginOIDC, TransferOwner, r, u
  <2> QED BY <2>3, <2>4, <2>5, <2>6, <2>7
<1> QED BY <1>0, <1>1, Quiet

\* While the membership of the inviter is locked, the inviter's term does not end.
LEMMA TermStands ==
    ASSUME IdentitiesInv, [Next]_vars, NEW v \in Running, tx'[v] # None, NEW i \in DOMAIN invitations,
           Checked(<<"member", invitations[i].creator>>, "share") \in tx[v].held, InviterStands(i)
    PROVE  InviterStands(i)'
<1>0. RowsOK /\ TxFormsOK /\ MembersOK /\ LocksOK /\ ChecksOK /\ DecisionsOK
  BY DEF IdentitiesInv
<1>1. PICK c : c = invitations[i].creator
  OBVIOUS
<1>2. /\ c \in Accounts /\ c \in Users /\ member[c].role = "owner"
      /\ invitations'[i].creator = c /\ invitations'[i].revision = invitations[i].revision
  BY <1>0, <1>1, Kept DEF MembersOK, Accounts, InviterStands, Keeps
<1>3. ASSUME NEW t \in Transactions, Commit(t) PROVE member'[c] = member[c]
  <2> DEFINE r == tx[t].request
             u == Admitted(t)
  <2>1. t \in Running /\ t # v /\ RequestOK(r) /\ (r.kind # "start" => u \in Users)
    BY <1>0, <1>3, Ending, EffectFacts DEF TxFormsOK, TxOK
  <2>2. ~Bootstrap(r)
    BY <1>0, <1>2, <1>3, Decided DEF Bootstrap, Unclaimed
  <2>3. ASSUME r.invitation # None, u \in Users, Join(r.invitation, u) PROVE member'[c] = member[c]
    <3>1. r.invitation \in DOMAIN invitations
      BY <2>1, <2>3 DEF RequestOK, Optional
    <3> QED BY <1>0, <1>2, <2>3, <3>1, Joining
  <2>4. ASSUME TransferOwner(r), MayHandOver(r) PROVE member'[c] = member[c]
    <3> DEFINE w == sessions[r.session].user
    <3>1. \A x \in Users : x \notin {w, r.target} => member'[x] = member[x]
      BY <1>0, <2>1, <2>4, HandedOver
    <3>2. ASSUME c \in {w, r.target} PROVE FALSE
      <4>1. Lock(<<"member", c>>, "update") \in Writes(r)
        BY <2>4, <3>2 DEF Writes, TransferOwner
      <4>2. Lock(<<"member", c>>, "update") \in tx[t].held
        BY <1>0, <1>3, <4>1, Decided
      <4> QED BY <1>0, <1>1, <2>1, <4>2, Excluded, Asked
    <3> QED BY <1>2, <3>1, <3>2
  <2> HIDE DEF r, u
  <2>5. \/ UNCHANGED member
        \/ Bootstrap(r)
        \/ r.kind # "start" /\ r.invitation # None /\ Join(r.invitation, u)
        \/ TransferOwner(r) /\ MayHandOver(r)
    BY <1>0, <1>3, EffectFacts DEF CreateInvitation, UnlinkExternal, BeginOIDC, r, u
  <2> QED BY <2>1, <2>2, <2>3, <2>4, <2>5
<1>4. member'[c] = member[c]
  BY <1>0, <1>3, Quiet
<1> QED BY <1>1, <1>2, <1>4 DEF InviterStands

\* While the account of an identity is locked, nobody else unbinds it.
LEMMA BindingStands ==
    ASSUME IdentitiesInv, [Next]_vars, NEW v \in Running, tx'[v] # None, NEW x \in Subjects,
           NEW f, f # None, Checked(<<"account", f>>, "update") \in tx[v].held, bound[x] = f
    PROVE  bound'[x] = f
<1>0. RowsOK /\ TxFormsOK /\ MembersOK /\ LocksOK /\ ChecksOK /\ DecisionsOK
  BY DEF IdentitiesInv
<1>1. ASSUME NEW t \in Transactions, Commit(t) PROVE bound'[x] = f
  <2> DEFINE r == tx[t].request
             u == Admitted(t)
             y == tx[t].subject
  <2>1. t \in Running /\ t # v /\ RequestOK(r) /\ Valid(t) /\ bound \in [Subjects -> Optional(Users)]
    BY <1>0, <1>1, Ending DEF TxFormsOK, TxOK, RowsOK, Commit
  <2>2. ASSUME UnlinkExternal(r) PROVE bound'[x] = f
    <3>1. sessions[r.session].user # f
      <4>1. Checked(<<"account", sessions[r.session].user>>, "update") \in tx[t].held
        BY <1>0, <1>1, <2>1, <2>2, Decided DEF UnlinkExternal, RequestOK
      <4> QED BY <1>0, <2>1, <4>1, Excluded, Asked
    <3> QED BY <2>2, <3>1 DEF UnlinkExternal
  <2>3. ASSUME r.kind = "callback", r.session # None \/ tx[t].found = None PROVE bound[y] = None
    BY <2>1, <2>3 DEF Valid
  <2>4. \/ bound' = bound
        \/ UnlinkExternal(r)
        \/ /\ r.kind = "callback" /\ (r.session # None \/ tx[t].found = None)
           /\ bound' = [bound EXCEPT ![y] = u]
    <3> HIDE DEF r, u, y
    <3> QED BY <1>0, <1>1, EffectFacts DEF Bootstrap, CreateInvitation, BeginOIDC, TransferOwner, r, u, y
  <2> HIDE DEF r, u, y
  <2> QED BY <2>1, <2>2, <2>3, <2>4
<1> QED BY <1>0, <1>1, Quiet

\* While the account of a Session is locked, nobody else revokes the Session.
LEMMA SessionStands ==
    ASSUME IdentitiesInv, [Next]_vars, NEW v \in Running, tx'[v] # None, NEW s \in DOMAIN sessions,
           Checked(<<"account", sessions[s].user>>, "update") \in tx[v].held,
           sessions[s].status # "revoked"
    PROVE  sessions'[s].status # "revoked"
<1>0. /\ RowsOK /\ TxFormsOK /\ MembersOK /\ LocksOK /\ ChecksOK /\ DecisionsOK
      /\ Sequence(sessions) /\ sessions[s] \in SessionRow
  BY DEF IdentitiesInv, RowsOK
<1>1. ASSUME NEW u, NEW via, sessions' = NewSession(u, via) PROVE sessions'[s] = sessions[s]
  BY <1>0, <1>1, Appended DEF NewSession
<1>2. ASSUME NEW u, u # sessions[s].user, sessions' = Revoked(u) PROVE sessions'[s] = sessions[s]
  BY <1>2 DEF Revoked
<1>3. ASSUME NEW t \in Transactions, Commit(t) PROVE sessions'[s] = sessions[s]
  <2> DEFINE r == tx[t].request
             u == Admitted(t)
  <2>1. t \in Running /\ t # v /\ RequestOK(r)
    BY <1>0, <1>3, Ending DEF TxFormsOK, TxOK
  <2>2. ASSUME UnlinkExternal(r) PROVE sessions'[s] = sessions[s]
    <3>1. sessions[r.session].user # sessions[s].user
      <4>1. Checked(<<"account", sessions[r.session].user>>, "update") \in tx[t].held
        BY <1>0, <1>3, <2>1, <2>2, Decided DEF UnlinkExternal, RequestOK
      <4> QED BY <1>0, <2>1, <4>1, Excluded, Asked
    <3> QED BY <1>2, <2>2, <3>1 DEF UnlinkExternal
  <2>3. \/ sessions' = sessions
        \/ UnlinkExternal(r)
        \/ \E via : sessions' = NewSession(u, via)
    <3> HIDE DEF r, u
    <3> QED BY <1>0, <1>3, EffectFacts DEF Bootstrap, CreateInvitation, BeginOIDC, TransferOwner, r, u
  <2> HIDE DEF r, u
  <2> QED BY <1>1, <2>2, <2>3
<1>4. ASSUME NEW u \in password, Unlocked(<<"account", u>>), sessions' \in {NewSession(u, "password"), Revoked(u)}
      PROVE  sessions'[s] = sessions[s]
  <2>1. u # sessions[s].user
    BY <1>4, Asked DEF Unlocked
  <2> QED BY <1>1, <1>2, <1>4, <2>1
<1>5. ASSUME NEW q \in DOMAIN sessions, NEW st \in {"old", "expired", "logout"},
             sessions' = [sessions EXCEPT ![q].status = st]
      PROVE  sessions'[s].status # "revoked"
  <2> DEFINE new == [sessions[q] EXCEPT !.status = st]
  <2>1. new.status = st
    BY <1>0 DEF RowsOK, SessionRow
  <2>2. sessions' = [sessions EXCEPT ![q] = new]
    BY <1>5
  <2> HIDE DEF new
  <2>3. sessions'[q] = new /\ \A p \in DOMAIN sessions : p # q => sessions'[p] = sessions[p]
    BY <1>0, <2>2, Replaced
  <2> QED BY <2>1, <2>3
<1>6. \/ \E t \in Transactions : Commit(t)
      \/ UNCHANGED sessions
      \/ \E u \in password : /\ Unlocked(<<"account", u>>)
                             /\ sessions' \in {NewSession(u, "password"), Revoked(u)}
      \/ \E q \in DOMAIN sessions, st \in {"old", "expired", "logout"} :
             sessions' = [sessions EXCEPT ![q].status = st]
  BY <1>0, Quiet
<1> QED BY <1>3, <1>4, <1>5, <1>6

\* A lock is held since an earlier step, or was the next of the plan and nothing else moved.
LEMMA Holding ==
    ASSUME RowsOK, TxFormsOK, [Next]_vars, NEW v \in Running', tx'[v].held # {}
    PROVE  /\ v \in Running /\ tx[v].stage # "exchange"
           /\ tx'[v].request = tx[v].request /\ tx'[v].found = tx[v].found
           /\ tx'[v].subject = tx[v].subject
           /\ \/ tx'[v].held = tx[v].held
              \/ /\ Acquire(v) /\ UNCHANGED rows
                 /\ tx'[v].held = tx[v].held \cup {Head(tx[v].todo)}
<1>1. Move(v)
  BY Moving
<1>2. ASSUME v \in Running, tx'[v] = tx[v] PROVE tx[v].stage # "exchange"
  BY <1>2 DEF TxFormsOK, TxOK
<1>3. ASSUME v \in Running, Acquire(v) PROVE tx[v].stage # "exchange"
  BY <1>3 DEF TxFormsOK, TxOK, Acquire
<1>4. Acquire(v) => UNCHANGED rows
  BY DEF Acquire
<1>5. Purge(v) => tx[v].stage # "exchange"
  BY DEF Purge
<1> QED BY <1>1, <1>2, <1>3, <1>4, <1>5, Fields DEF Move

\* The row that a decision is about.
LEMMA CheckedRows ==
    ASSUME RowsOK, TxFormsOK, ChecksOK, NEW v \in Running, NEW l \in tx[v].held, l.check
    PROVE  LET r == tx[v].request
           IN  /\ l.row[1] = "bootstrap" => l = Checked(<<"bootstrap">>, "update")
               /\ l.row[1] = "invitation" =>
                      r.invitation # None /\ l = Checked(<<"invitation", r.invitation>>, "update")
               /\ l.row[1] = "member" /\ r.invitation # None =>
                      l = Checked(<<"member", invitations[r.invitation].creator>>, "share")
               /\ l.row[1] = "account" /\ r.session = None =>
                      tx[v].found # None /\ l = Checked(<<"account", tx[v].found>>, "update")
               /\ l.row[1] = "account" /\ r.session # None =>
                      l = Checked(<<"account", sessions[r.session].user>>, "update")
<1> DEFINE r == tx[v].request
           f == tx[v].found
<1>1. TxOK(v) /\ RequestOK(r) /\ (f # None => r.session = None) /\ tx[v].stage # "exchange"
  BY DEF TxFormsOK, TxOK
<1>2. l \in Checks(r, f)
  BY <1>1 DEF ChecksOK, ChecksAmong
<1>3. \A row, mode : Checked(row, mode).row = row
  BY Asked
<1>4. r.kind = "invite" => r.invitation = None
  BY <1>1 DEF RequestOK
<1> HIDE DEF r, f
<1>5. \/ l = Checked(<<"bootstrap">>, "update") /\ l.row[1] = "bootstrap"
      \/ l.row[1] = "session"
      \/ /\ r.session # None /\ l.row[1] = "account"
         /\ l = Checked(<<"account", sessions[r.session].user>>, "update")
      \/ f # None /\ l = Checked(<<"account", f>>, "update") /\ l.row[1] = "account"
      \/ r.kind = "invite" /\ l.row[1] = "member"
      \/ /\ r.invitation # None /\ l.row[1] = "invitation"
         /\ l = Checked(<<"invitation", r.invitation>>, "update")
      \/ /\ r.invitation # None /\ l.row[1] = "member"
         /\ l = Checked(<<"member", invitations[r.invitation].creator>>, "share")
  BY <1>2, <1>3 DEF Checks, If
<1> QED BY <1>1, <1>4, <1>5 DEF r, f

\* The decision made when the lock is taken is as good as it has to stay.
LEMMA Deciding ==
    ASSUME RowsOK, TxFormsOK, NEW v \in Running, NEW row, Passes(v, row)
    PROVE  Stands(v, row)
<1> DEFINE r == tx[v].request
<1>1. RequestOK(r)
  BY DEF TxFormsOK, TxOK
<1>2. row[1] = "bootstrap" => Unclaimed
  BY DEF Passes
<1>3. row[1] = "invitation" => invitations[r.invitation].status = "open"
  BY DEF Passes
<1>4. row[1] = "member" /\ r.invitation # None => InviterStands(r.invitation)
  BY <1>1 DEF Passes, RequestOK
<1>5. row[1] = "account" /\ r.session = None => StillBound(v)
  BY DEF Passes
<1>6. row[1] = "account" /\ r.session # None => sessions[r.session].status # "revoked"
  BY DEF Passes, SessionServes
<1> QED BY <1>2, <1>3, <1>4, <1>5, <1>6 DEF Stands

\* The heart of the matter: what a transaction has decided, others leave alone.
LEMMA DecisionsKept ==
    ASSUME IdentitiesInv, [Next]_vars
    PROVE  DecisionsOK'
<1>0. RowsOK /\ TxFormsOK /\ ChecksOK /\ DecisionsOK
  BY DEF IdentitiesInv
<1> SUFFICES ASSUME NEW v \in Running', NEW l \in tx'[v].held, l.check
             PROVE  Stands(v, l.row)'
  BY DEF DecisionsOK
<1> DEFINE r == tx[v].request
           f == tx[v].found
           x == tx[v].subject
           row == l.row
<1>1. /\ v \in Running /\ tx[v].stage # "exchange" /\ tx'[v] # None
      /\ tx'[v].request = r /\ tx'[v].found = f /\ tx'[v].subject = x
      /\ \/ tx'[v].held = tx[v].held
         \/ Acquire(v) /\ UNCHANGED rows /\ tx'[v].held = tx[v].held \cup {Head(tx[v].todo)}
  BY <1>0, Holding DEF Running
<1>i. PICK i : i = r.invitation
  OBVIOUS
<1>2. CASE l \notin tx[v].held
  <2>1. Acquire(v) /\ UNCHANGED rows /\ l = Head(tx[v].todo)
    BY <1>1, <1>2
  <2>2. Stands(v, row)
    BY <1>0, <1>1, <2>1, Deciding DEF Acquire
  <2>3. Unclaimed => Unclaimed'
    BY <2>1 DEF Unclaimed, Accounts, rows
  <2>4. InviterStands(i) => InviterStands(i)'
    BY <2>1 DEF InviterStands, rows
  <2> QED BY <1>1, <1>i, <2>1, <2>2, <2>3, <2>4 DEF Stands, StillBound, InviterStands, rows
<1>3. CASE l \in tx[v].held
  <2>1. Stands(v, row)
    BY <1>0, <1>1, <1>3 DEF DecisionsOK
  <2>2. /\ row[1] = "bootstrap" => l = Checked(<<"bootstrap">>, "update")
        /\ row[1] = "invitation" =>
               r.invitation # None /\ l = Checked(<<"invitation", r.invitation>>, "update")
        /\ row[1] = "member" /\ r.invitation # None =>
               l = Checked(<<"member", invitations[r.invitation].creator>>, "share")
        /\ row[1] = "account" /\ r.session = None =>
               f # None /\ l = Checked(<<"account", f>>, "update")
        /\ row[1] = "account" /\ r.session # None =>
               l = Checked(<<"account", sessions[r.session].user>>, "update")
    BY <1>0, <1>1, <1>3, CheckedRows
  <2>3. /\ r.session # None => r.session \in DOMAIN sessions
        /\ r.invitation # None => r.invitation \in DOMAIN invitations
        /\ f # None => x \in Subjects
    BY <1>0, <1>1 DEF TxFormsOK, TxOK, RequestOK, Optional
  <2>4. row[1] = "bootstrap" => Unclaimed'
    BY <1>1, <1>3, <2>1, <2>2, SetupStands DEF Stands
  <2>5. row[1] = "invitation" => invitations'[r.invitation].status \in {"open", "expired"}
    BY <1>1, <1>3, <2>1, <2>2, <2>3, InvitationStands DEF Stands
  <2>6. row[1] = "member" /\ i # None => InviterStands(i)'
    <3>1. ASSUME row[1] = "member", i # None PROVE InviterStands(i)'
      <4>1. i \in DOMAIN invitations /\ InviterStands(i)
        BY <1>i, <2>1, <2>3, <3>1 DEF Stands
      <4>2. Checked(<<"member", invitations[i].creator>>, "share") \in tx[v].held
        BY <1>i, <1>3, <2>2, <3>1
      <4> QED BY <1>1, <4>1, <4>2, TermStands
    <3> QED BY <3>1
  <2>7. row[1] = "account" /\ r.session = None => bound'[x] = f
    <3>1. PICK y : y = x
      OBVIOUS
    <3>2. PICK g : g = f
      OBVIOUS
    <3>3. ASSUME row[1] = "account", r.session = None PROVE bound'[y] = g
      <4>1. /\ y \in Subjects /\ g # None /\ bound[y] = g
            /\ Checked(<<"account", g>>, "update") \in tx[v].held
        BY <1>3, <2>1, <2>2, <2>3, <3>1, <3>2, <3>3 DEF Stands, StillBound
      <4> QED BY <1>1, <4>1, BindingStands
    <3> QED BY <3>1, <3>2, <3>3
  <2>8. row[1] = "account" /\ r.session # None => sessions'[r.session].status # "revoked"
    <3>1. PICK s : s = r.session
      OBVIOUS
    <3>2. ASSUME row[1] = "account", s # None PROVE sessions'[s].status # "revoked"
      <4>1. /\ s \in DOMAIN sessions /\ sessions[s].status # "revoked"
            /\ Checked(<<"account", sessions[s].user>>, "update") \in tx[v].held
        BY <1>3, <2>1, <2>2, <2>3, <3>1, <3>2 DEF Stands
      <4> QED BY <1>1, <4>1, SessionStands
    <3> QED BY <3>1, <3>2
  <2> QED BY <1>1, <1>i, <2>4, <2>5, <2>6, <2>7, <2>8 DEF Stands, StillBound, InviterStands
<1> QED BY <1>2, <1>3

-----------------------------------------------------------------------------
(* Sessions of bound identities *)

\* A login binds the identity or has decided that it is bound; who unbinds one revokes.
LEMMA BindingsKept ==
    ASSUME IdentitiesInv, [Next]_vars
    PROVE  SessionsOfBoundIdentities'
<1>0. /\ RowsOK /\ TxFormsOK /\ ChecksOK /\ DecisionsOK /\ SessionsOfBoundIdentities /\ Keeps
      /\ bound \in [Subjects -> Optional(Users)] /\ None \notin Users
      /\ Sequence(sessions) /\ \A s \in DOMAIN sessions : sessions[s] \in SessionRow
  BY Kept, IdentitiesAssumption DEF IdentitiesInv, RowsOK
<1> DEFINE Fits(s) == InForce(s)' /\ sessions'[s].via # "password"
                      => bound'[sessions'[s].via] = sessions'[s].user
<1>1. ASSUME NEW u, NEW via, sessions' = NewSession(u, via)
      PROVE  /\ DOMAIN sessions' = DOMAIN sessions \cup {Len(sessions) + 1}
             /\ sessions'[Len(sessions) + 1].user = u /\ sessions'[Len(sessions) + 1].via = via
  <2> DEFINE new == [user |-> u, via |-> via, status |-> "recent"]
  <2>1. new.user = u /\ new.via = via /\ sessions' = Append(sessions, new)
    BY <1>1 DEF NewSession
  <2> HIDE DEF new
  <2> QED BY <1>0, <2>1, Appended
\* A Session that was there, with an identity that stays bound.
<1>2. ASSUME NEW s \in DOMAIN sessions, bound[sessions[s].via] # None => bound'[sessions[s].via] = bound[sessions[s].via]
      PROVE  Fits(s)
  <2>1. sessions[s].user \in Users
    BY <1>0 DEF SessionRow
  <2> QED BY <1>0, <1>2, <2>1 DEF Keeps, SessionsOfBoundIdentities
<1>3. ASSUME NEW t \in Transactions, Commit(t) PROVE \A s \in DOMAIN sessions' : Fits(s)
  <2> DEFINE r == tx[t].request
             u == Admitted(t)
             x == tx[t].subject
             f == tx[t].found
             Goal == \A s \in DOMAIN sessions' : Fits(s)
  <2>1. /\ RequestOK(r) /\ Valid(t) /\ (r.kind # "start" => u \in Users)
        /\ r.kind = "callback" => x \in Subjects
    BY <1>0, <1>3, EffectFacts DEF Commit
  <2>2. ASSUME bound' = bound, sessions' = sessions PROVE Goal
    BY <1>2, <2>2
  <2>3. ASSUME bound' = bound, sessions' = NewSession(u, "password") PROVE Goal
    BY <1>1, <1>2, <2>3
  <2>4. ASSUME UnlinkExternal(r) PROVE Goal
    <3> DEFINE w == sessions[r.session].user
    <3>1. /\ bound' = [y \in Subjects |-> IF bound[y] = w THEN None ELSE bound[y]]
          /\ sessions' = Revoked(w)
      BY <2>4 DEF UnlinkExternal
    <3>2. DOMAIN sessions' = DOMAIN sessions
      BY <3>1 DEF Revoked
    <3>3. ASSUME NEW s \in DOMAIN sessions, sessions[s].user # w PROVE Fits(s)
      <4>1. InForce(s)' => InForce(s) /\ sessions'[s].user = sessions[s].user /\ sessions'[s].via = sessions[s].via
        BY <1>0 DEF Keeps
      <4>2. sessions[s].via # "password" => sessions[s].via \in Subjects
        BY <1>0 DEF SessionRow
      <4> HIDE DEF w
      <4> QED BY <1>0, <3>1, <3>3, <4>1, <4>2 DEF SessionsOfBoundIdentities, Keeps
    <3>4. ASSUME NEW s \in DOMAIN sessions, sessions[s].user = w PROVE Fits(s)
      <4>1. sessions'[s].status \in {"logout", "revoked"}
        <5>1. [sessions[s] EXCEPT !.status = "revoked"].status = "revoked"
          BY <1>0 DEF SessionRow
        <5> QED BY <3>1, <3>4, <5>1 DEF Revoked
      <4> QED BY <4>1 DEF InForce
    <3> HIDE DEF w, Fits
    <3> QED BY <3>2, <3>3, <3>4
  <2>5. ASSUME r.kind = "callback", r.session # None \/ f = None, bound' = [bound EXCEPT ![x] = u],
               sessions' = sessions \/ sessions' = NewSession(u, x)
        PROVE  Goal
    <3>1. bound[x] = None
      BY <2>1, <2>5 DEF Valid
    <3>2. bound'[x] = u /\ \A y : bound[y] # None /\ y \in Subjects => bound'[y] = bound[y]
      BY <1>0, <2>1, <2>5, <3>1
    <3>3. ASSUME NEW s \in DOMAIN sessions PROVE Fits(s)
      <4>1. CASE sessions[s].via \in Subjects
        BY <1>2, <3>2, <4>1
      <4>2. CASE sessions[s].via = "password"
        BY <1>0, <4>2 DEF Keeps
      <4> QED BY <1>0, <4>1, <4>2 DEF SessionRow
    <3>4. CASE sessions' = sessions
      BY <3>3, <3>4
    <3>5. CASE sessions' = NewSession(u, x)
      <4>1. /\ DOMAIN sessions' = DOMAIN sessions \cup {Len(sessions) + 1}
            /\ sessions'[Len(sessions) + 1].user = u /\ sessions'[Len(sessions) + 1].via = x
        BY <1>1, <3>5
      <4>2. Fits(Len(sessions) + 1)
        BY <3>2, <4>1
      <4> HIDE DEF Fits
      <4> QED BY <3>3, <4>1, <4>2
    <3> QED BY <2>5, <3>4, <3>5
  <2>6. ASSUME r.kind = "callback", r.session = None, f # None, bound' = bound, sessions' = NewSession(u, x)
        PROVE  Goal
    <3>1. bound[x] = u
      BY <1>0, <1>3, <2>6, Decided DEF StillBound, Admitted
    <3>2. /\ DOMAIN sessions' = DOMAIN sessions \cup {Len(sessions) + 1}
          /\ sessions'[Len(sessions) + 1].user = u /\ sessions'[Len(sessions) + 1].via = x
      BY <1>1, <2>6
    <3>3. Fits(Len(sessions) + 1)
      BY <2>6, <3>1, <3>2
    <3>4. \A s \in DOMAIN sessions : Fits(s)
      BY <1>2, <2>6
    <3> HIDE DEF Fits
    <3> QED BY <3>2, <3>3, <3>4
  <2> HIDE DEF Goal, r, u, x, f
  <2>7. \/ bound' = bound /\ sessions' = sessions
        \/ bound' = bound /\ sessions' = NewSession(u, "password")
        \/ UnlinkExternal(r)
        \/ /\ r.kind = "callback" /\ (r.session # None \/ f = None) /\ bound' = [bound EXCEPT ![x] = u]
           /\ sessions' = sessions \/ sessions' = NewSession(u, x)
        \/ r.kind = "callback" /\ r.session = None /\ f # None /\ bound' = bound /\ sessions' = NewSession(u, x)
    BY <1>0, <1>3, EffectFacts DEF Bootstrap, CreateInvitation, BeginOIDC, TransferOwner, r, u, x, f
  <2>8. Goal
    BY <2>2, <2>3, <2>4, <2>5, <2>6, <2>7
  <2> QED BY <2>8 DEF Goal
<1>4. ASSUME bound' = bound, DOMAIN sessions' = DOMAIN sessions PROVE \A s \in DOMAIN sessions' : Fits(s)
  BY <1>2, <1>4
<1>5. ASSUME bound' = bound, NEW u, sessions' = NewSession(u, "password")
      PROVE  \A s \in DOMAIN sessions' : Fits(s)
  BY <1>1, <1>2, <1>5
<1>6. \A u : DOMAIN Revoked(u) = DOMAIN sessions
  BY DEF Revoked
<1>7. \A s \in DOMAIN sessions : \A st : DOMAIN [sessions EXCEPT ![s].status = st] = DOMAIN sessions
  OBVIOUS
<1> HIDE DEF Fits
<1>8. \A s \in DOMAIN sessions' : Fits(s)
  BY <1>0, <1>3, <1>4, <1>5, <1>6, <1>7, Quiet
<1> QED BY <1>8 DEF Fits, SessionsOfBoundIdentities, InForce

-----------------------------------------------------------------------------
(* What is counted *)

\* Sets of rows are finite.
LEMMA RowSets ==
    ASSUME NEW s, Sequence(s), NEW S, S \subseteq DOMAIN s
    PROVE  IsFiniteSet(S) /\ Cardinality(S) \in Nat
<1>1. Len(s) \in Nat /\ DOMAIN s = 1..Len(s)
  BY SequenceDomain
<1>2. IsFiniteSet(1..Len(s))
  BY <1>1, FS_Interval
<1> QED BY <1>1, <1>2, FS_Subset, FS_CardinalityType

\* One element more makes a set larger by one at most.
LEMMA OneMore ==
    ASSUME NEW S, IsFiniteSet(S), NEW T, NEW x, T \subseteq S \cup {x}
    PROVE  IsFiniteSet(T) /\ Cardinality(T) \in Nat /\ Cardinality(T) <= Cardinality(S) + 1
<1>1. IsFiniteSet(S \cup {x}) /\ Cardinality(S \cup {x}) <= Cardinality(S) + 1
  <2>1. Cardinality(S) \in Nat
    BY FS_CardinalityType
  <2>2. /\ IsFiniteSet(S \cup {x})
        /\ Cardinality(S \cup {x}) \in {Cardinality(S), Cardinality(S) + 1}
    BY FS_AddElement, Zenon
  <2> QED BY <2>1, <2>2
<1>2. IsFiniteSet(T) /\ Cardinality(T) <= Cardinality(S \cup {x})
  BY <1>1, FS_Subset
<1> QED BY <1>1, <1>2, FS_CardinalityType

\* Only who takes a state becomes a callback.
LEMMA NewCallbacks ==
    ASSUME NEW v \in Callbacks', RowsOK, TxFormsOK, [Next]_vars
    PROVE  v \in Callbacks \/ \E k \in DOMAIN states : ConsumeState(v, k)
<1>1. v \in Running' /\ tx'[v].request.kind = "callback" /\ Move(v)
  BY Moving DEF Callbacks
<1>2. \A r : NewRequest(r) => r.kind # "callback"
  BY DEF NewRequest
<1> QED BY <1>1, <1>2, Fields DEF Move, Callbacks

\* Each external login has used up a state of its own, and so has each callback.
LEMMA StatesCounted ==
    ASSUME IdentitiesInv, [Next]_vars
    PROVE  StatesOK'
<1>0. /\ RowsOK /\ TxFormsOK /\ Keeps /\ StatesOK
      /\ Sequence(sessions) /\ Sequence(states) /\ Sequence(states') /\ Sequence(sessions')
  BY Kept, RowsKept DEF IdentitiesInv, RowsOK
<1>1. /\ IsFiniteSet(Logins) /\ Cardinality(Logins) \in Nat
      /\ IsFiniteSet(Taking) /\ Cardinality(Taking) \in Nat
      /\ IsFiniteSet(Taking') /\ Cardinality(Taking') \in Nat
      /\ IsFiniteSet(Callbacks) /\ Cardinality(Callbacks) \in Nat
  BY <1>0, RowSets, FS_CardinalityType DEF Logins, Taking, StatesOK
<1>2. Taking \subseteq Taking'
  BY <1>0 DEF Taking, Keeps
<1>3. Cardinality(Taking) <= Cardinality(Taking')
  BY <1>1, <1>2, FS_Subset
<1>4. DOMAIN sessions' = DOMAIN sessions => Logins' \subseteq Logins
  BY <1>0 DEF Logins, Keeps
<1>5. ASSUME NEW u, NEW via, sessions' = NewSession(u, via)
      PROVE  /\ Logins' \subseteq Logins \cup {Len(sessions) + 1}
             /\ via = "password" => Logins' \subseteq Logins
  <2> DEFINE new == [user |-> u, via |-> via, status |-> "recent"]
  <2>1. new.via = via /\ sessions' = Append(sessions, new)
    BY <1>5 DEF NewSession
  <2> HIDE DEF new
  <2>2. /\ DOMAIN sessions' = DOMAIN sessions \cup {Len(sessions) + 1}
        /\ sessions'[Len(sessions) + 1] = new
        /\ \A s \in DOMAIN sessions : sessions'[s] = sessions[s]
    BY <1>0, <2>1, Appended
  <2> QED BY <2>1, <2>2 DEF Logins
<1>6. ASSUME Logins' \subseteq Logins, Callbacks' \subseteq Callbacks PROVE StatesOK'
  <2>1. Cardinality(Logins') <= Cardinality(Logins) /\ Cardinality(Logins') \in Nat
    BY <1>1, <1>6, FS_Subset, FS_CardinalityType
  <2>2. /\ IsFiniteSet(Callbacks') /\ Cardinality(Callbacks') <= Cardinality(Callbacks)
        /\ Cardinality(Callbacks') \in Nat
    BY <1>1, <1>6, FS_Subset, FS_CardinalityType
  <2> QED BY <1>0, <1>1, <1>3, <2>1, <2>2 DEF StatesOK
<1>7. ASSUME NEW v \in Transactions, NEW k \in DOMAIN states, ConsumeState(v, k) PROVE StatesOK'
  <2>1. v \notin Callbacks /\ Only(v)
    BY <1>0, <1>7, Entering DEF Callbacks, Running, ConsumeState, Enter, Only, TxFormsOK
  <2>2. Callbacks' \subseteq Callbacks \cup {v}
    BY <2>1 DEF Callbacks, Running, Only
  <2>3. k \notin Taking /\ k \in Taking'
    <3> DEFINE new == Taken(k)
    <3>1. new.status = "taken" /\ states' = [states EXCEPT ![k] = new]
      BY <1>0, <1>7 DEF ConsumeState, Taken, RowsOK, StateRow
    <3> HIDE DEF new
    <3> QED BY <1>7, <3>1 DEF ConsumeState, Taking
  <2>4. Cardinality(Taking \cup {k}) = Cardinality(Taking) + 1 /\ IsFiniteSet(Taking \cup {k})
    BY <1>1, <2>3, FS_AddElement
  <2>5. Cardinality(Taking) + 1 <= Cardinality(Taking')
    BY <1>1, <1>2, <2>3, <2>4, FS_Subset
  <2>6. /\ IsFiniteSet(Callbacks') /\ Cardinality(Callbacks') \in Nat
        /\ Cardinality(Callbacks') <= Cardinality(Callbacks) + 1
    BY <1>1, <2>2, OneMore
  <2>7. Logins' = Logins
    BY <1>7 DEF ConsumeState, Logins
  <2> QED BY <1>0, <1>1, <2>5, <2>6, <2>7 DEF StatesOK
<1>8. ASSUME ~\E v \in Transactions : \E k \in DOMAIN states : ConsumeState(v, k)
      PROVE  Callbacks' \subseteq Callbacks
  BY <1>0, <1>8, NewCallbacks DEF Callbacks, Running
<1>9. ASSUME NEW t \in Transactions, Commit(t), Callbacks' \subseteq Callbacks PROVE StatesOK'
  <2> DEFINE r == tx[t].request
             u == Admitted(t)
             x == tx[t].subject
  <2>1. \/ sessions' = sessions
        \/ UnlinkExternal(r)
        \/ sessions' = NewSession(u, "password")
        \/ r.kind = "callback" /\ sessions' = NewSession(u, x)
    <3> HIDE DEF r, u, x
    <3> QED BY <1>0, <1>9, EffectFacts DEF Bootstrap, CreateInvitation, BeginOIDC, TransferOwner, r, u, x
  <2>2. CASE sessions' = NewSession(u, "password")
    BY <1>5, <1>6, <1>9, <2>2
  <2>3. CASE sessions' = sessions \/ UnlinkExternal(r)
    <3>1. DOMAIN sessions' = DOMAIN sessions
      BY <2>3 DEF UnlinkExternal, Revoked
    <3> QED BY <1>4, <1>6, <1>9, <3>1
  <2>4. CASE r.kind = "callback" /\ sessions' = NewSession(u, x)
    <3>1. /\ Cardinality(Logins') <= Cardinality(Logins) + 1
          /\ Cardinality(Logins') \in Nat
      BY <1>1, <1>5, <2>4, OneMore
    <3>2. t \in Callbacks /\ t \notin Callbacks'
      BY <1>0, <1>9, <2>4, Ending DEF Callbacks, Running
    <3>3. Callbacks' \subseteq Callbacks \ {t}
      BY <1>9, <3>2
    <3>4. IsFiniteSet(Callbacks \ {t}) /\ Cardinality(Callbacks \ {t}) = Cardinality(Callbacks) - 1
      BY <1>1, <3>2, FS_RemoveElement
    <3>5. /\ IsFiniteSet(Callbacks') /\ Cardinality(Callbacks') <= Cardinality(Callbacks) - 1
          /\ Cardinality(Callbacks') \in Nat
      BY <3>3, <3>4, FS_Subset, FS_CardinalityType
    <3> QED BY <1>0, <1>1, <1>3, <3>1, <3>5 DEF StatesOK
  <2> QED BY <2>1, <2>2, <2>3, <2>4
<1>10. ASSUME Callbacks' \subseteq Callbacks,
              \/ DOMAIN sessions' = DOMAIN sessions
              \/ \E u : sessions' = NewSession(u, "password")
       PROVE  StatesOK'
  BY <1>4, <1>5, <1>6, <1>10
<1>11. /\ \A u : DOMAIN Revoked(u) = DOMAIN sessions
       /\ \A s \in DOMAIN sessions : \A st : DOMAIN [sessions EXCEPT ![s].status = st] = DOMAIN sessions
  BY DEF Revoked
<1>12. \/ \E t \in Transactions : Commit(t)
       \/ DOMAIN sessions' = DOMAIN sessions
       \/ \E u : sessions' = NewSession(u, "password")
  BY <1>0, <1>11, Quiet
<1> QED BY <1>7, <1>8, <1>9, <1>10, <1>12

\* Only the start of an OIDC login adds a state.
LEMMA NewStates ==
    ASSUME [Next]_vars
    PROVE  \/ DOMAIN states' = DOMAIN states
           \/ \E t \in Transactions : Commit(t) /\ BeginOIDC(tx[t].request)
<1>1. ASSUME NEW t \in Transactions, Commit(t) PROVE UNCHANGED states \/ BeginOIDC(tx[t].request)
  BY <1>1 DEF Commit, Effect, Bootstrap, CreateInvitation, AcceptInvitation, UnlinkExternal,
              CompleteOIDC, TransferOwner
<1>2. ASSUME NEW t \in Transactions,
             \/ Begin(t) \/ Acquire(t) \/ Purge(t) \/ Abort(t)
             \/ \E x \in Subjects : Exchange(t, x)
      PROVE  UNCHANGED states
  BY <1>2 DEF Begin, Acquire, Purge, Abort, Exchange, rows
<1>3. ASSUME NEW t \in Transactions, NEW k \in DOMAIN states, ConsumeState(t, k)
      PROVE  DOMAIN states' = DOMAIN states
  BY <1>3 DEF ConsumeState
<1>4. ASSUME NEW u, Login(u) \/ Recover(u) \/ RevokeSession(u) PROVE UNCHANGED states
  BY <1>4 DEF Login, Recover, RevokeSession
<1>5. Age => DOMAIN states' = DOMAIN states
  BY DEF Age
<1>6. UNCHANGED vars => UNCHANGED states
  BY DEF vars, rows
<1> QED BY <1>1, <1>2, <1>3, <1>4, <1>5, <1>6 DEF Next

\* Who adds an invitation or a state has counted what there is.
LEMMA CapsKept ==
    ASSUME IdentitiesInv, [Next]_vars
    PROVE  CapsHold'
<1> DEFINE Open(u) == {i \in DOMAIN invitations :
                           invitations[i].creator = u /\ invitations[i].status = "open"}
           Pending == {k \in DOMAIN states : states[k].status = "pending"}
<1>0. /\ RowsOK /\ TxFormsOK /\ Keeps
      /\ Sequence(invitations) /\ Sequence(states)
      /\ InvitationLimit \in Nat /\ StateLimit \in Nat
  BY Kept, IdentitiesAssumption DEF IdentitiesInv, RowsOK
<1>1. /\ \A u : IsFiniteSet(Open(u)) /\ Cardinality(Open(u)) \in Nat
      /\ IsFiniteSet(Pending) /\ Cardinality(Pending) \in Nat
      /\ \A u \in Users : Cardinality(Open(u)) <= InvitationLimit
      /\ Cardinality(Pending) <= StateLimit
  <2>1. \A u : IsFiniteSet(Open(u)) /\ Cardinality(Open(u)) \in Nat
    BY <1>0, RowSets
  <2>2. IsFiniteSet(Pending) /\ Cardinality(Pending) \in Nat
    BY <1>0, RowSets
  <2> QED BY <2>1, <2>2 DEF IdentitiesInv, CapsHold
<1>2. ASSUME NEW u \in Users PROVE Cardinality(Open(u)') <= InvitationLimit
  <2>1. CASE Open(u)' \subseteq Open(u)
    <3>1. Cardinality(Open(u)') <= Cardinality(Open(u)) /\ Cardinality(Open(u)') \in Nat
      <4> HIDE DEF Open
      <4> QED BY <1>1, <2>1, FS_Subset, FS_CardinalityType
    <3> HIDE DEF Open
    <3> QED BY <1>0, <1>1, <3>1
  <2>2. DOMAIN invitations' = DOMAIN invitations => Open(u)' \subseteq Open(u)
    BY <1>0 DEF Keeps
  <2>3. ASSUME NEW t \in Transactions, Commit(t) PROVE Cardinality(Open(u)') <= InvitationLimit
    <3> DEFINE r == tx[t].request
               w == sessions[r.session].user
               new == [creator |-> w, revision |-> member[w].revision, status |-> "open"]
    <3>1. CASE CreateInvitation(t, r)
      <4>1. \E old : Left(t, old) /\ invitations' = Append(old, new)
        BY <1>0, <3>1, Inviting
      <4>2. new.creator = w
        OBVIOUS
      <4> HIDE DEF new
      <4>3. PICK old : Left(t, old) /\ invitations' = Append(old, new)
        BY <4>1
      <4>4. /\ DOMAIN invitations' = DOMAIN invitations \cup {Len(invitations) + 1}
            /\ invitations'[Len(invitations) + 1] = new
        BY <4>3, Appended DEF Left
      <4>5. w # u => Open(u)' \subseteq Open(u)
        BY <1>0, <4>2, <4>4 DEF Keeps
      <4>6. Open(u)' \subseteq Open(u) \cup {Len(invitations) + 1}
        BY <1>0, <4>4 DEF Keeps
      <4>7. w = u => Cardinality(Open(u)) < InvitationLimit
        <5>1. r.kind = "invite" /\ Valid(t)
          BY <2>3, <3>1 DEF CreateInvitation, Commit
        <5>2. r.session # None
          BY <1>0, <2>3, <5>1 DEF TxFormsOK, TxOK, RequestOK, Commit, Running
        <5> QED BY <5>1, <5>2 DEF Valid, UnderInvitationLimit
      <4>8. Cardinality(Open(u)') <= Cardinality(Open(u)) + 1 /\ Cardinality(Open(u)') \in Nat
        <5> HIDE DEF Open
        <5> QED BY <1>1, <4>6, OneMore
      <4> HIDE DEF Open, w
      <4> QED BY <1>0, <1>1, <2>1, <4>5, <4>7, <4>8
    <3>2. CASE ~CreateInvitation(t, r)
      <4>1. UNCHANGED invitations \/ \E x : Join(r.invitation, x)
        BY <1>0, <2>3, <3>2, EffectFacts DEF Bootstrap, UnlinkExternal, BeginOIDC, TransferOwner
      <4>2. DOMAIN invitations' = DOMAIN invitations
        BY <4>1 DEF Join
      <4> HIDE DEF Open
      <4> QED BY <2>1, <2>2, <4>2
    <3> QED BY <3>1, <3>2
  <2> HIDE DEF Open
  <2> QED BY <1>0, <2>1, <2>2, <2>3, Quiet
<1>3. Cardinality(Pending') <= StateLimit
  <2>1. CASE DOMAIN states' = DOMAIN states
    <3>1. Pending' \subseteq Pending
      BY <1>0, <2>1 DEF Keeps
    <3> HIDE DEF Pending
    <3>2. Cardinality(Pending') <= Cardinality(Pending) /\ Cardinality(Pending') \in Nat
      BY <1>1, <3>1, FS_Subset, FS_CardinalityType
    <3> QED BY <1>0, <1>1, <3>2
  <2>2. ASSUME NEW t \in Transactions, Commit(t), BeginOIDC(tx[t].request)
        PROVE  Cardinality(Pending') <= StateLimit
    <3>1. Valid(t) /\ tx[t].request.kind = "start"
      BY <2>2 DEF Commit, BeginOIDC
    <3>2. Cardinality(Pending) < StateLimit
      BY <3>1 DEF Valid, UnderStateLimit
    <3>3. DOMAIN states' = DOMAIN states \cup {Len(states) + 1}
      BY <1>0, <2>2, Appended DEF BeginOIDC
    <3>4. Pending' \subseteq Pending \cup {Len(states) + 1}
      BY <1>0, <3>3 DEF Keeps
    <3> HIDE DEF Pending
    <3>5. Cardinality(Pending') <= Cardinality(Pending) + 1 /\ Cardinality(Pending') \in Nat
      BY <1>1, <3>4, OneMore
    <3> QED BY <1>0, <1>1, <3>2, <3>5
  <2> QED BY <2>1, <2>2, NewStates
<1> QED BY <1>2, <1>3 DEF CapsHold

-----------------------------------------------------------------------------
(* Theorems *)

\* There is nobody yet.
LEMMA Initially == Init => IdentitiesInv
<1> SUFFICES ASSUME Init PROVE IdentitiesInv
  OBVIOUS
<1> USE DEF Init
<1>1. /\ None \notin Users /\ {InvitationLimit, StateLimit, MaxRevision} \subseteq Nat \ {0}
  BY IdentitiesAssumption
<1>2. Running = {} /\ Accounts = {} /\ DOMAIN sessions = {} /\ DOMAIN invitations = {} /\ DOMAIN states = {}
  BY <1>1 DEF Running, Accounts
<1>3. RowsOK
  <2>1. Sequence(sessions) /\ Sequence(invitations) /\ Sequence(states)
    BY Listing
  <2>2. 1 \in 1..MaxRevision
    BY <1>1
  <2>3. bound \in [Subjects -> Optional(Users)] /\ member \in [Users -> MemberRow]
    BY <2>2 DEF Optional, MemberRow
  <2> QED BY <1>2, <2>1, <2>3 DEF RowsOK, MemberRow
<1>4. TxFormsOK /\ LocksOK /\ ChecksOK /\ PurgesOK /\ DecisionsOK
  BY <1>2 DEF TxFormsOK, LocksOK, ChecksOK, PurgesOK, DecisionsOK
<1>5. MembersOK /\ InvitationsOK /\ SessionsOfBoundIdentities
  BY <1>2 DEF MembersOK, RolesOK, InvitationsOK, SessionsOfBoundIdentities
<1>6. StatesOK
  <2>1. Logins = {} /\ Callbacks = {} /\ Taking = {}
    BY <1>2 DEF Logins, Callbacks, Taking
  <2> QED BY <2>1, FS_EmptySet DEF StatesOK
<1>7. CapsHold
  <2>1. \A u \in Users : {i \in DOMAIN invitations :
            invitations[i].creator = u /\ invitations[i].status = "open"} = {}
    BY <1>2
  <2>2. {k \in DOMAIN states : states[k].status = "pending"} = {}
    BY <1>2
  <2>3. Cardinality({}) = 0
    BY FS_EmptySet
  <2> QED BY <1>1, <2>1, <2>2, <2>3 DEF CapsHold
<1> QED BY <1>3, <1>4, <1>5, <1>6, <1>7 DEF IdentitiesInv

\* Every step keeps the invariant.
LEMMA Inductive == IdentitiesInv /\ [Next]_vars => IdentitiesInv'
<1> SUFFICES ASSUME IdentitiesInv, [Next]_vars PROVE IdentitiesInv'
  OBVIOUS
<1>1. /\ RowsOK /\ TxFormsOK /\ MembersOK /\ InvitationsOK
      /\ LocksOK /\ ChecksOK /\ PurgesOK /\ DecisionsOK
  BY DEF IdentitiesInv
<1>2. RowsOK' /\ TxFormsOK'
  BY <1>1, RowsKept, TxFormsKept
<1>3. MembersOK' /\ InvitationsOK'
  BY <1>1, MembersKept, AdmissionsKept
<1>4. LocksOK' /\ ChecksOK' /\ PurgesOK'
  BY <1>1, LocksKept, ChecksKept, PurgesKept
<1>5. DecisionsOK' /\ SessionsOfBoundIdentities' /\ StatesOK' /\ CapsHold'
  BY DecisionsKept, BindingsKept, StatesCounted, CapsKept
<1> QED BY <1>2, <1>3, <1>4, <1>5 DEF IdentitiesInv

\* Rows, plans, locks and decisions fit together in every reachable state.
THEOREM IdentitiesInvariant == Spec => []IdentitiesInv
BY Initially, Inductive, PTL DEF Spec

\* Every variable keeps its form, and no inviter and not the server has more open
\* invitations or pending OIDC states than the limit (CreateInvitation and BeginOIDC
\* count before they add).
THEOREM IdentitiesTypeOK == Spec => []TypeOK
<1>1. IdentitiesInv => TypeOK
  BY DEF IdentitiesInv, RowsOK, TxFormsOK, TxOK, TypeOK, SessionRow, InvitationRow, StateRow, Optional, Running
<1> QED BY <1>1, IdentitiesInvariant, PTL

\* There is no account and no owner, or there are accounts and one owner, whoever sets
\* the instance up, joins or takes part in a hand-over at the same time.
THEOREM IdentitiesOneOwner == Spec => []OneOwner
<1>1. ASSUME IdentitiesInv PROVE OneOwner
  <2> DEFINE Owners == {u \in Users : member[u].role = "owner"}
  <2>1. RolesOK
    BY <1>1 DEF IdentitiesInv, MembersOK
  <2>2. CASE Accounts = {}
    <3>1. Owners = {}
      BY <2>1, <2>2 DEF RolesOK
    <3> QED BY <2>2, <3>1, FS_EmptySet DEF OneOwner
  <2>3. CASE Accounts # {}
    <3>1. PICK o \in Users : \A u \in Users : member[u].role = "owner" <=> u = o
      BY <2>1, <2>3 DEF RolesOK
    <3>2. Owners = {o}
      BY <3>1
    <3> QED BY <2>3, <3>2, FS_Singleton DEF OneOwner
  <2> QED BY <2>2, <2>3
<1> QED BY <1>1, IdentitiesInvariant, PTL

\* An invitation admits one account at most, nobody but the first owner is a member
\* without one, and no state serves two callbacks.
THEOREM IdentitiesSpentOnce == Spec => []SpentOnce
<1>1. ASSUME IdentitiesInv PROVE SpentOnce
  <2> DEFINE Uninvited == {u \in Users : member[u].role # "none" /\ \A j \in joined : j[2] # u}
  <2>1. InvitationsOK /\ StatesOK
    BY <1>1 DEF IdentitiesInv
  <2>2. Cardinality(Uninvited) <= 1
    <3>1. \A u, v \in Uninvited : u = v
      BY <2>1 DEF InvitationsOK
    <3> HIDE DEF Uninvited
    <3>2. CASE Uninvited = {}
      BY <3>2, FS_EmptySet
    <3>3. CASE Uninvited # {}
      <4>1. PICK u : Uninvited = {u}
        BY <3>1, <3>3
      <4> QED BY <4>1, FS_Singleton
    <3> QED BY <3>2, <3>3
  <2> QED BY <2>1, <2>2 DEF SpentOnce, InvitationsOK, StatesOK, Logins, Callbacks, Taking
<1> QED BY <1>1, IdentitiesInvariant, PTL

\* A Session of an external login is in force only while its identity is bound to its
\* user: UnlinkExternalIdentity and CompleteOIDC lock the same account.
THEOREM SessionsStayBound == Spec => []SessionsOfBoundIdentities
<1>1. IdentitiesInv => SessionsOfBoundIdentities
  BY DEF IdentitiesInv
<1> QED BY <1>1, IdentitiesInvariant, PTL

\* Whoever an invitation admits is admitted in the term in which its inviter made it:
\* a hand-over waits for the redemption, or the redemption sees it.
THEOREM TermHolds == Spec => InvitersTermHolds
<1> DEFINE Formula == \A j \in joined' \ joined :
                LET i == invitations[j[1]]
                IN  member[i.creator] = [role |-> "owner", revision |-> i.revision]
<1>1. ASSUME IdentitiesInv, [Next]_vars, NEW j \in joined' \ joined
      PROVE  member[invitations[j[1]].creator] = [role |-> "owner", revision |-> invitations[j[1]].revision]
  <2>1. RowsOK /\ TxFormsOK /\ ChecksOK /\ DecisionsOK /\ member \in [Users -> MemberRow]
    BY <1>1 DEF IdentitiesInv, RowsOK, MemberRow
  <2>2. PICK t \in Transactions : Commit(t)
    BY <1>1, <2>1, Quiet
  <2> DEFINE r == tx[t].request
             u == Admitted(t)
             i == r.invitation
  <2>3. r.invitation # None /\ Join(i, u)
    BY <1>1, <2>1, <2>2, EffectFacts DEF Bootstrap, CreateInvitation, UnlinkExternal, BeginOIDC, TransferOwner
  <2>4. j = <<i, u>> /\ i \in DOMAIN invitations
    BY <1>1, <2>1, <2>2, <2>3, EffectFacts DEF Join, RequestOK, Optional
  <2>5. InviterStands(i)
    BY <2>1, <2>2, <2>3, Decided
  <2> HIDE DEF i, u
  <2>6. j[1] = i /\ invitations[i].creator \in Users
    BY <2>1, <2>4 DEF RowsOK, InvitationRow
  <2> QED BY <2>1, <2>5, <2>6 DEF InviterStands, MemberRow
<1>2. IdentitiesInv /\ [Next]_vars => [Formula]_vars
  BY <1>1
<1> QED BY <1>2, IdentitiesInvariant, PTL DEF Spec, InvitersTermHolds, Formula

\* No request takes effect with a Session that an unlink or a recovery has revoked, and
\* no hand-over with one that has been logged out of or is no longer recent.
THEOREM ActsWithSession == Spec => ActsWithItsSession
<1> DEFINE Formula == \A t \in Running : LET r == tx[t].request IN
               Commit(t) /\ r.session # None =>
                   /\ sessions[r.session].status # "revoked"
                   /\ r.kind = "transfer" => sessions[r.session].status = "recent"
<1>1. ASSUME IdentitiesInv, NEW t \in Running, Commit(t), tx[t].request.session # None
      PROVE  /\ sessions[tx[t].request.session].status # "revoked"
             /\ tx[t].request.kind = "transfer" => sessions[tx[t].request.session].status = "recent"
  <2>1. TxFormsOK /\ ChecksOK /\ DecisionsOK /\ t \in Transactions
    BY <1>1 DEF IdentitiesInv, Running
  <2>2. tx[t].request.kind # "transfer" => sessions[tx[t].request.session].status # "revoked"
    BY <1>1, <2>1, Decided
  <2>3. tx[t].request.kind = "transfer" => sessions[tx[t].request.session].status = "recent"
    BY <1>1 DEF Commit, Valid, MayHandOver
  <2> QED BY <2>2, <2>3
<1>2. IdentitiesInv /\ [Next]_vars => [Formula]_vars
  BY <1>1
<1> QED BY <1>2, IdentitiesInvariant, PTL DEF Spec, ActsWithItsSession, Formula

-----------------------------------------------------------------------------
(* Circles of waiting transactions *)

\* The first n steps are taken, and the others lie ahead in their order.
StepsTaken(plan, e, n) ==
    /\ e.held = {plan[i] : i \in 1..n}
    /\ Len(e.todo) = Len(plan) - n
    /\ \A i \in DOMAIN e.todo : e.todo[i] = plan[n + i]

\* A transaction follows its plan; an "invite" has taken all of it when it locks what
\* it purges.
InCourse(plan, e) ==
    /\ e.stage = "locking" => \E n \in 0..Len(plan) : StepsTaken(plan, e, n)
    /\ e.stage = "purging" =>
           /\ e.request.kind = "invite" /\ Elements(plan) \subseteq e.held
           /\ \A l \in e.held : l \in Elements(plan) \/ PurgeStep(l)
           /\ \A l \in Elements(e.todo) : PurgeStep(l)

CoursesOK == \A t \in Running : InCourse(Plan(tx[t].request, tx[t].found), tx[t])

\* A plan depends on nothing that changes later.
LEMMA PlanStays ==
    ASSUME NEW r, NEW f, RowsOK, Keeps, RequestOK(r)
    PROVE  Plan(r, f)' = Plan(r, f)
<1>1. r.session # None => sessions'[r.session].user = sessions[r.session].user
  BY DEF RequestOK, Optional, Keeps
<1>2. r.invitation # None => invitations'[r.invitation].creator = invitations[r.invitation].creator
  BY DEF RequestOK, Optional, Keeps
<1>3. r.session # None => Authorize(r)' = Authorize(r)
  BY <1>1 DEF Authorize
<1>4. Redeem(r)' = Redeem(r)
  BY <1>2 DEF Redeem
<1>5. r.session # None => TransferPlan(r)' = TransferPlan(r)
  BY <1>1 DEF TransferPlan
<1>6. r.kind \in {"invite", "accept", "unlink", "transfer"} => r.session # None
  BY DEF RequestOK
<1> QED BY <1>1, <1>3, <1>4, <1>5, <1>6 DEF Plan

\* Whoever begins has all of its plan ahead.
LEMMA CourseBegins ==
    ASSUME NEW plan, NEW e, Sequence(plan), e.stage = "locking", e.held = {}, e.todo = plan
    PROVE  InCourse(plan, e)
<1>1. Len(plan) \in Nat /\ DOMAIN plan = 1..Len(plan)
  BY SequenceDomain
<1>2. 0 \in 0..Len(plan) /\ e.held = {plan[i] : i \in 1..0} /\ Len(e.todo) = Len(plan) - 0
  BY <1>1
<1>3. \A i \in DOMAIN e.todo : e.todo[i] = plan[0 + i]
  BY <1>1
<1>4. StepsTaken(plan, e, 0)
  BY <1>2, <1>3 DEF StepsTaken
<1> QED BY <1>2, <1>4 DEF InCourse

\* Whoever waits has taken all steps before the one it waits for.
LEMMA CourseAhead ==
    ASSUME NEW plan, NEW e, Sequence(plan), InCourse(plan, e), Sequence(e.todo),
           e.stage = "locking", e.todo # <<>>
    PROVE  \E n \in 1..Len(plan) : Head(e.todo) = plan[n] /\ StepsTaken(plan, e, n - 1)
<1>1. Len(plan) \in Nat /\ Len(e.todo) \in Nat /\ DOMAIN e.todo = 1..Len(e.todo)
  BY SequenceDomain
<1>2. PICK m \in 0..Len(plan) : StepsTaken(plan, e, m)
  BY DEF InCourse
<1>3. Head(e.todo) = e.todo[1] /\ 1 \in DOMAIN e.todo
  BY Shortened
<1>4. m + 1 \in 1..Len(plan) /\ (m + 1) - 1 = m
  BY <1>1, <1>2, <1>3 DEF StepsTaken
<1>5. Head(e.todo) = plan[m + 1]
  BY <1>2, <1>3 DEF StepsTaken
<1> QED BY <1>2, <1>4, <1>5

\* Whoever has nothing ahead has taken all steps.
LEMMA CourseDone ==
    ASSUME NEW plan, NEW e, Sequence(plan), InCourse(plan, e), e.stage = "locking", e.todo = <<>>
    PROVE  e.held = Elements(plan)
<1>1. Len(plan) \in Nat /\ DOMAIN plan = 1..Len(plan)
  BY SequenceDomain
<1>2. PICK n \in 0..Len(plan) : StepsTaken(plan, e, n)
  BY DEF InCourse
<1>3. n = Len(plan)
  <2>1. Len(plan) - n = 0
    BY <1>2 DEF StepsTaken
  <2>2. Len(plan) \in Nat
    BY <1>1
  <2> QED BY <2>1, <2>2
<1> QED BY <1>1, <1>2, <1>3 DEF StepsTaken, Elements

\* Taking the next step goes on in the plan.
LEMMA CourseGoesOn ==
    ASSUME NEW plan, NEW e, NEW d, Sequence(plan), InCourse(plan, e), Sequence(e.todo), e.todo # <<>>,
           d.request = e.request, d.stage = e.stage,
           d.held = e.held \cup {Head(e.todo)}, d.todo = Tail(e.todo)
    PROVE  InCourse(plan, d)
<1>1. Len(plan) \in Nat /\ Len(e.todo) \in Nat /\ DOMAIN e.todo = 1..Len(e.todo)
  BY SequenceDomain
<1>2. /\ Len(d.todo) = Len(e.todo) - 1 /\ DOMAIN d.todo = 1..(Len(e.todo) - 1)
      /\ \A i \in DOMAIN d.todo : d.todo[i] = e.todo[i + 1]
      /\ Elements(e.todo) = {Head(e.todo)} \cup Elements(d.todo)
  BY Shortened
<1>3. CASE e.stage = "locking"
  <2>1. PICK n \in 1..Len(plan) : Head(e.todo) = plan[n] /\ StepsTaken(plan, e, n - 1)
    BY <1>3, CourseAhead
  <2>2. n \in 0..Len(plan) /\ Len(d.todo) = Len(plan) - n
    BY <1>1, <1>2, <2>1 DEF StepsTaken
  <2>3. d.held = {plan[i] : i \in 1..n}
    <3>1. 1..n = (1..(n - 1)) \cup {n}
      BY <1>1, <2>1
    <3> QED BY <2>1, <3>1 DEF StepsTaken
  <2>4. ASSUME NEW i \in DOMAIN d.todo PROVE d.todo[i] = plan[n + i]
    <3>1. i \in 1..(Len(e.todo) - 1)
      BY <1>2
    <3>2. i + 1 \in DOMAIN e.todo /\ (n - 1) + (i + 1) = n + i
      BY <1>1, <3>1
    <3>3. e.todo[i + 1] = plan[(n - 1) + (i + 1)]
      BY <2>1, <3>2 DEF StepsTaken
    <3> QED BY <1>2, <2>4, <3>2, <3>3
  <2>5. StepsTaken(plan, d, n)
    BY <2>2, <2>3, <2>4 DEF StepsTaken
  <2> QED BY <1>3, <2>2, <2>5 DEF InCourse
<1>4. CASE e.stage # "locking"
  BY <1>2, <1>4 DEF InCourse
<1> QED BY <1>3, <1>4

\* Every transaction goes on in its plan.
LEMMA CoursesKept ==
    ASSUME RowsOK, TxFormsOK, CoursesOK, [Next]_vars
    PROVE  CoursesOK'
<1>0. Keeps /\ DOMAIN tx' = Transactions /\ \A v \in Running' : Move(v)
  BY Kept, Moving
<1>1. ASSUME NEW v \in Running'
      PROVE  \E r, f : /\ r = tx'[v].request /\ f = tx'[v].found
                       /\ RequestOK(r) /\ InCourse(Plan(r, f), tx'[v])
  <2>1. CASE v \in Running /\ tx'[v] = tx[v]
    BY <2>1 DEF TxFormsOK, TxOK, CoursesOK
  <2>2. CASE \E r : NewRequest(r) /\ tx'[v] = Entered(r, "locking", None, None)
    <3>1. PICK r : NewRequest(r) /\ tx'[v] = Entered(r, "locking", None, None)
      BY <2>2
    <3>2. /\ tx'[v].request = r /\ tx'[v].stage = "locking" /\ tx'[v].held = {}
          /\ tx'[v].found = None /\ tx'[v].todo = Plan(r, None)
      BY <3>1, Fields
    <3>3. RequestOK(r) /\ Sequence(Plan(r, None))
      BY <3>1, PlanFacts DEF NewRequest
    <3> QED BY <3>2, <3>3, CourseBegins
  <2>3. CASE \E k \in DOMAIN states :
                 ConsumeState(v, k) /\ tx'[v] = Entered(CallbackOf(k), "exchange", None, None)
    <3>1. PICK k \in DOMAIN states : tx'[v] = Entered(CallbackOf(k), "exchange", None, None)
      BY <2>3
    <3>2. PICK r : r = CallbackOf(k)
      OBVIOUS
    <3>3. tx'[v].request = r /\ tx'[v].stage = "exchange" /\ RequestOK(r)
      BY <3>1, <3>2, Fields, CallbacksAreOK
    <3> QED BY <3>3 DEF InCourse
  <2>4. CASE /\ v \in Running
             /\ \E x \in Subjects :
                    /\ Exchange(v, x)
                    /\ tx'[v] = Entered(tx[v].request, "locking",
                                        IF tx[v].request.session = None THEN bound[x] ELSE None, x)
    <3>1. PICK x \in Subjects :
                    /\ Exchange(v, x)
                    /\ tx'[v] = Entered(tx[v].request, "locking",
                                        IF tx[v].request.session = None THEN bound[x] ELSE None, x)
      BY <2>4
    <3>2. PICK r : r = tx[v].request
      OBVIOUS
    <3>3. PICK f : f = IF r.session = None THEN bound[x] ELSE None
      OBVIOUS
    <3>4. RequestOK(r) /\ r.kind = "callback"
      BY <2>4, <3>1, <3>2 DEF TxFormsOK, TxOK, Exchange
    <3>5. f # None => r.session = None
      BY <3>3
    <3>6. /\ tx'[v].request = r /\ tx'[v].stage = "locking" /\ tx'[v].held = {}
          /\ tx'[v].found = f /\ tx'[v].todo = Plan(r, f)
      BY <3>1, <3>2, <3>3, Fields
    <3>7. Sequence(Plan(r, f))
      BY <3>4, <3>5, PlanFacts
    <3> QED BY <3>4, <3>6, <3>7, CourseBegins
  <2>5. CASE v \in Running /\ Acquire(v) /\ tx'[v] = Acquired(v)
    <3>1. PICK r, f, e, d : r = tx[v].request /\ f = tx[v].found /\ e = tx[v] /\ d = tx'[v]
      OBVIOUS
    <3>2. /\ d.request = r /\ d.stage = e.stage /\ d.held = e.held \cup {Head(e.todo)}
          /\ d.found = f /\ d.todo = Tail(e.todo)
      BY <2>5, <3>1, Fields
    <3>3. /\ RequestOK(r) /\ Sequence(e.todo) /\ e.todo # <<>> /\ e.request = r
          /\ f # None => r.kind = "callback" /\ r.session = None
      BY <2>5, <3>1 DEF TxFormsOK, TxOK, Acquire
    <3>4. InCourse(Plan(r, f), e)
      BY <2>5, <3>1 DEF CoursesOK
    <3>5. Sequence(Plan(r, f))
      BY <3>3, PlanFacts
    <3>6. InCourse(Plan(r, f), d)
      BY <3>2, <3>3, <3>4, <3>5, CourseGoesOn
    <3> QED BY <3>1, <3>2, <3>3, <3>6
  <2>6. CASE /\ v \in Running /\ Purge(v)
             /\ \E todo : /\ tx'[v] = Purging(v, todo) /\ Sequence(todo)
                          /\ \A l \in Elements(todo) : PurgeStep(l)
    <3>1. PICK todo : tx'[v] = Purging(v, todo) /\ \A l \in Elements(todo) : PurgeStep(l)
      BY <2>6
    <3>2. PICK r, f, e, d : r = tx[v].request /\ f = tx[v].found /\ e = tx[v] /\ d = tx'[v]
      OBVIOUS
    <3>3. /\ d.request = r /\ d.stage = "purging" /\ d.held = e.held /\ d.found = f /\ d.todo = todo
      BY <3>1, <3>2, Fields
    <3>4. /\ RequestOK(r) /\ e.stage = "locking" /\ e.todo = <<>> /\ r.kind = "invite"
          /\ f # None => r.kind = "callback" /\ r.session = None
      BY <2>6, <3>2 DEF TxFormsOK, TxOK, Purge
    <3>5. InCourse(Plan(r, f), e)
      BY <2>6, <3>2 DEF CoursesOK
    <3>6. e.held = Elements(Plan(r, f))
      BY <3>4, <3>5, PlanFacts, CourseDone
    <3>7. InCourse(Plan(r, f), d)
      BY <3>1, <3>3, <3>4, <3>6 DEF InCourse
    <3> QED BY <3>2, <3>3, <3>4, <3>7
  <2> QED BY <1>0, <1>1, <2>1, <2>2, <2>3, <2>4, <2>5, <2>6 DEF Move
<1>2. ASSUME NEW v \in Running'
      PROVE  InCourse(Plan(tx[v].request, tx[v].found), tx[v])'
  <2>1. PICK r, f : /\ r = tx'[v].request /\ f = tx'[v].found
                    /\ RequestOK(r) /\ InCourse(Plan(r, f), tx'[v])
    BY <1>1
  <2>2. Plan(r, f)' = Plan(r, f)
    BY <1>0, <2>1, PlanStays
  <2>3. Plan(tx[v].request, tx[v].found)' = Plan(r, f)'
    BY <2>1 DEF Plan, Authorize, CheckedAccount, Redeem, TransferPlan, Account
  <2> QED BY <2>1, <2>2, <2>3
<1> QED BY <1>2 DEF CoursesOK

\* What comes where in a plan: the account a request locks FOR UPDATE first, the OIDC
\* states and the bootstrap last, and after a membership only the states, but for a
\* hand-over, which takes accounts, Session and memberships in this order.
InOrder(r, plan) ==
    /\ \A j \in 1..Len(plan) :
           /\ plan[j].row[1] = "account" /\ plan[j].mode = "update" => j = 1
           /\ plan[j].row[1] \in {"states", "bootstrap"} => j = Len(plan)
           /\ plan[j].row[1] = "session" => plan[j].mode = "share"
           /\ plan[j].row[1] = "member" /\ r.kind # "transfer" /\ j < Len(plan) =>
                  plan[j + 1].row = <<"states">>
    /\ r.invitation = None /\ r.kind \notin {"invite", "transfer"} =>
           Len(plan) <= 1 \/ (Len(plan) = 2 /\ plan[2].row = <<"states">>)

InvitePlan(r) == <<Checked(<<"account", sessions[r.session].user>>, "update"),
                   Checked(<<"member", sessions[r.session].user>>, "share")>>

HandOverPlan(r) ==
    LET u == sessions[r.session].user
        v == r.target
    IN  <<Lock(<<"account", Low(u, v)>>, "share"), Lock(<<"account", High(u, v)>>, "share"),
          Checked(<<"session", r.session>>, "share"),
          Lock(<<"member", Low(u, v)>>, "update"), Lock(<<"member", High(u, v)>>, "update")>>

LEMMA HandOverSteps ==
    ASSUME NEW r, NEW f, r.kind = "transfer"
    PROVE  ListsAs(Plan(r, f), 5, HandOverPlan(r))
<1> DEFINE u == sessions[r.session].user
           v == r.target
           a == Lock(<<"account", Low(u, v)>>, "share")
           b == Lock(<<"account", High(u, v)>>, "share")
           c == Checked(<<"session", r.session>>, "share")
           d == Lock(<<"member", Low(u, v)>>, "update")
           e == Lock(<<"member", High(u, v)>>, "update")
           p == <<a>> \o <<b>>
           q == <<a, b, c, d, e>>
           s == <<c, d, e>>
<1>1. Plan(r, f) = p \o s /\ HandOverPlan(r) = q
  BY DEF Plan, TransferPlan, Account, HandOverPlan
<1> HIDE DEF a, b, c, d, e
<1>2. ListsAs(p, 2, <<a, b>>)
  BY TuplesJoined
<1>3. Sequence(s) /\ Len(s) = 3
  BY Listing
<1>4. (\A i \in 1..2 : q[i] = <<a, b>>[i]) /\ \A i \in 1..3 : q[2 + i] = s[i]
  OBVIOUS
<1> HIDE DEF p, q, s
<1>5. Sequence(p) /\ Len(p) = 2 /\ \A i \in 1..2 : q[i] = p[i]
  BY <1>2, <1>4 DEF ListsAs
<1>6. ListsAs(p \o s, 2 + 3, q)
  BY <1>3, <1>4, <1>5, JoinedAs
<1> QED BY <1>1, <1>6

LEMMA InviteSteps ==
    ASSUME NEW r, NEW f, r.kind = "invite"
    PROVE  ListsAs(Plan(r, f), 2, InvitePlan(r))
<1>1. Plan(r, f) = <<Checked(<<"account", sessions[r.session].user>>, "update")>>
                   \o <<Checked(<<"member", sessions[r.session].user>>, "share")>>
  BY DEF Plan, Authorize, CheckedAccount
<1> QED BY <1>1, TuplesJoined DEF InvitePlan

LEMMA PlanOrder ==
    ASSUME NEW r, NEW f, RequestOK(r)
    PROVE  InOrder(r, Plan(r, f))
<1> DEFINE own == Checked(<<"account", sessions[r.session].user>>, "update")
           finder == Checked(<<"account", f>>, "update")
           ticket == Checked(<<"invitation", r.invitation>>, "update")
           host == Lock(<<"account", invitations[r.invitation].creator>>, "share")
           term == Checked(<<"member", invitations[r.invitation].creator>>, "share")
           setup == Checked(<<"bootstrap">>, "update")
           table == Lock(<<"states">>, "update")
<1>1. /\ own.row[1] = "account" /\ finder.row[1] = "account"
      /\ ticket.row[1] = "invitation"
      /\ host.row[1] = "account" /\ host.mode = "share"
      /\ term.row[1] = "member"
      /\ setup.row[1] = "bootstrap"
      /\ table.row[1] = "states" /\ table.row = <<"states">>
  BY DEF Lock, Checked
<1>2. /\ Authorize(r) = <<own>>
      /\ Redeem(r) = IF r.invitation = None THEN <<>> ELSE <<ticket, host, term>>
  BY DEF Authorize, CheckedAccount, Redeem
<1>3. /\ r.kind = "bootstrap" => Plan(r, f) = <<setup>>
      /\ r.kind = "accept" => Plan(r, f) = Authorize(r) \o Redeem(r)
      /\ r.kind = "join" => Plan(r, f) = Redeem(r)
      /\ r.kind = "unlink" => Plan(r, f) = Authorize(r)
      /\ r.kind = "start" => Plan(r, f) = (IF r.session = None THEN <<>> ELSE Authorize(r))
                                          \o Redeem(r) \o <<table>>
      /\ r.kind = "callback" =>
             Plan(r, f) = IF r.session # None THEN Authorize(r)
                          ELSE (IF f = None THEN <<>> ELSE <<finder>>) \o Redeem(r)
  BY DEF Plan, CheckedAccount
<1> HIDE DEF own, finder, ticket, host, term, setup, table
<1>4. PICK plan : plan = Plan(r, f)
  OBVIOUS
<1>5. ASSUME plan = <<>> PROVE InOrder(r, plan)
  BY <1>5 DEF InOrder
<1>6. ASSUME NEW x \in {own, finder, setup, table}, plan = <<x>> PROVE InOrder(r, plan)
  BY <1>1, <1>6 DEF InOrder
<1>7. ASSUME ListsAs(plan, 2, <<own, table>>) PROVE InOrder(r, plan)
  <2>1. Len(plan) = 2 /\ plan[1] = own /\ plan[2] = table
    BY <1>7 DEF ListsAs
  <2> QED BY <1>1, <2>1 DEF InOrder
<1>8. ASSUME plan = <<ticket, host, term>>, r.invitation # None PROVE InOrder(r, plan)
  <2>1. Len(plan) = 3 /\ plan[1] = ticket /\ plan[2] = host /\ plan[3] = term
    BY <1>8
  <2> QED BY <1>1, <1>8, <2>1 DEF InOrder
<1>9. ASSUME NEW x \in {own, finder}, ListsAs(plan, 4, <<x, ticket, host, term>>), r.invitation # None
      PROVE  InOrder(r, plan)
  <2>1. Len(plan) = 4 /\ plan[1] = x /\ plan[2] = ticket /\ plan[3] = host /\ plan[4] = term
    BY <1>9 DEF ListsAs
  <2> QED BY <1>1, <1>9, <2>1 DEF InOrder
<1>10. ASSUME ListsAs(plan, 4, <<ticket, host, term, table>>), r.invitation # None
       PROVE  InOrder(r, plan)
  <2>1. Len(plan) = 4 /\ plan[1] = ticket /\ plan[2] = host /\ plan[3] = term /\ plan[4] = table
    BY <1>10 DEF ListsAs
  <2> QED BY <1>1, <1>10, <2>1 DEF InOrder
<1>11. \A x, y, z : /\ <<>> \o <<>> = <<>> /\ <<>> \o <<x>> = <<x>> /\ <<x>> \o <<>> = <<x>>
                    /\ <<>> \o <<x, y, z>> = <<x, y, z>>
  OBVIOUS
<1>12. CASE r.kind \in {"bootstrap", "unlink"}
  BY <1>2, <1>3, <1>4, <1>6, <1>12
<1>13. CASE r.kind = "invite"
  <2> DEFINE o == Checked(<<"member", sessions[r.session].user>>, "share")
  <2>1. o.row[1] = "member" /\ InvitePlan(r) = <<own, o>>
    BY DEF Checked, InvitePlan, own
  <2> HIDE DEF o
  <2>2. Len(plan) = 2 /\ plan[1] = own /\ plan[2] = o
    BY <1>4, <1>13, <2>1, InviteSteps DEF ListsAs
  <2> QED BY <1>1, <1>4, <1>13, <2>1, <2>2 DEF InOrder
<1>14. CASE r.kind \in {"accept", "join"}
  <2>1. r.invitation # None
    BY <1>14 DEF RequestOK
  <2> QED BY <1>2, <1>3, <1>4, <1>8, <1>9, <1>14, <2>1, TuplesJoined
<1>15. CASE r.kind = "start"
  <2>1. CASE r.session # None
    <3>1. r.invitation = None
      BY <1>15, <2>1 DEF RequestOK
    <3>2. plan = <<own>> \o <<table>>
      BY <1>2, <1>3, <1>4, <1>11, <1>15, <2>1, <3>1
    <3> QED BY <1>4, <1>7, <3>2, TuplesJoined
  <2>2. CASE r.session = None /\ r.invitation = None
    <3>1. plan = <<table>>
      BY <1>2, <1>3, <1>4, <1>11, <1>15, <2>2
    <3> QED BY <1>4, <1>6, <3>1
  <2>3. CASE r.session = None /\ r.invitation # None
    <3>1. plan = <<ticket, host, term>> \o <<table>>
      BY <1>2, <1>3, <1>4, <1>11, <1>15, <2>3
    <3> QED BY <1>4, <1>10, <2>3, <3>1, TuplesJoined
  <2> QED BY <2>1, <2>2, <2>3
<1>16. CASE r.kind = "callback"
  <2>1. CASE r.session # None
    BY <1>2, <1>3, <1>4, <1>6, <1>16, <2>1
  <2>2. CASE r.session = None /\ r.invitation = None
    <3>1. plan = <<>> \/ plan = <<finder>>
      BY <1>2, <1>3, <1>4, <1>11, <1>16, <2>2
    <3> QED BY <1>4, <1>5, <1>6, <3>1
  <2>3. CASE r.session = None /\ r.invitation # None
    <3>1. plan = <<ticket, host, term>> \/ plan = <<finder>> \o <<ticket, host, term>>
      BY <1>2, <1>3, <1>4, <1>11, <1>16, <2>3
    <3> QED BY <1>4, <1>8, <1>9, <2>3, <3>1, TuplesJoined
  <2> QED BY <2>1, <2>2, <2>3
<1>17. CASE r.kind = "transfer"
  <2> DEFINE u == sessions[r.session].user
             v == r.target
             a == Lock(<<"account", Low(u, v)>>, "share")
             b == Lock(<<"account", High(u, v)>>, "share")
             c == Checked(<<"session", r.session>>, "share")
             d == Lock(<<"member", Low(u, v)>>, "update")
             e == Lock(<<"member", High(u, v)>>, "update")
  <2>1. /\ HandOverPlan(r) = <<a, b, c, d, e>>
        /\ a.row[1] = "account" /\ a.mode = "share" /\ b.row[1] = "account" /\ b.mode = "share"
        /\ c.row[1] = "session" /\ c.mode = "share" /\ d.row[1] = "member" /\ e.row[1] = "member"
    BY DEF HandOverPlan, Lock, Checked
  <2> HIDE DEF a, b, c, d, e
  <2>2. Len(plan) = 5 /\ plan[1] = a /\ plan[2] = b /\ plan[3] = c /\ plan[4] = d /\ plan[5] = e
    BY <1>4, <1>17, <2>1, HandOverSteps DEF ListsAs
  <2> QED BY <1>4, <1>17, <2>1, <2>2 DEF InOrder
<1> QED BY <1>4, <1>12, <1>13, <1>14, <1>15, <1>16, <1>17 DEF RequestOK

\* An "invite" has the account of its inviter FOR UPDATE.
Hosts(t, u) == Checked(<<"account", u>>, "update") \in tx[t].held

HandsOver(t) == tx[t].request.kind = "transfer"
Lower(t) == Low(sessions[tx[t].request.session].user, tx[t].request.target)
Higher(t) == High(sessions[tx[t].request.session].user, tx[t].request.target)

\* A hand-over that still lacks the second membership only.
LastLock(t) ==
    /\ Head(tx[t].todo) = Lock(<<"member", Higher(t)>>, "update")
    /\ {Lock(<<"account", u>>, "share") : u \in {Lower(t), Higher(t)}} \subseteq tx[t].held
    /\ \A l \in tx[t].held : l.row[1] = "member" => l = Lock(<<"member", Lower(t)>>, "update")

\* Neither redeems an invitation nor purges any.
Plain(t) == tx[t].request.invitation = None /\ tx[t].stage # "purging"

\* What a transaction that waits holds already.
LEMMA Waiting ==
    ASSUME RowsOK, TxFormsOK, CoursesOK, NEW t \in Running, tx[t].todo # <<>>
    PROVE  LET next == Head(tx[t].todo)
               held == tx[t].held
           IN  /\ next.row[1] = "account" /\ next.mode = "update" => held = {}
               /\ next.row[1] = "session" => next.mode = "share"
               /\ \A l \in held : l.row[1] # "states"
               /\ HandsOver(t) =>
                      \/ \A l \in held : l.row[1] \in {"account", "session"} /\ l.mode = "share"
                      \/ LastLock(t)
               /\ ~HandsOver(t) => \A l \in held : l.row[1] = "member" =>
                      \/ next.row = <<"states">>
                      \/ l.mode = "share" /\ Hosts(t, l.row[2])
               /\ ~HandsOver(t) /\ Plain(t) /\ held # {} =>
                      \/ next.row = <<"states">>
                      \/ \E u : next = Checked(<<"member", u>>, "share") /\ Hosts(t, u)
<1>1. PICK r, f, e, plan : /\ r = tx[t].request /\ f = tx[t].found /\ e = tx[t]
                           /\ plan = Plan(r, f)
  OBVIOUS
<1>2. /\ RequestOK(r) /\ Sequence(e.todo) /\ e.todo # <<>> /\ e.request = r
      /\ f # None => r.kind = "callback" /\ r.session = None
      /\ e.stage \in {"locking", "purging"}
  BY <1>1 DEF TxFormsOK, TxOK
<1>3. Sequence(plan) /\ InCourse(plan, e)
  BY <1>1, <1>2, PlanFacts DEF CoursesOK
<1>4. InOrder(r, plan)
  BY <1>1, <1>2, PlanOrder
<1>5. r.kind = "invite" => ListsAs(plan, 2, InvitePlan(r))
  BY <1>1, InviteSteps
<1>6. r.kind = "transfer" => ListsAs(plan, 5, HandOverPlan(r))
  BY <1>1, HandOverSteps
<1>7. CASE e.stage = "purging"
  <2>1. r.kind = "invite" /\ Head(e.todo) \in Elements(e.todo)
    BY <1>2, <1>3, <1>7, Shortened DEF InCourse
  <2>2. PurgeStep(Head(e.todo))
    BY <1>3, <1>7, <2>1 DEF InCourse
  <2>3. Head(e.todo).row[1] = "invitation"
    BY <2>2 DEF PurgeStep, Lock
  <2>4. /\ Len(plan) = 2 /\ plan[1] = Checked(<<"account", sessions[r.session].user>>, "update")
        /\ plan[2] = Checked(<<"member", sessions[r.session].user>>, "share")
    BY <1>5, <2>1 DEF ListsAs, InvitePlan
  <2>5. Elements(plan) = {plan[1], plan[2]}
    BY <1>3, <2>4, SequenceDomain DEF Elements
  <2>6. ASSUME NEW l \in e.held
        PROVE  /\ l.row[1] # "states"
               /\ l.row[1] = "member" => l.mode = "share" /\ Hosts(t, l.row[2])
    <3>1. l \in Elements(plan) \/ PurgeStep(l)
      BY <1>3, <1>7, <2>6 DEF InCourse
    <3>2. plan[1] \in e.held
      BY <1>3, <1>7, <2>5 DEF InCourse
    <3>3. PurgeStep(l) => l.row[1] = "invitation"
      BY DEF PurgeStep, Lock
    <3>4. plan[1].row[1] = "account"
      BY <2>4 DEF Checked
    <3>5. /\ plan[2].row[1] = "member" /\ plan[2].mode = "share"
          /\ plan[2].row[2] = sessions[r.session].user
      BY <2>4 DEF Checked
    <3> QED BY <1>1, <2>4, <2>5, <3>1, <3>2, <3>3, <3>4, <3>5 DEF Hosts
  <2> QED BY <1>1, <1>7, <2>1, <2>3, <2>6 DEF HandsOver, Plain
<1>8. CASE e.stage = "locking"
  <2>1. PICK n \in 1..Len(plan) : Head(e.todo) = plan[n] /\ StepsTaken(plan, e, n - 1)
    BY <1>2, <1>3, <1>8, CourseAhead
  <2>2. Len(plan) \in Nat
    BY <1>3, SequenceDomain
  <2>3. e.held = {plan[i] : i \in 1..(n - 1)}
    BY <2>1 DEF StepsTaken
  <2>4. plan[n].row[1] = "account" /\ plan[n].mode = "update" => e.held = {}
    BY <1>4, <2>1, <2>2, <2>3 DEF InOrder
  <2>5. plan[n].row[1] = "session" => plan[n].mode = "share"
    BY <1>4 DEF InOrder
  <2>6. ASSUME NEW l \in e.held
        PROVE  /\ l.row[1] # "states"
               /\ r.kind # "transfer" /\ l.row[1] = "member" => plan[n].row = <<"states">>
    <3>1. PICK i \in 1..(n - 1) : l = plan[i]
      BY <2>3
    <3>2. i \in 1..Len(plan) /\ i < Len(plan)
      BY <2>2, <3>1
    <3>3. l.row[1] # "states" /\ (r.kind # "transfer" /\ l.row[1] = "member" => plan[i + 1].row = <<"states">>)
      BY <1>4, <3>1, <3>2 DEF InOrder
    <3>4. CASE i + 1 = n
      BY <3>3, <3>4
    <3>5. CASE i + 1 # n
      <4>1. i + 1 \in 1..Len(plan) /\ i + 1 # Len(plan)
        BY <2>2, <3>1, <3>5
      <4>2. plan[i + 1].row # <<"states">>
        BY <1>4, <4>1 DEF InOrder
      <4> QED BY <3>3, <4>2
    <3> QED BY <3>4, <3>5
  <2>7. ASSUME r.kind = "transfer"
        PROVE  \/ \A l \in e.held : l.row[1] \in {"account", "session"} /\ l.mode = "share"
               \/ LastLock(t)
    <3> DEFINE a == Lock(<<"account", Lower(t)>>, "share")
               b == Lock(<<"account", Higher(t)>>, "share")
               c == Checked(<<"session", r.session>>, "share")
               d == Lock(<<"member", Lower(t)>>, "update")
               g == Lock(<<"member", Higher(t)>>, "update")
    <3>1. /\ a.row[1] = "account" /\ a.mode = "share" /\ b.row[1] = "account" /\ b.mode = "share"
          /\ c.row[1] = "session" /\ c.mode = "share"
      BY DEF Lock, Checked
    <3>2. HandOverPlan(r) = <<a, b, c, d, g>>
      BY <1>1 DEF HandOverPlan, Lower, Higher
    <3>3. \A l : LastLock(t) <=> /\ Head(tx[t].todo) = g /\ {a, b} \subseteq tx[t].held
                                 /\ \A m \in tx[t].held : m.row[1] = "member" => m = d
      BY DEF LastLock
    <3> HIDE DEF a, b, c, d, g
    <3>4. Len(plan) = 5 /\ plan[1] = a /\ plan[2] = b /\ plan[3] = c /\ plan[4] = d /\ plan[5] = g
      BY <1>6, <2>7, <3>2 DEF ListsAs
    <3>5. CASE n = 5
      <4>1. e.held = {a, b, c, d}
        <5>1. 1..(n - 1) = {1, 2, 3, 4}
          BY <3>5
        <5> QED BY <2>3, <3>4, <5>1
      <4> QED BY <1>1, <2>1, <3>1, <3>3, <3>4, <3>5, <4>1
    <3>6. CASE n # 5
      <4>1. e.held \subseteq {a, b, c}
        <5>1. 1..(n - 1) \subseteq {1, 2, 3}
          BY <3>4, <3>6
        <5> QED BY <2>3, <3>4, <5>1
      <4> QED BY <3>1, <4>1
    <3> QED BY <3>5, <3>6
  <2>8. ASSUME r.kind # "transfer", r.invitation = None, e.held # {}
        PROVE  \/ plan[n].row = <<"states">>
               \/ \E u : plan[n] = Checked(<<"member", u>>, "share") /\ Hosts(t, u)
    <3>1. n - 1 >= 1
      BY <2>2, <2>3, <2>8
    <3>2. CASE r.kind = "invite"
      <4>1. /\ Len(plan) = 2 /\ plan[1] = Checked(<<"account", sessions[r.session].user>>, "update")
            /\ plan[2] = Checked(<<"member", sessions[r.session].user>>, "share")
        BY <1>5, <3>2 DEF ListsAs, InvitePlan
      <4>2. n = 2
        BY <3>1, <4>1
      <4>3. plan[1] \in e.held
        BY <2>3, <4>2
      <4> QED BY <1>1, <4>1, <4>2, <4>3 DEF Hosts
    <3>3. CASE r.kind # "invite"
      <4>1. Len(plan) <= 1 \/ (Len(plan) = 2 /\ plan[2].row = <<"states">>)
        BY <1>4, <2>8, <3>3 DEF InOrder
      <4>2. PICK k : k = Len(plan)
        OBVIOUS
      <4>3. k \in Nat /\ n \in 1..k
        BY <2>2, <4>2
      <4>4. n = 2 /\ k = 2
        BY <3>1, <4>1, <4>2, <4>3
      <4> QED BY <4>1, <4>2, <4>4
    <3> QED BY <3>2, <3>3
  <2> QED BY <1>1, <2>1, <2>4, <2>5, <2>6, <2>7, <2>8 DEF HandsOver, Plain
<1> QED BY <1>2, <1>7, <1>8

\* In a smallest circle everybody is waited for.
LEMMA WaitedFor ==
    ASSUME NEW waits, NEW S \in Deadlocked(waits), \A R \in Deadlocked(waits) : R \subseteq S => R = S,
           \A x : <<x, x>> \notin waits, NEW t \in S
    PROVE  \E y \in S : <<y, t>> \in waits
<1> SUFFICES ASSUME \A y \in S : <<y, t>> \notin waits PROVE FALSE
  OBVIOUS
<1> DEFINE R == S \ {t}
<1>1. S \in SUBSET {e[1] : e \in waits} /\ \A x \in S : \E u \in S : <<x, u>> \in waits
  BY DEF Deadlocked
<1>2. PICK u \in S : <<t, u>> \in waits
  BY <1>1
<1>3. R # {}
  BY <1>2
<1>4. \A x \in R : \E v \in R : <<x, v>> \in waits
  BY <1>1
<1>5. R \in Deadlocked(waits)
  BY <1>1, <1>3, <1>4 DEF Deadlocked
<1>6. R = S
  BY <1>5
<1> QED BY <1>6

\* No plain transaction is in a circle.
LEMMA NoPlainCircle ==
    ASSUME RowsOK, TxFormsOK, LocksOK, CoursesOK, NEW S \in Cycles, NEW t \in S, Plain(t)
    PROVE  FALSE
<1>1. /\ S \in Deadlocked(Waits) /\ \A R \in Deadlocked(Waits) : R \subseteq S => R = S
      /\ S \in SUBSET {e[1] : e \in Waits} /\ \A x \in S : \E y \in S : <<x, y>> \in Waits
  BY DEF Cycles, Deadlocked
<1>2. \A x, y : <<x, y>> \in Waits =>
          /\ x \in Running /\ y \in Running /\ x # y /\ tx[x].todo # <<>>
          /\ \E l \in tx[y].held : /\ l.row = Head(tx[x].todo).row
                                   /\ Conflict(l.mode, Head(tx[x].todo).mode)
  BY DEF Waits, WaitsFor, Blocks
<1>3. ASSUME NEW x \in S
      PROVE  /\ x \in Running /\ tx[x].todo # <<>>
             /\ \E y \in S : <<x, y>> \in Waits
             /\ \E y \in S : <<y, x>> \in Waits
  <2>1. \E y \in S : <<x, y>> \in Waits
    BY <1>1
  <2>2. \A y : <<y, y>> \notin Waits
    BY <1>2
  <2>3. \E y \in S : <<y, x>> \in Waits
    BY <1>1, <2>2, WaitedFor
  <2> QED BY <1>2, <2>1, <2>3
<1>4. ASSUME NEW x \in S PROVE tx[x].held # {}
  BY <1>2, <1>3
<1>5. ASSUME NEW x \in S PROVE Head(tx[x].todo).row # <<"states">>
  <2>1. PICK y \in S : <<x, y>> \in Waits
    BY <1>3
  <2>2. PICK l \in tx[y].held : l.row = Head(tx[x].todo).row
    BY <1>2, <2>1
  <2>3. l.row[1] # "states"
    BY <1>3, Waiting
  <2> QED BY <2>2, <2>3
<1>6. ASSUME NEW x \in S
      PROVE  ~(Head(tx[x].todo).row[1] = "account" /\ Head(tx[x].todo).mode = "update")
  BY <1>3, <1>4, Waiting
\* An "invite" waits for a hand-over that has locked the account it holds itself.
<1>7. ASSUME ~HandsOver(t) PROVE FALSE
  <2>1. PICK u : Head(tx[t].todo) = Checked(<<"member", u>>, "share") /\ Hosts(t, u)
    BY <1>3, <1>4, <1>5, <1>7, Waiting
  <2>2. PICK y \in S : <<t, y>> \in Waits
    BY <1>3
  <2>3. PICK l \in tx[y].held : l.row = <<"member", u>> /\ l.mode = "update"
    BY <1>2, <2>1, <2>2 DEF Checked, Conflict
  <2>4. l.row[1] = "member" /\ l.row[2] = u /\ l.mode # "share" /\ l.mode # "key"
    BY <2>3
  <2>5. HandsOver(y)
    BY <1>3, <1>5, <2>4, Waiting
  <2>6. LastLock(y)
    BY <1>3, <2>4, <2>5, Waiting
  <2>7. l = Lock(<<"member", Lower(y)>>, "update")
    BY <2>4, <2>6 DEF LastLock
  <2>8. Lower(y) = u
    BY <2>3, <2>7 DEF Lock
  <2>9. Lock(<<"account", u>>, "share") \in tx[y].held
    BY <2>6, <2>8 DEF LastLock
  <2>10. ~Conflict("update", "share")
    <3> DEFINE p == Checked(<<"account", u>>, "update")
               q == Lock(<<"account", u>>, "share")
    <3>1. p.row = q.row /\ p.mode = "update" /\ q.mode = "share"
      BY DEF Lock, Checked
    <3>2. p \in tx[t].held /\ q \in tx[y].held
      BY <2>1, <2>9 DEF Hosts
    <3> HIDE DEF p, q
    <3> QED BY <1>2, <2>2, <3>1, <3>2 DEF LocksOK
  <2> QED BY <2>10 DEF Conflict
\* Who waits for a hand-over that has no membership yet waits for an account FOR UPDATE,
\* so holds nothing.
<1>8. ASSUME NEW x \in S, HandsOver(x) PROVE LastLock(x)
  <2> SUFFICES ASSUME ~LastLock(x) PROVE FALSE
    OBVIOUS
  <2>1. \A l \in tx[x].held : l.row[1] \in {"account", "session"} /\ l.mode = "share"
    BY <1>3, <1>8, Waiting
  <2>2. PICK y \in S : <<y, x>> \in Waits
    BY <1>3
  <2>3. PICK l \in tx[x].held : l.row = Head(tx[y].todo).row /\ Conflict(l.mode, Head(tx[y].todo).mode)
    BY <1>2, <2>2
  <2>4. Head(tx[y].todo).row[1] \in {"account", "session"} /\ Head(tx[y].todo).mode = "update"
    BY <2>1, <2>3 DEF Conflict
  <2>5. Head(tx[y].todo).row[1] = "session" => Head(tx[y].todo).mode = "share"
    BY <1>3, Waiting
  <2> QED BY <1>6, <2>4, <2>5
\* A hand-over that lacks one membership waits for one that lacks a higher one.
<1>9. ASSUME NEW x \in S, HandsOver(x)
      PROVE  /\ Higher(x) \in Nat /\ Lower(x) \in Nat /\ Lower(x) < Higher(x)
             /\ \E y \in S : <<x, y>> \in Waits /\ HandsOver(y) /\ Lower(y) = Higher(x)
  <2>1. LastLock(x)
    BY <1>8, <1>9
  <2>2. /\ Higher(x) \in Nat /\ Lower(x) \in Nat /\ Lower(x) < Higher(x)
    <3> DEFINE u == sessions[tx[x].request.session].user
               v == tx[x].request.target
    <3>1. RequestOK(tx[x].request) /\ tx[x].request.kind = "transfer"
      BY <1>3, <1>9 DEF TxFormsOK, TxOK, HandsOver
    <3>2. u \in Users /\ v \in Users /\ u # v
      BY <3>1 DEF RequestOK, Optional, RowsOK, SessionRow
    <3>3. u \in Nat /\ v \in Nat
      BY <3>2, IdentitiesAssumption
    <3> QED BY <3>2, <3>3 DEF Lower, Higher, Low, High
  <2>3. PICK y \in S : <<x, y>> \in Waits
    BY <1>3
  <2>4. PICK l \in tx[y].held : l.row = <<"member", Higher(x)>>
    BY <1>2, <2>1, <2>3 DEF LastLock, Lock
  <2>5. l.row[1] = "member" /\ l.row[2] = Higher(x)
    BY <2>4
  <2>6. CASE ~HandsOver(y)
    <3>1. Hosts(y, Higher(x))
      BY <1>3, <1>5, <2>5, <2>6, Waiting
    <3> DEFINE p == Checked(<<"account", Higher(x)>>, "update")
               q == Lock(<<"account", Higher(x)>>, "share")
    <3>2. p.row = q.row /\ p.mode = "update" /\ q.mode = "share"
      BY DEF Lock, Checked
    <3>3. p \in tx[y].held /\ q \in tx[x].held
      BY <2>1, <3>1 DEF Hosts, LastLock
    <3> HIDE DEF p, q
    <3>4. ~Conflict("update", "share")
      BY <1>2, <2>3, <3>2, <3>3 DEF LocksOK
    <3> QED BY <3>4 DEF Conflict
  <2>7. CASE HandsOver(y)
    <3>1. l = Lock(<<"member", Lower(y)>>, "update")
      BY <1>8, <2>5, <2>7 DEF LastLock
    <3>2. Lower(y) = Higher(x)
      BY <2>4, <3>1 DEF Lock
    <3> QED BY <2>2, <2>3, <2>7, <3>2
  <2> QED BY <2>6, <2>7
\* So those above t are a smaller circle.
<1> DEFINE R == {x \in S : HandsOver(x) /\ Higher(x) > Higher(t)}
<1>10. HandsOver(t)
  BY <1>7
<1>11. ASSUME NEW x \in S, HandsOver(x), x = t \/ x \in R
       PROVE  \E y \in R : <<x, y>> \in Waits
  <2>1. PICK y \in S : <<x, y>> \in Waits /\ HandsOver(y) /\ Lower(y) = Higher(x)
    BY <1>9, <1>11
  <2>2. /\ Higher(y) \in Nat /\ Lower(y) < Higher(y) /\ Higher(x) \in Nat /\ Higher(t) \in Nat
    BY <1>9, <1>10, <1>11, <2>1
  <2>3. Higher(x) = Higher(t) \/ Higher(x) > Higher(t)
    BY <1>11
  <2>4. Higher(y) > Higher(t)
    BY <2>1, <2>2, <2>3
  <2> QED BY <2>1, <2>4
<1>12. R # {} /\ \A x \in R : \E y \in R : <<x, y>> \in Waits
  BY <1>10, <1>11
<1>13. R \in Deadlocked(Waits)
  BY <1>1, <1>12 DEF Deadlocked
<1>14. R = S
  BY <1>1, <1>13
<1>15. Higher(t) > Higher(t) /\ Higher(t) \in Nat
  BY <1>9, <1>10, <1>14
<1> QED BY <1>15

\* A circle of waiting transactions that is no larger than it must be has only
\* redemptions of invitations and purges of expired ones in it: no hand-over, unlink,
\* link, login or bootstrap closes one, for any number of them.
THEOREM OnlyAdmissionsInvert == Spec => []OnlyAdmissionInverts
<1>1. Init => CoursesOK
  BY DEF Init, CoursesOK, Running
<1>2. IdentitiesInv /\ CoursesOK /\ [Next]_vars => CoursesOK'
  BY CoursesKept DEF IdentitiesInv
<1>3. ASSUME IdentitiesInv, CoursesOK PROVE OnlyAdmissionInverts
  <2>1. RowsOK /\ TxFormsOK /\ LocksOK
    BY <1>3 DEF IdentitiesInv
  <2> SUFFICES ASSUME NEW S \in Cycles, NEW t \in S
               PROVE  tx[t].request.invitation # None \/ tx[t].stage = "purging"
    BY DEF OnlyAdmissionInverts
  <2> QED BY <1>3, <2>1, NoPlainCircle DEF Plain
<1> QED BY <1>1, <1>2, <1>3, IdentitiesInvariant, PTL DEF Spec
=============================================================================
