----------------------------- MODULE Identities -----------------------------
(***************************************************************************)
(* Who gets into the instance and by which login method: the bootstrap of  *)
(* the first owner, invitations, external (OIDC) identities and the        *)
(* hand-over of the Workspace as far as it ends the term of an inviter     *)
(* (server/internal/platform/authn identity.go and oidc.go,                *)
(* authn/postgres identity.go, oidc.go and store.go, httptransport         *)
(* identity.go, goldenpath/postgres owner_transfer.go).                    *)
(*                                                                         *)
(* Every request is one READ COMMITTED transaction that takes its row      *)
(* locks in the order of the code, decides on what it reads under them and *)
(* writes at the commit. An OIDC callback first consumes its state in a    *)
(* statement of its own and then talks to the provider. Cancelled          *)
(* requests, lock timeouts, deadlock victims, refused logins at the        *)
(* provider and failed statements all end in Abort.                        *)
(*                                                                         *)
(* Left out: inactive accounts and suspended members (nothing in the       *)
(* program makes one), the Workspace row, which every transaction locks    *)
(* last, and a locked password (Accounts), which counts as none in Unlink. *)
(* Lifetimes are not measured: what can expire may expire at any time, and *)
(* is judged when it is read, where the code takes the time a little       *)
(* earlier.                                                                *)
(***************************************************************************)
EXTENDS Naturals, Sequences, FiniteSets, RowLocks

CONSTANTS Users,           \* by number, in the stable order of their IDs
          Subjects,        \* accounts at the external provider
          Transactions,    \* database transactions that may overlap
          Menus,           \* which kinds of requests clients send, and how many
                           \* Sessions, invitations and OIDC states there are at most
          InvitationLimit, \* open invitations of one owner: 20 in the code
          StateLimit,      \* OIDC transactions under way: 4096 in the code
          MaxRevision,     \* largest role_revision
          None

\* "age" stands for the passing of the time in which Sessions stay recent.
Kinds == {"bootstrap", "login", "logout", "recover", "invite", "accept", "join", "unlink",
          "start", "callback", "transfer", "age"}

ASSUME IdentitiesAssumption ==
    /\ Users \subseteq Nat \ {0}
    /\ {InvitationLimit, StateLimit, MaxRevision} \subseteq Nat \ {0}
    /\ Menus \subseteq [kinds : SUBSET Kinds, sessions : Nat, invitations : Nat, states : Nat]
    /\ None \notin Users \cup Subjects \cup Nat

VARIABLES menu,        \* what clients send, chosen once
          password,    \* users with a local credential
          bound,       \* external_identities: the user of each subject
          member,      \* workspace_memberships: role and role_revision
          sessions,    \* user_sessions
          invitations, \* identity_invitations
          states,      \* oidc_transactions
          tx,          \* per transaction what it runs, holds and still has to lock
          joined       \* history: which invitation admitted whom

rows == <<password, bound, member, sessions, invitations, states>>
vars == <<menu, rows, tx, joined>>

Accounts == {u \in Users : u \in password \/ \E x \in Subjects : bound[x] = u}

InForce(s) == sessions[s].status \in {"recent", "old"}

-----------------------------------------------------------------------------
(* Locks *)

Low(u, v) == IF u < v THEN u ELSE v
High(u, v) == IF u < v THEN v ELSE u

Account(u, mode) == <<Lock(<<"account", u>>, mode)>>
CheckedAccount(u, mode) == <<Checked(<<"account", u>>, mode)>>

\* Requests of one account run side by side.
BugAuthorize(r) == CheckedAccount(sessions[r.session].user, "share")

\* The account of the Session is locked, then the Session is read again.
Authorize(r) == CheckedAccount(sessions[r.session].user, "update")

\* Trusts the role of the inviter as it is read.
BugRedeem(r) ==
    IF r.invitation = None THEN <<>>
    ELSE <<Checked(<<"invitation", r.invitation>>, "update")>>

\* Invitation, inviter's account, inviter's membership.
Redeem(r) ==
    IF r.invitation = None THEN <<>>
    ELSE LET creator == invitations[r.invitation].creator
         IN  <<Checked(<<"invitation", r.invitation>>, "update"),
               Lock(<<"account", creator>>, "share"), Checked(<<"member", creator>>, "share")>>

\* The memberships before the accounts.
BugTransferPlan(r) ==
    LET u == sessions[r.session].user
        v == r.target
    IN  <<Checked(<<"session", r.session>>, "share"),
          Lock(<<"member", Low(u, v)>>, "update"), Lock(<<"member", High(u, v)>>, "update")>> \o
        Account(Low(u, v), "share") \o Account(High(u, v), "share")

\* Accounts, Session, memberships.
TransferPlan(r) ==
    LET u == sessions[r.session].user
        v == r.target
    IN  Account(Low(u, v), "share") \o Account(High(u, v), "share") \o
        <<Checked(<<"session", r.session>>, "share"),
          Lock(<<"member", Low(u, v)>>, "update"), Lock(<<"member", High(u, v)>>, "update")>>

\* `found` is the user an external login was found to belong to, None if nobody.
Plan(r, found) ==
    CASE r.kind = "bootstrap" -> <<Checked(<<"bootstrap">>, "update")>>
      [] r.kind = "invite" ->
             Authorize(r) \o <<Checked(<<"member", sessions[r.session].user>>, "share")>>
      [] r.kind = "accept" -> Authorize(r) \o Redeem(r)
      [] r.kind = "join" -> Redeem(r)
      [] r.kind = "unlink" -> Authorize(r)
      [] r.kind = "start" ->
             (IF r.session = None THEN <<>> ELSE Authorize(r)) \o Redeem(r) \o
                 <<Lock(<<"states">>, "update")>>
      [] r.kind = "callback" ->
             IF r.session # None THEN Authorize(r)
             ELSE (IF found = None THEN <<>> ELSE CheckedAccount(found, "update")) \o Redeem(r)
      [] r.kind = "transfer" -> TransferPlan(r)

-----------------------------------------------------------------------------
(* Decisions *)

NeedsRecent(r) == r.kind \in {"unlink", "start", "callback", "transfer"}

SessionServes(r) ==
    sessions[r.session].status \in (IF NeedsRecent(r) THEN {"recent"} ELSE {"recent", "old"})

InviterStands(i) ==
    LET m == member[invitations[i].creator]
    IN  m.role = "owner" /\ m.revision = invitations[i].revision

\* The identity was bound to this user when it was looked up.
BugStillBound(t) == TRUE

StillBound(t) == bound[tx[t].subject] = tx[t].found

\* Whoever has the setup code becomes an owner.
BugUnclaimed == TRUE

\* Nobody has an account yet.
Unclaimed == Accounts = {}

\* The decision that follows a checked lock.
Passes(t, row) ==
    LET r == tx[t].request
    IN  CASE row[1] = "bootstrap" -> Unclaimed
          [] row[1] = "session" -> InForce(r.session)
          [] row[1] = "invitation" -> invitations[r.invitation].status = "open"
          [] row[1] = "member" ->
                 IF r.kind = "invite" THEN member[row[2]].role = "owner"
                 ELSE InviterStands(r.invitation)
          [] row[1] = "account" ->
                 IF r.session = None THEN StillBound(t) ELSE SessionServes(r)

Purgeable(i) == invitations[i].status \in {"expired", "consumed"}

\* Counts the invitations of the inviter that a purge leaves.
UnderInvitationLimit(u) ==
    Cardinality({i \in DOMAIN invitations :
        invitations[i].creator = u /\ invitations[i].status = "open"}) < InvitationLimit

UnderStateLimit == Cardinality({k \in DOMAIN states : states[k].status = "pending"}) < StateLimit

\* IDs are fresh; the model takes the lowest that nobody has.
FreshUsers == {u \in Users : u \notin Accounts /\ \A t \in Transactions :
                   tx[t] # None => tx[t].request.user # u}
NewUser == IF FreshUsers = {} THEN None ELSE CHOOSE u \in FreshUsers : \A v \in FreshUsers : u <= v

\* Checked again under all the locks of a hand-over.
MayHandOver(r) ==
    LET u == sessions[r.session].user
    IN  /\ sessions[r.session].status = "recent"
        /\ member[u].role = "owner" /\ member[r.target].role = "member"
        /\ member[u].revision < MaxRevision /\ member[r.target].revision < MaxRevision

\* All locks are held: may the request take effect?
Valid(t) ==
    LET r == tx[t].request
        u == IF r.session = None THEN None ELSE sessions[r.session].user
    IN  CASE r.kind = "invite" -> UnderInvitationLimit(u)
          [] r.kind = "unlink" -> u \in password /\ \E x \in Subjects : bound[x] = u
          [] r.kind = "start" -> UnderStateLimit
          [] r.kind = "callback" /\ r.session # None ->
                 bound[tx[t].subject] = None /\ \A x \in Subjects : bound[x] # u
          [] r.kind = "callback" /\ tx[t].found = None ->
                 r.invitation # None /\ bound[tx[t].subject] = None
          [] r.kind = "transfer" -> MayHandOver(r)
          [] OTHER -> TRUE

-----------------------------------------------------------------------------
\* No owner has more open invitations, and the server no more OIDC transactions, than
\* the limit, however many requests count at the same time.
CapsHold ==
    /\ \A u \in Users : Cardinality({i \in DOMAIN invitations :
           invitations[i].creator = u /\ invitations[i].status = "open"}) <= InvitationLimit
    /\ Cardinality({k \in DOMAIN states : states[k].status = "pending"}) <= StateLimit

TypeOK ==
    /\ menu \in Menus
    /\ password \subseteq Users
    /\ bound \in [Subjects -> Users \cup {None}]
    /\ member \in [Users -> [role : {"none", "member", "owner"}, revision : 1..MaxRevision]]
    /\ \A s \in DOMAIN sessions :
           sessions[s] \in [user : Users, via : Subjects \cup {"password"},
                            status : {"recent", "old", "expired", "logout", "revoked"}]
    /\ \A i \in DOMAIN invitations :
           invitations[i] \in [creator : Users, revision : 1..MaxRevision,
                               status : {"open", "expired", "consumed", "gone"}]
    /\ \A k \in DOMAIN states : states[k].status \in {"pending", "expired", "taken", "late"}
    /\ \A t \in Transactions : tx[t] # None => tx[t].stage \in {"exchange", "locking", "purging"}
    /\ CapsHold

Init ==
    /\ menu \in Menus
    /\ password = {}
    /\ bound = [x \in Subjects |-> None]
    /\ member = [u \in Users |-> [role |-> "none", revision |-> 1]]
    /\ sessions = <<>> /\ invitations = <<>> /\ states = <<>>
    /\ tx = [t \in Transactions |-> None]
    /\ joined = {}

Request(kind) == [kind |-> kind, session |-> None, invitation |-> None, user |-> None, target |-> None]

Linked(u) == \E x \in Subjects : bound[x] = u

\* The requests that reach the database: what clients may send now, after the checks
\* that the handlers and services make before they open a transaction.
OfSession(kind) == {[Request(kind) EXCEPT !.session = s] : s \in DOMAIN sessions}

\* A known invitation is sent whether or not it is still good.
WithInvitation(S) == {[r EXCEPT !.invitation = i] : r \in S, i \in DOMAIN invitations}

\* Whoever has no account yet gets one under a fresh ID.
AsNew(S) == {[r EXCEPT !.user = NewUser] : r \in {r \in S : NewUser # None}}

\* The setup page asks first whether there is an account, the command does not.
Setups == AsNew({Request("bootstrap")})

Invites == OfSession("invite")

\* With a Session its user is admitted, without one a new account.
Admissions == WithInvitation(OfSession("accept")) \cup AsNew(WithInvitation({Request("join")}))

\* A link needs a recent Session whose user has no identity yet; a login starts
\* without a Session and may carry an invitation.
Links == {r \in OfSession("start") :
             sessions[r.session].status = "recent" /\ ~Linked(sessions[r.session].user)}
Starts == Links \cup {Request("start")} \cup WithInvitation({Request("start")})

Transfers == {[r EXCEPT !.target = v] : r \in OfSession("transfer"), v \in Users}

Requests == Setups \cup Invites \cup Admissions \cup OfSession("unlink") \cup Starts \cup Transfers

Room(r) ==
    /\ r.kind = "join" => Len(sessions) < menu.sessions
    /\ r.kind = "invite" => Len(invitations) < menu.invitations
    /\ r.kind = "start" => Len(states) < menu.states
    /\ r.kind = "transfer" => r.target # sessions[r.session].user

Enter(t, r, stage, found, subject) ==
    tx' = [tx EXCEPT ![t] = [request |-> r, stage |-> stage, held |-> {}, found |-> found,
                             subject |-> subject,
                             todo |-> IF stage = "exchange" THEN <<>> ELSE Plan(r, found)]]

Begin(t) ==
    /\ tx[t] = None
    /\ \E r \in Requests :
           r.kind \in menu.kinds /\ Room(r) /\ Enter(t, r, "locking", None, None)
    /\ UNCHANGED <<menu, rows, joined>>

Taken(k) == [states[k] EXCEPT !.status = "taken"]

\* What the callback of a state is about.
CallbackOf(k) == [Request("callback") EXCEPT !.session = states[k].session, !.target = k,
                     !.invitation = states[k].invitation,
                     !.user = IF states[k].session = None THEN NewUser ELSE None]

\* A callback comes in: its state is deleted before anything else happens.
ConsumeState(t, k) ==
    /\ tx[t] = None /\ "callback" \in menu.kinds
    /\ states[k].status = "pending" /\ Len(sessions) < menu.sessions
    /\ states' = [states EXCEPT ![k] = Taken(k)]
    /\ Enter(t, CallbackOf(k), "exchange", None, None)
    /\ UNCHANGED <<menu, password, bound, member, sessions, invitations, joined>>

\* The provider names the subject; its account is looked up without a lock.
Exchange(t, x) ==
    /\ tx[t] # None /\ tx[t].stage = "exchange"
    /\ LET r == tx[t].request
       IN  /\ states[r.target].status = "taken"
           /\ (r.session = None /\ bound[x] = None) => r.user # None /\ r.invitation # None
           /\ Enter(t, r, "locking", IF r.session = None THEN bound[x] ELSE None, x)
    /\ UNCHANGED <<menu, rows, joined>>

-----------------------------------------------------------------------------
(* The course of a transaction *)

Running == {t \in Transactions : tx[t] # None}

WaitsFor(t, u) ==
    t # u /\ tx[t].todo # <<>> /\ Blocks(tx[u].held, Head(tx[t].todo))

Waits == {e \in Running \X Running : WaitsFor(e[1], e[2])}
Free(t) == \A u \in Running : ~WaitsFor(t, u)

Acquire(t) ==
    /\ tx[t] # None /\ tx[t].todo # <<>>
    /\ Free(t)
    /\ LET next == Head(tx[t].todo)
       IN  /\ next.check => Passes(t, next.row)
           /\ tx' = [tx EXCEPT ![t].held = @ \cup {next}, ![t].todo = Tail(@)]
    /\ UNCHANGED <<menu, rows, joined>>

\* A new invitation makes room: the rows of expired ones are deleted, so locked.
Purge(t) ==
    /\ tx[t] # None /\ tx[t].stage = "locking" /\ tx[t].todo = <<>>
    /\ tx[t].request.kind = "invite"
    /\ LET old == {i \in DOMAIN invitations : Purgeable(i)}
           plan == CHOOSE q \in [1..Cardinality(old) -> old] :
                       \A m, n \in DOMAIN q : m < n => q[m] < q[n]
       IN  tx' = [tx EXCEPT ![t].stage = "purging",
                            ![t].todo = [n \in DOMAIN plan |-> Lock(<<"invitation", plan[n]>>, "update")]]
    /\ UNCHANGED <<menu, rows, joined>>

\* The transaction ends without effect: refused, or for any other reason.
Abort(t) ==
    /\ tx[t] # None
    /\ tx' = [tx EXCEPT ![t] = None]
    /\ UNCHANGED <<menu, rows, joined>>

NewSession(u, via) == Append(sessions, [user |-> u, via |-> via, status |-> "recent"])

Revoked(u) == [s \in DOMAIN sessions |->
    IF sessions[s].user = u /\ sessions[s].status # "logout"
    THEN [sessions[s] EXCEPT !.status = "revoked"] ELSE sessions[s]]

\* The invitation is not marked.
BugConsumed(i) == invitations[i]

Consumed(i) == [invitations[i] EXCEPT !.status = "consumed"]

\* A member who is one already keeps the role.
Join(i, u) ==
    /\ member' = IF member[u].role = "none" THEN [member EXCEPT ![u].role = "member"] ELSE member
    /\ invitations' = [invitations EXCEPT ![i] = Consumed(i)]
    /\ joined' = joined \cup {<<i, u>>}

Bootstrap(r) ==
    /\ r.kind = "bootstrap"
    /\ password' = {r.user}
    /\ member' = [member EXCEPT ![r.user].role = "owner"]
    /\ UNCHANGED <<bound, sessions, invitations, states, joined>>

CreateInvitation(t, r) ==
    /\ r.kind = "invite"
    /\ LET u == sessions[r.session].user
           purged == {l.row[2] : l \in {l \in tx[t].held : l.row[1] = "invitation"}}
       IN  invitations' = Append([i \in DOMAIN invitations |->
                  IF i \in purged THEN [invitations[i] EXCEPT !.status = "gone"] ELSE invitations[i]],
              [creator |-> u, revision |-> member[u].revision, status |-> "open"])
    /\ UNCHANGED <<password, bound, member, sessions, states, joined>>

AcceptInvitation(r) ==
    \/ /\ r.kind = "accept"
       /\ Join(r.invitation, sessions[r.session].user)
       /\ UNCHANGED <<password, bound, sessions, states>>
    \/ /\ r.kind = "join"
       /\ password' = password \cup {r.user}
       /\ sessions' = NewSession(r.user, "password")
       /\ Join(r.invitation, r.user)
       /\ UNCHANGED <<bound, states>>

UnlinkExternal(r) ==
    /\ r.kind = "unlink"
    /\ LET u == sessions[r.session].user
       IN  /\ bound' = [x \in Subjects |-> IF bound[x] = u THEN None ELSE bound[x]]
           /\ sessions' = Revoked(u)
    /\ UNCHANGED <<password, member, invitations, states, joined>>

BeginOIDC(r) ==
    /\ r.kind = "start"
    /\ states' = Append(states, [session |-> r.session, invitation |-> r.invitation,
                                 status |-> "pending"])
    /\ UNCHANGED <<password, bound, member, sessions, invitations, joined>>

\* Links the identity to the account of the Session, logs its user in, or creates
\* the account an invitation admits.
CompleteOIDC(t, r) ==
    /\ r.kind = "callback"
    /\ LET x == tx[t].subject
           u == IF tx[t].found = None THEN r.user ELSE tx[t].found
       IN  IF r.session # None
           THEN /\ bound' = [bound EXCEPT ![x] = sessions[r.session].user]
                /\ UNCHANGED <<member, sessions, invitations, joined>>
           ELSE /\ bound' = IF tx[t].found = None THEN [bound EXCEPT ![x] = u] ELSE bound
                /\ sessions' = NewSession(u, x)
                /\ IF r.invitation = None THEN UNCHANGED <<member, invitations, joined>>
                   ELSE Join(r.invitation, u)
    /\ UNCHANGED <<password, states>>

TransferOwner(r) ==
    /\ r.kind = "transfer"
    /\ LET u == sessions[r.session].user
       IN  member' = [w \in Users |->
               IF w \in {u, r.target}
               THEN [role |-> IF w = u THEN "member" ELSE "owner", revision |-> member[w].revision + 1]
               ELSE member[w]]
    /\ UNCHANGED <<password, bound, sessions, invitations, states, joined>>

Effect(t, r) ==
    \/ Bootstrap(r) \/ CreateInvitation(t, r) \/ AcceptInvitation(r) \/ UnlinkExternal(r)
    \/ BeginOIDC(r) \/ CompleteOIDC(t, r) \/ TransferOwner(r)

Commit(t) ==
    /\ tx[t] # None /\ tx[t].stage # "exchange" /\ tx[t].todo = <<>>
    /\ tx[t].request.kind = "invite" => tx[t].stage = "purging"
    /\ tx[t].request.kind \in {"join", "callback"} => Len(sessions) < menu.sessions
    /\ tx[t].request.kind = "start" => Len(states) < menu.states
    /\ tx[t].request.kind = "invite" => Len(invitations) < menu.invitations
    /\ Valid(t)
    /\ Effect(t, tx[t].request)
    /\ tx' = [tx EXCEPT ![t] = None]
    /\ UNCHANGED menu

-----------------------------------------------------------------------------
(* What needs no more than one statement, and the passing of time *)

Unlocked(row) == \A t \in Running : \A l \in tx[t].held : l.row # row

\* A password login (module Accounts).
Login(u) ==
    /\ "login" \in menu.kinds /\ u \in password /\ Unlocked(<<"account", u>>)
    /\ Len(sessions) < menu.sessions
    /\ sessions' = NewSession(u, "password")
    /\ UNCHANGED <<menu, password, bound, member, invitations, states, tx, joined>>

\* Locks no account; a hand-over that has locked the Session makes it wait.
RevokeSession(s) ==
    /\ "logout" \in menu.kinds /\ InForce(s) /\ Unlocked(<<"session", s>>)
    /\ sessions' = [sessions EXCEPT ![s].status = "logout"]
    /\ UNCHANGED <<menu, password, bound, member, invitations, states, tx, joined>>

\* The operator replaces the password of an account (module Accounts).
Recover(u) ==
    /\ "recover" \in menu.kinds /\ u \in password /\ Unlocked(<<"account", u>>)
    /\ \E s \in DOMAIN sessions : sessions[s].user = u /\ InForce(s)
    /\ sessions' = Revoked(u)
    /\ UNCHANGED <<menu, password, bound, member, invitations, states, tx, joined>>

Age ==
    /\ \/ \E s \in DOMAIN sessions :
              /\ "age" \in menu.kinds /\ InForce(s)
              /\ sessions' = [sessions EXCEPT ![s].status =
                     IF @ = "recent" THEN "old" ELSE "expired"]
              /\ UNCHANGED <<invitations, states>>
       \/ \E i \in DOMAIN invitations :
              /\ invitations[i].status = "open"
              /\ invitations' = [invitations EXCEPT ![i].status = "expired"]
              /\ UNCHANGED <<sessions, states>>
       \/ \E k \in DOMAIN states :
              /\ states[k].status \in {"pending", "taken"}
              /\ states' = [states EXCEPT ![k].status = IF @ = "pending" THEN "expired" ELSE "late"]
              /\ UNCHANGED <<sessions, invitations>>
    /\ UNCHANGED <<menu, password, bound, member, tx, joined>>

Next ==
    \/ \E t \in Transactions :
           \/ Begin(t) \/ Acquire(t) \/ Purge(t) \/ Abort(t) \/ Commit(t)
           \/ \E k \in DOMAIN states : ConsumeState(t, k)
           \/ \E x \in Subjects : Exchange(t, x)
    \/ \E u \in Users : Login(u) \/ Recover(u)
    \/ \E s \in DOMAIN sessions : RevokeSession(s)
    \/ Age

Spec == Init /\ [][Next]_vars

-----------------------------------------------------------------------------
(* Properties *)

\* There is nobody, or exactly one owner: of contenders for the bootstrap one wins,
\* and neither a hand-over nor an invitation makes or loses an owner.
OneOwner ==
    Cardinality({u \in Users : member[u].role = "owner"}) = IF Accounts = {} THEN 0 ELSE 1

\* One-time secrets work once. An invitation admits one account, whatever path redeems
\* it, and apart from the first owner nobody is a member without one; a state serves one
\* callback, so there are no more external logins than states taken.
SpentOnce ==
    /\ \A j, k \in joined : j[1] = k[1] => j = k
    /\ Cardinality({u \in Users : member[u].role # "none" /\ \A j \in joined : j[2] # u}) <= 1
    /\ Cardinality({s \in DOMAIN sessions : sessions[s].via # "password"}) +
       Cardinality({t \in Running : tx[t].request.kind = "callback"})
           <= Cardinality({k \in DOMAIN states : states[k].status \in {"taken", "late"}})

\* An invitation is redeemed only while its inviter is owner in the term it was made
\* in, at the moment the redemption commits (ADR-0042, I01 to I05).
InvitersTermHolds ==
    [][\A j \in joined' \ joined :
           LET i == invitations[j[1]]
           IN  member[i.creator] = [role |-> "owner", revision |-> i.revision]]_vars

\* Sessions of an external login are in force only while the identity is bound to
\* their user: an unlink that commits while a callback is under way either ends the
\* Session or keeps it from being created.
SessionsOfBoundIdentities ==
    \A s \in DOMAIN sessions :
        InForce(s) /\ sessions[s].via # "password" => bound[sessions[s].via] = sessions[s].user

\* A request takes effect with a Session that no unlink or recovery has revoked since,
\* and a hand-over with one that nobody has logged out of and that is still recent
\* (ADR-0042, C06).
ActsWithItsSession ==
    [][\A t \in Running : LET r == tx[t].request IN
           Commit(t) /\ r.session # None =>
               /\ sessions[r.session].status # "revoked"
               /\ r.kind = "transfer" => sessions[r.session].status = "recent"]_vars

\* Transactions that wait for one another, and no fewer of them do.
Cycles == {S \in Deadlocked(Waits) : \A R \in Deadlocked(Waits) : R \subseteq S => R = S}

\* A hand-over never closes a circle of waiting transactions, nor does an unlink, a link
\* or a bootstrap (ADR-0042, I03 and I04). Admission alone can: an inviter who redeems
\* an invitation, or whose new invitation purges expired ones, holds the account that
\* another redemption waits for and waits for the invitation that one holds.
OnlyAdmissionInverts ==
    \A S \in Cycles : \A t \in S :
        tx[t].request.invitation # None \/ tx[t].stage = "purging"
=============================================================================
