-------------------------- MODULE WorkspaceCommands --------------------------
(***************************************************************************)
(* The write commands of one Project and one staging Environment as        *)
(* PostgreSQL runs them, statement by statement:                           *)
(* server/internal/goldenpath/postgres (document.go, ticket_status.go,     *)
(* store.go, messaging.go, ticket_component.go, configuration.go,          *)
(* repository_configuration.go, delivery_configuration.go, deployment.go,  *)
(* owner_transfer.go).                                                     *)
(*                                                                         *)
(* A command is one READ COMMITTED transaction. It takes row locks in the  *)
(* order of the code, decides on the actor's role once the row that holds  *)
(* it is locked, resolves its receipt and then writes. Its own writes are  *)
(* seen by nobody before the commit, so they are one step, at the commit.  *)
(* Cancelled requests, lost connections, lock timeouts, deadlock victims   *)
(* and failed statements all end in Abort. A client that got no answer may *)
(* send the same command again at any time, also concurrently.             *)
(*                                                                         *)
(* Left out: rows that no command here locks FOR UPDATE (accounts, Teams,  *)
(* Channels, Threads, Messages, Sessions, CI runs), which never make       *)
(* anybody wait; Thread memberships, which change only under the lock of   *)
(* the Project; archived objects and suspended members; runs that did not  *)
(* succeed; the Session check of the owner transfer; creation of Teams,    *)
(* Projects, Components, Environments and Repositories. Every Channel and  *)
(* every Thread is restricted. Texts and titles are one payload.           *)
(***************************************************************************)
EXTENDS Naturals, Sequences, RowLocks

CONSTANTS Users,         \* by number, in the stable order of their IDs
          Admins,        \* admins of the Project at the start
          Owners,        \* owners of the Workspace at the start
          Transactions,  \* database transactions that may overlap
          Menus,         \* sets of commands; clients send those of one set
          MaxRevision,   \* largest revision a column holds: 2147483647 in the code
          None

Roles == {"none", "viewer", "contributor", "decider", "admin"}
Statuses == {"open", "in-progress", "done", "canceled"}
DocumentKinds == {"document.create", "document.save", "document.restore"}
TicketComponentKinds == {"ticket.component.link", "ticket.component.unlink"}
RepositoryKinds == {"component.repository.link", "component.repository.unlink"}
UnlinkKinds == {"ticket.component.unlink", "component.repository.unlink"}
AuthorizationKinds == {"environment.authorization.grant", "environment.authorization.revoke"}

ProjectMemberKinds == {"project.member.set", "project.member.remove"}
ChannelMemberKinds == {"channel.member.add", "channel.member.remove"}
MemberKinds == ProjectMemberKinds \cup ChannelMemberKinds \cup {"channel.create"}
Kinds == DocumentKinds \cup TicketComponentKinds \cup RepositoryKinds \cup AuthorizationKinds
         \cup ProjectMemberKinds \cup ChannelMemberKinds
         \cup {"ticket.status.change", "decision.propose", "decision.accept", "ticket.create",
               "channel.create", "message.create", "thread.start", "workspace.owner.transfer",
               "deployment.record"}

\* What is checked of a command before its transaction begins.
WellFormed(c) ==
    /\ c.kind \in Kinds /\ c.actor \in Users
    /\ c.kind \in ProjectMemberKinds \cup AuthorizationKinds => c.target \in Users
    /\ c.kind \in ChannelMemberKinds => c.target \in Nat \X Users
    /\ c.kind = "project.member.set" => c.payload \in {"viewer", "contributor", "decider"}
    /\ c.kind = "channel.create" =>
           /\ c.payload \in Seq(Users)
           /\ \A i, j \in DOMAIN c.payload : i < j => c.payload[i] < c.payload[j]
           /\ \E i \in DOMAIN c.payload : c.payload[i] = c.actor
    /\ c.kind = "ticket.status.change" => c.payload \in Statuses
    /\ c.kind = "decision.accept" => c.payload # None
    /\ c.kind = "workspace.owner.transfer" => c.payload \in Users

ASSUME CommandsAssumption ==
    /\ Users \subseteq Nat /\ Admins \subseteq Users /\ Owners \subseteq Users
    /\ MaxRevision \in Nat \ {0}
    /\ None \notin Nat
    /\ \A m \in Menus : \A c \in m : WellFormed(c)

VARIABLES menu,       \* the commands clients send, chosen once
          role,       \* project_memberships.role per user
          member,     \* workspace_memberships role and role_revision per user
          tickets,    \* status and status_revision; the first one exists at the start
          docs,       \* per Document the bodies of its revisions
          decisions,  \* status and outcome; the first one exists at the start
          links,      \* entity_links of Tickets and Components
          channels,   \* per Channel its members; the first one exists at the start
          threads,    \* per Thread its Channel and its members
          messages,   \* per Message its Channel and its Thread, 0 for none
          grants,     \* per user the latest authorization to deploy; generation 0: none
          deployments, \* the deployments recorded, with the authorization each names
          receipts,   \* command receipts by key
          journal,    \* domain events and configuration audit, in commit order
          tx,         \* per transaction what it runs, holds and still has to lock
          answer      \* what the last step answered a client, None if nothing

delivery == <<grants, deployments>>
talk == <<channels, threads, messages>>
entities == <<role, member, tickets, docs, decisions, links, talk, delivery>>
vars == <<menu, entities, receipts, journal, tx, answer>>

\* What identifies a command: the key of its receipt, of the Message it creates, or
\* of the link from a Thread to the one Message that started it.
Key(c) ==
    IF c.kind = "thread.start" THEN <<None, c.kind, c.target, None>>
    ELSE <<c.actor, c.kind, c.target, c.op>>

\* What has to be the same in a retry. Of a Message only the body is compared.
Digest(c) == IF c.kind = "message.create" THEN <<c.payload>> ELSE <<c.payload, c.base>>

\* The user and the Channel a member command is about.
Subject(c) == IF c.kind \in ChannelMemberKinds THEN c.target[2] ELSE c.target
RoomOf(c) ==
    CASE c.kind \in ChannelMemberKinds -> c.target[1]
      [] c.kind = "thread.start" -> messages[c.target].channel
      [] OTHER -> c.target

-----------------------------------------------------------------------------
(* Locks *)

Low(u, v) == IF u < v THEN u ELSE v
High(u, v) == IF u < v THEN v ELSE u

\* Workspace membership, Project and Project role of the actor, in that order.
ActorThenAccess(u) == <<Lock(<<"membership", u>>, "share"), Lock(<<"project">>, "share"),
                        Checked(<<"role", u>>, "share")>>

\* The older order: Project first.
Access(u) == <<Lock(<<"project">>, "share"), Lock(<<"membership", u>>, "share"),
               Checked(<<"role", u>>, "share")>>

\* Reads who is in the Project and in the Channel without locking the rows.
BugRoomPlan(c) == <<Checked(<<"membership", c.actor>>, "share")>>

\* Project, membership, role, and last the place in the restricted Channel.
RoomPlan(c) == <<Lock(<<"project">>, "share"), Lock(<<"membership", c.actor>>, "share"),
                 Lock(<<"role", c.actor>>, "share"),
                 Checked(<<"room", RoomOf(c), c.actor>>, "share")>>

\* The Component a link or unlink command is about.
ComponentOf(c) ==
    IF c.kind \in RepositoryKinds THEN c.target
    ELSE IF c.kind \in UnlinkKinds THEN links[c.payload].to ELSE c.payload

LinkRow(c) ==
    IF c.kind \in UnlinkKinds THEN <<Lock(<<"link", c.payload>>, "update")>> ELSE <<>>

\* Both memberships in stable order, then the Workspace. A transfer that finds
\* its receipt when it starts only reads history.
TransferPlan(c) ==
    IF Key(c) \in DOMAIN receipts
    THEN <<Lock(<<"membership", c.actor>>, "share")>>
    ELSE <<Lock(<<"membership", Low(c.actor, c.payload)>>, "update"),
           Lock(<<"membership", High(c.actor, c.payload)>>, "update"),
           Lock(<<"workspace">>, "update")>>

\* Reads the Project under a shared lock and upgrades it to write.
BugMemberPlan(c) == <<Lock(<<"membership", c.actor>>, "share"), Lock(<<"project">>, "share"),
                      Checked(<<"role", c.actor>>, "share"), Lock(<<"project">>, "update")>>

MemberPlan(c) == <<Lock(<<"membership", c.actor>>, "share"), Lock(<<"project">>, "update"),
                   Checked(<<"role", c.actor>>, "share")>>

ChannelMemberPlan(c) ==
    <<Lock(<<"membership", c.actor>>, "share"), Lock(<<"project">>, "update"),
      Lock(<<"role", c.actor>>, "share"), Checked(<<"room", RoomOf(c), c.actor>>, "share")>>

RepositoryPlan(c) == <<Lock(<<"membership", c.actor>>, "share"), Lock(<<"workspace">>, "update"),
                       Checked(<<"component", ComponentOf(c)>>, "update")>> \o LinkRow(c)

\* A Component is locked before the role decides.
TicketComponentPlan(c) ==
    <<Lock(<<"membership", c.actor>>, "share"), Lock(<<"project">>, "share"),
      Lock(<<"role", c.actor>>, "share"), Lock(<<"ticket", c.target>>, "share"),
      Checked(<<"component", ComponentOf(c)>>, "update")>> \o LinkRow(c)

\* The memberships of owner and grantee in stable order, then the Environment.
AuthorizationPlan(c) == <<Lock(<<"membership", Low(c.actor, c.target)>>, "share"),
                          Lock(<<"membership", High(c.actor, c.target)>>, "share"),
                          Checked(<<"environment">>, "update")>>

\* Looks for the authorization before it locks what revoking it locks.
BugDeploymentPlan(c) == <<Checked(<<"membership", c.actor>>, "share"),
                          Lock(<<"environment">>, "share"),
                          Lock(<<"authorization", c.actor>>, "share")>>

DeploymentPlan(c) == <<Lock(<<"membership", c.actor>>, "share"), Lock(<<"environment">>, "share"),
                       Checked(<<"authorization", c.actor>>, "share")>>

\* The locks a command takes before it resolves its receipt.
Before(c) ==
    CASE c.kind = "document.create" -> ActorThenAccess(c.actor)
      [] c.kind \in {"document.save", "document.restore"} ->
             Append(ActorThenAccess(c.actor), Lock(<<"document", c.target>>, "update"))
      [] c.kind = "ticket.status.change" ->
             Append(ActorThenAccess(c.actor), Lock(<<"ticket", c.target>>, "update"))
      [] c.kind = "decision.propose" -> Access(c.actor)
      [] c.kind = "decision.accept" ->
             <<Lock(<<"decision", c.target>>, "update")>> \o Access(c.actor)
      [] c.kind = "ticket.create" ->
             <<Lock(<<"decision", c.target>>, "share")>> \o Access(c.actor)
      [] c.kind \in TicketComponentKinds -> TicketComponentPlan(c)
      [] c.kind \in RepositoryKinds -> RepositoryPlan(c)
      [] c.kind \in {"message.create", "thread.start"} -> RoomPlan(c)
      [] c.kind \in ProjectMemberKinds \cup {"channel.create"} -> MemberPlan(c)
      [] c.kind \in ChannelMemberKinds -> ChannelMemberPlan(c)
      [] c.kind = "workspace.owner.transfer" -> TransferPlan(c)
      [] c.kind \in AuthorizationKinds -> AuthorizationPlan(c)
      [] c.kind = "deployment.record" -> DeploymentPlan(c)

\* The membership and the role of each member of a new Channel, in order.
ElectLocks(users) ==
    [i \in 1..(2 * Len(users)) |->
        LET u == users[(i + 1) \div 2]
        IN  IF i % 2 = 1 THEN Lock(<<"membership", u>>, "share")
            ELSE Checked(<<"role", u>>, "share")]

\* The locks it takes after that. The foreign key of the receipt locks the
\* Workspace, in a collaboration command as part of resolving the receipt. A role
\* is changed only after the target's old one was looked at under its lock.
After(c) ==
    CASE c.kind = "workspace.owner.transfer" -> <<>>
      [] c.kind = "project.member.set" ->
             <<Checked(<<"role", c.target>>, "update"), Lock(<<"membership", c.target>>, "share"),
               Lock(<<"workspace">>, "key")>>
      [] c.kind = "project.member.remove" ->
             <<Checked(<<"role", c.target>>, "update"), Lock(<<"workspace">>, "key")>>
      [] c.kind = "channel.create" -> Append(ElectLocks(c.payload), Lock(<<"workspace">>, "key"))
      [] c.kind = "channel.member.add" ->
             <<Lock(<<"role", Subject(c)>>, "update"),
               Checked(<<"room", RoomOf(c), Subject(c)>>, "update"),
               Lock(<<"membership", Subject(c)>>, "share"), Lock(<<"workspace">>, "key")>>
      [] c.kind = "channel.member.remove" ->
             <<Lock(<<"role", Subject(c)>>, "update"),
               Checked(<<"room", RoomOf(c), Subject(c)>>, "update"), Lock(<<"workspace">>, "key")>>
      [] c.kind \in AuthorizationKinds ->
             <<Checked(<<"authorization", c.target>>, "update"), Lock(<<"workspace">>, "key")>>
      [] OTHER -> <<Lock(<<"workspace">>, "key")>>

-----------------------------------------------------------------------------
(* Decisions *)

Contributes(u) == role[u] \in {"contributor", "decider", "admin"}
MayRead(u, thread) == thread # 0 => u \in threads[thread].members

\* May the actor do this now?
Permitted(c) ==
    CASE c.kind \in RepositoryKinds \cup AuthorizationKinds \cup {"workspace.owner.transfer"} ->
             member[c.actor].owner
      [] c.kind = "deployment.record" -> grants[c.actor].active
      [] c.kind \in ProjectMemberKinds \cup {"channel.create"} -> role[c.actor] = "admin"
      [] c.kind \in ChannelMemberKinds ->
             role[c.actor] = "admin" /\ c.actor \in channels[RoomOf(c)]
      [] c.kind \in {"message.create", "thread.start"} ->
             Contributes(c.actor) /\ c.actor \in channels[RoomOf(c)]
      [] c.kind = "decision.accept" -> role[c.actor] \in {"decider", "admin"}
      [] OTHER -> Contributes(c.actor)

\* What is decided at the checked step before the receipt.
Admitted(c) ==
    /\ Permitted(c)
    /\ c.kind = "ticket.create" => decisions[c.target].status = "accepted"
    /\ c.kind = "thread.start" => MayRead(c.actor, messages[c.target].thread)

CanTransition(from, to) == from # to /\ (from \in {"open", "in-progress"} \/ to = "open")

\* The last save wins.
BugSaveValid(c) == Len(docs[c.target]) < MaxRevision

SaveValid(c) ==
    /\ c.base = Len(docs[c.target])
    /\ Len(docs[c.target]) < MaxRevision

StatusValid(c) ==
    /\ c.base = tickets[c.target].revision
    /\ CanTransition(tickets[c.target].status, c.payload)
    /\ tickets[c.target].revision < MaxRevision

AcceptValid(c) == decisions[c.target].status = "proposed"

MemberValid(c) ==
    /\ c.kind # "channel.member.add" => role[Subject(c)] # "admin" /\ Subject(c) # c.actor
    /\ c.kind = "channel.member.add" => role[Subject(c)] # "none"
    /\ c.base = IF c.kind \in ProjectMemberKinds THEN role[c.target]
                ELSE Subject(c) \in channels[RoomOf(c)]

\* The Thread of a reply is in the Channel and open to its author.
ReplyValid(c) ==
    MayRead(c.actor, c.base) /\ (c.base # 0 => threads[c.base].channel = c.target)

TransferValid(c) ==
    /\ member[c.actor].owner
    /\ ~member[c.payload].owner
    /\ c.base = <<member[c.actor].revision, member[c.payload].revision>>
    /\ member[c.actor].revision < MaxRevision /\ member[c.payload].revision < MaxRevision

\* The latest authorization is the one the owner saw; it need not change.
GrantValid(c) == c.base = grants[c.target]

ActiveLinks(from, to) ==
    {i \in DOMAIN links : links[i].from = from /\ links[i].to = to /\ links[i].active}

\* Can a command whose receipt is new take effect?
Valid(c) ==
    CASE c.kind = "document.save" -> SaveValid(c)
      [] c.kind = "document.restore" -> SaveValid(c) /\ c.payload \in DOMAIN docs[c.target]
      [] c.kind = "ticket.status.change" -> StatusValid(c)
      [] c.kind = "decision.accept" -> AcceptValid(c)
      [] c.kind \in UnlinkKinds -> links[c.payload].active
      [] c.kind \in (TicketComponentKinds \cup RepositoryKinds) \ UnlinkKinds ->
             ActiveLinks(c.target, c.payload) = {}
      [] c.kind \in ProjectMemberKinds \cup ChannelMemberKinds -> MemberValid(c)
      [] c.kind = "channel.create" -> \A i \in DOMAIN c.payload : role[c.payload[i]] # "none"
      [] c.kind = "message.create" -> ReplyValid(c)
      [] c.kind = "workspace.owner.transfer" -> TransferValid(c)
      [] c.kind \in AuthorizationKinds -> GrantValid(c)
      [] c.kind = "deployment.record" ->
             \A i \in DOMAIN deployments : deployments[i].run # c.target
      [] OTHER -> TRUE

\* What a success tells the client.
Result(c, id, revision) ==
    CASE c.kind \in DocumentKinds -> <<id, revision>>
      [] c.kind = "ticket.status.change" -> <<id, revision, c.payload>>
      [] OTHER -> <<id>>

\* What the answer to a retry would show that its sender may have lost: the Message
\* of a Thread, and, once the digest was compared, a Channel.
Hidden(c, r) ==
    \/ c.kind = "message.create" /\ ~MayRead(c.actor, messages[r.id].thread)
    \/ c.kind = "channel.create" /\ Digest(c) = r.digest /\ c.actor \notin channels[r.id]

Answer(c, outcome, result) == [command |-> c, outcome |-> outcome, result |-> result]

\* Does the journal confirm the receipt of a status change?
Provenance(c, r) ==
    LET e == journal[r.entry]
    IN  /\ r.id = c.target /\ e.key = Key(c) /\ e.payload = c.payload
        /\ e.base = c.base /\ e.revision = r.revision
        /\ r.revision <= tickets[c.target].revision

\* Tells the revision the Document has by now.
BugReplayed(c) ==
    LET r == receipts[Key(c)]
    IN  IF Digest(c) # r.digest THEN Answer(c, "conflict", None)
        ELSE IF c.kind \in DocumentKinds THEN Answer(c, "done", <<r.id, Len(docs[r.id])>>)
        ELSE Answer(c, "done", Result(c, r.id, r.revision))

\* What a retry is told. A Message starts one Thread, and nobody is told which.
Replayed(c) ==
    LET r == receipts[Key(c)]
    IN  IF Hidden(c, r) THEN Answer(c, "refused", None)
        ELSE IF Digest(c) # r.digest \/ c.kind = "thread.start" THEN Answer(c, "conflict", None)
        ELSE IF c.kind = "ticket.status.change" /\ ~Provenance(c, r) THEN Answer(c, "broken", None)
        ELSE Answer(c, "done", Result(c, r.id, r.revision))

-----------------------------------------------------------------------------
(* Who waits for whom *)

Running == {t \in Transactions : tx[t] # None}

\* A receipt looked up before it is inserted, with nothing to wait for.
BugSameClaim(t, u) == FALSE

\* Another transaction has inserted the same receipt and has not ended: the
\* unique index makes the second INSERT wait for it.
SameClaim(t, u) ==
    tx[u].claimed /\ ~tx[t].claimed /\ Key(tx[u].command) = Key(tx[t].command)

WaitsFor(t, u) ==
    /\ t # u
    /\ IF tx[t].todo # <<>> THEN Blocks(tx[u].held, Head(tx[t].todo)) ELSE SameClaim(t, u)

Waits == {e \in Running \X Running : WaitsFor(e[1], e[2])}
Free(t) == \A u \in Running : ~WaitsFor(t, u)

\* Does the object exist that the command names?
Targeted(c) ==
    CASE c.kind \in {"document.save", "document.restore"} -> c.target \in DOMAIN docs
      [] c.kind \in UnlinkKinds -> c.payload \in DOMAIN links
      [] c.kind \in {"document.create", "ticket.status.change"} \cup (TicketComponentKinds \ UnlinkKinds) ->
             c.target \in DOMAIN tickets
      [] c.kind \in {"decision.accept", "ticket.create"} -> c.target \in DOMAIN decisions
      [] c.kind = "message.create" ->
             c.target \in DOMAIN channels /\ c.base \in {0} \cup DOMAIN threads
      [] c.kind = "thread.start" -> c.target \in DOMAIN messages
      [] c.kind \in ChannelMemberKinds -> RoomOf(c) \in DOMAIN channels
      [] OTHER -> TRUE

-----------------------------------------------------------------------------
TypeOK ==
    /\ menu \in Menus
    /\ role \in [Users -> Roles]
    /\ member \in [Users -> [owner : BOOLEAN, revision : 1..MaxRevision]]
    /\ \A i \in DOMAIN tickets : tickets[i] \in [status : Statuses, revision : 1..MaxRevision]
    /\ \A i \in DOMAIN docs : Len(docs[i]) \in 1..MaxRevision
    /\ \A i \in DOMAIN decisions :
           /\ decisions[i].status \in {"proposed", "accepted"}
           /\ (decisions[i].status = "accepted") = (decisions[i].outcome # None)
    /\ \A i \in DOMAIN links : links[i].active \in BOOLEAN
    /\ \A i \in DOMAIN channels : channels[i] \subseteq Users
    /\ \A i \in DOMAIN threads : threads[i].channel \in DOMAIN channels
    /\ \A i \in DOMAIN messages : messages[i].thread \in {0} \cup DOMAIN threads
    /\ grants \in [Users -> [generation : Nat, active : BOOLEAN]]
    /\ \A i \in DOMAIN deployments :
           deployments[i].generation \in 1..grants[deployments[i].by].generation
    /\ \A k \in DOMAIN receipts : receipts[k].entry \in DOMAIN journal
    /\ \A t \in Transactions : tx[t] = None \/ tx[t].command \in menu

Init ==
    /\ menu \in Menus
    /\ role = [u \in Users |-> IF u \in Admins THEN "admin" ELSE "contributor"]
    /\ member = [u \in Users |-> [owner |-> u \in Owners, revision |-> 1]]
    /\ tickets = <<[status |-> "open", revision |-> 1]>>
    /\ docs = <<>>
    /\ decisions = <<[status |-> "proposed", outcome |-> None]>>
    /\ links = <<>>
    /\ channels = <<Users>>
    /\ threads = <<>>
    /\ messages = <<[channel |-> 1, thread |-> 0]>>
    /\ grants = [u \in Users |-> [generation |-> 0, active |-> FALSE]]
    /\ deployments = <<>>
    /\ receipts = <<>>
    /\ journal = <<>>
    /\ tx = [t \in Transactions |-> None]
    /\ answer = None

\* A request arrives and its transaction begins.
Begin(t, c) ==
    /\ tx[t] = None
    /\ Targeted(c)
    /\ tx' = [tx EXCEPT ![t] = [command |-> c, held |-> {}, todo |-> Before(c), claimed |-> FALSE]]
    /\ answer' = None
    /\ UNCHANGED <<menu, entities, receipts, journal>>

\* Does the decision that follows a checked step let the command go on?
Passes(t) == IF tx[t].claimed THEN Valid(tx[t].command) ELSE Admitted(tx[t].command)

\* The next row lock is free, and what is decided after it lets the command go on.
Acquire(t) ==
    /\ tx[t] # None /\ tx[t].todo # <<>>
    /\ Free(t)
    /\ Head(tx[t].todo).check => Passes(t)
    /\ tx' = [tx EXCEPT ![t].held = @ \cup {Head(tx[t].todo)}, ![t].todo = Tail(@)]
    /\ answer' = None
    /\ UNCHANGED <<menu, entities, receipts, journal>>

\* The transaction ends without effect; its client gets an answer, or none.
End(t, reply) ==
    /\ tx' = [tx EXCEPT ![t] = None]
    /\ answer' = reply
    /\ UNCHANGED <<menu, entities, receipts, journal>>

\* The decision is against the command.
Refuse(t) ==
    /\ tx[t] # None /\ tx[t].todo # <<>>
    /\ Free(t)
    /\ Head(tx[t].todo).check /\ ~Passes(t)
    /\ End(t, Answer(tx[t].command, "refused", None))

\* All locks held, no receipt: the command inserts one. Commands that lock an
\* object FOR UPDATE never meet a second claim here; those that create do.
Claim(t) ==
    /\ tx[t] # None /\ tx[t].todo = <<>> /\ ~tx[t].claimed
    /\ Free(t)
    /\ Key(tx[t].command) \notin DOMAIN receipts
    /\ tx' = [tx EXCEPT ![t].claimed = TRUE, ![t].todo = After(tx[t].command)]
    /\ answer' = None
    /\ UNCHANGED <<menu, entities, receipts, journal>>

\* All locks held and the receipt of an earlier run is there.
Replay(t) ==
    /\ tx[t] # None /\ tx[t].todo = <<>> /\ ~tx[t].claimed
    /\ Free(t)
    /\ Key(tx[t].command) \in DOMAIN receipts
    /\ End(t, Replayed(tx[t].command))

\* The objects are not as the command assumes; the claim is rolled back.
Reject(t) ==
    /\ tx[t] # None /\ tx[t].claimed /\ tx[t].todo = <<>>
    /\ ~Valid(tx[t].command)
    /\ End(t, Answer(tx[t].command, "conflict", None))

Abort(t) ==
    /\ tx[t] # None
    /\ End(t, None)

-----------------------------------------------------------------------------
(* Effects. Each writes its entity, its receipt and its journal entry. *)

\* id names the object written, from and to its states before and after.
Record(c, id, revision, from, to) ==
    /\ journal' = Append(journal, [key |-> Key(c), kind |-> c.kind, id |-> id, revision |-> revision,
                                   from |-> from, to |-> to, payload |-> c.payload, base |-> c.base])
    /\ receipts' = [k \in DOMAIN receipts \cup {Key(c)} |->
                       IF k = Key(c)
                       THEN [digest |-> Digest(c), id |-> id, revision |-> revision,
                             entry |-> Len(journal) + 1]
                       ELSE receipts[k]]
    /\ answer' = Answer(c, "done", Result(c, id, revision))

CreateDocument(c) ==
    /\ c.kind = "document.create"
    /\ docs' = Append(docs, <<c.payload>>)
    /\ Record(c, Len(docs) + 1, 1, None, c.payload)
    /\ UNCHANGED <<role, member, tickets, decisions, links, talk, delivery>>

\* A restore appends the old body as a new revision.
ReviseDocument(c) ==
    /\ c.kind \in {"document.save", "document.restore"}
    /\ LET body == IF c.kind = "document.save" THEN c.payload ELSE docs[c.target][c.payload]
       IN  /\ docs' = [docs EXCEPT ![c.target] = Append(@, body)]
           /\ Record(c, c.target, Len(docs[c.target]) + 1, Len(docs[c.target]), body)
    /\ UNCHANGED <<role, member, tickets, decisions, links, talk, delivery>>

ChangeTicketStatus(c) ==
    /\ c.kind = "ticket.status.change"
    /\ tickets' = [tickets EXCEPT ![c.target] = [status |-> c.payload, revision |-> c.base + 1]]
    /\ Record(c, c.target, c.base + 1, tickets[c.target].status, c.payload)
    /\ UNCHANGED <<role, member, docs, decisions, links, talk, delivery>>

ProposeDecision(c) ==
    /\ c.kind = "decision.propose"
    /\ decisions' = Append(decisions, [status |-> "proposed", outcome |-> None])
    /\ Record(c, Len(decisions) + 1, 0, None, "proposed")
    /\ UNCHANGED <<role, member, tickets, docs, links, talk, delivery>>

AcceptDecision(c) ==
    /\ c.kind = "decision.accept"
    /\ decisions' = [decisions EXCEPT ![c.target] = [status |-> "accepted", outcome |-> c.payload]]
    /\ Record(c, c.target, 0, "proposed", "accepted")
    /\ UNCHANGED <<role, member, tickets, docs, links, talk, delivery>>

CreateTicket(c) ==
    /\ c.kind = "ticket.create"
    /\ tickets' = Append(tickets, [status |-> "open", revision |-> 1])
    /\ Record(c, Len(tickets) + 1, 0, None, "open")
    /\ UNCHANGED <<role, member, docs, decisions, links, talk, delivery>>

LinkComponent(c) ==
    /\ c.kind \in (TicketComponentKinds \cup RepositoryKinds) \ UnlinkKinds
    /\ links' = Append(links, [from |-> c.target, to |-> c.payload, active |-> TRUE])
    /\ Record(c, Len(links) + 1, 0, "", "active")
    /\ UNCHANGED <<role, member, tickets, docs, decisions, talk, delivery>>

UnlinkComponent(c) ==
    /\ c.kind \in UnlinkKinds
    /\ links' = [links EXCEPT ![c.payload].active = FALSE]
    /\ Record(c, c.payload, 0, "active", "removed")
    /\ UNCHANGED <<role, member, tickets, docs, decisions, talk, delivery>>

SetProjectMember(c) ==
    /\ c.kind = "project.member.set"
    /\ role' = [role EXCEPT ![c.target] = c.payload]
    /\ Record(c, c.target, 0, role[c.target], c.payload)
    /\ UNCHANGED <<member, tickets, docs, decisions, links, talk, delivery>>

\* Takes a user out of Threads and Channels of the Project: out of all of them, or
\* out of one Channel and its Threads.
Dismiss(u, rooms) ==
    /\ channels' = [i \in DOMAIN channels |->
                        IF i \in rooms THEN channels[i] \ {u} ELSE channels[i]]
    /\ threads' = [i \in DOMAIN threads |->
                       IF threads[i].channel \in rooms
                       THEN [threads[i] EXCEPT !.members = @ \ {u}] ELSE threads[i]]

RemoveProjectMember(c) ==
    /\ c.kind = "project.member.remove"
    /\ Dismiss(c.target, DOMAIN channels)
    /\ role' = [role EXCEPT ![c.target] = "none"]
    /\ Record(c, c.target, 0, role[c.target], "none")
    /\ UNCHANGED <<member, tickets, docs, decisions, links, messages, delivery>>

SetChannelMember(c) ==
    /\ c.kind \in ChannelMemberKinds
    /\ IF c.kind = "channel.member.remove" THEN Dismiss(Subject(c), {RoomOf(c)})
       ELSE /\ channels' = [channels EXCEPT ![RoomOf(c)] = @ \cup {Subject(c)}]
            /\ UNCHANGED threads
    /\ Record(c, Subject(c), 0, c.base, c.kind = "channel.member.add")
    /\ UNCHANGED <<role, member, tickets, docs, decisions, links, messages, delivery>>

CreateChannel(c) ==
    /\ c.kind = "channel.create"
    /\ channels' = Append(channels, {c.payload[i] : i \in DOMAIN c.payload})
    /\ Record(c, Len(channels) + 1, 0, None, "active")
    /\ UNCHANGED <<role, member, tickets, docs, decisions, links, threads, messages, delivery>>

CreateMessage(c) ==
    /\ c.kind = "message.create"
    /\ messages' = Append(messages, [channel |-> c.target, thread |-> c.base])
    /\ Record(c, Len(messages) + 1, 0, None, c.payload)
    /\ UNCHANGED <<role, member, tickets, docs, decisions, links, channels, threads, delivery>>

\* Only its creator is a member of a new Thread.
StartThreadFromMessage(c) ==
    /\ c.kind = "thread.start"
    /\ threads' = Append(threads, [channel |-> RoomOf(c), members |-> {c.actor}])
    /\ Record(c, Len(threads) + 1, 0, None, "active")
    /\ UNCHANGED <<role, member, tickets, docs, decisions, links, channels, messages, delivery>>

\* Promote the target, demote the actor; nobody sees half of it.
TransferOwner(c) ==
    /\ c.kind = "workspace.owner.transfer"
    /\ member' = [u \in Users |->
                     IF u \in {c.actor, c.payload}
                     THEN [owner |-> u = c.payload, revision |-> member[u].revision + 1]
                     ELSE member[u]]
    /\ Record(c, c.payload, 0, "member", "owner")
    /\ UNCHANGED <<role, tickets, docs, decisions, links, talk, delivery>>

\* A grant after a revocation is a new authorization; one that is active stays.
AuthorizeEnvironment(c) ==
    /\ c.kind \in AuthorizationKinds
    /\ LET old == grants[c.target]
           granted == c.kind = "environment.authorization.grant"
           new == [generation |-> IF granted /\ ~old.active THEN old.generation + 1
                                  ELSE old.generation,
                   active |-> granted]
       IN  /\ grants' = [grants EXCEPT ![c.target] = new]
           /\ Record(c, c.target, 0, old, new)
    /\ UNCHANGED <<role, member, tickets, docs, decisions, links, talk, deployments>>

RecordStagingDeployment(c) ==
    /\ c.kind = "deployment.record"
    /\ deployments' = Append(deployments, [run |-> c.target, by |-> c.actor,
                                           generation |-> grants[c.actor].generation])
    /\ Record(c, Len(deployments) + 1, 0, None, c.payload)
    /\ UNCHANGED <<role, member, tickets, docs, decisions, links, talk, grants>>

Effect(c) ==
    \/ CreateDocument(c) \/ ReviseDocument(c) \/ ChangeTicketStatus(c)
    \/ ProposeDecision(c) \/ AcceptDecision(c) \/ CreateTicket(c)
    \/ LinkComponent(c) \/ UnlinkComponent(c)
    \/ SetProjectMember(c) \/ TransferOwner(c)
    \/ RemoveProjectMember(c) \/ SetChannelMember(c) \/ CreateChannel(c)
    \/ CreateMessage(c) \/ StartThreadFromMessage(c)
    \/ AuthorizeEnvironment(c) \/ RecordStagingDeployment(c)

Commit(t) ==
    /\ tx[t] # None /\ tx[t].claimed /\ tx[t].todo = <<>>
    /\ Valid(tx[t].command)
    /\ Effect(tx[t].command)
    /\ tx' = [tx EXCEPT ![t] = None]
    /\ UNCHANGED menu

Next ==
    \E t \in Transactions :
        \/ \E c \in menu : Begin(t, c)
        \/ Acquire(t) \/ Refuse(t) \/ Claim(t) \/ Replay(t)
        \/ Reject(t) \/ Abort(t) \/ Commit(t)

Spec == Init /\ [][Next]_vars

-----------------------------------------------------------------------------
(* Properties *)

\* No set of transactions waits for one another: the lock orders of the commands
\* are compatible (docs/adr/0026, 0034, 0042 ask for it).
NoDeadlock == Deadlocked(Waits) = {}

\* Whose membership a command locks before the Project, and whose after it. An
\* actor's own is locked once.
LockedFirst(c) ==
    IF c.kind \in DocumentKinds \cup {"ticket.status.change"} \cup TicketComponentKinds \cup MemberKinds
    THEN {c.actor} ELSE {}
LockedLater(c) ==
    CASE c.kind \in {"decision.propose", "decision.accept", "ticket.create", "message.create",
                     "thread.start"} -> {c.actor}
      [] c.kind \in {"project.member.set", "channel.member.add"} -> {Subject(c)} \ {c.actor}
      [] c.kind = "channel.create" -> {c.payload[i] : i \in DOMAIN c.payload} \ {c.actor}
      [] OTHER -> {}

\* Commands whose orders of locks are compatible: Components are not linked to Tickets
\* and to Repositories at once; and while the Workspace may be handed over and members
\* change, memberships locked before the Project precede those locked after it.
Offers(m, kinds) == \E c \in m : c.kind \in kinds
Orderly(m) ==
    /\ ~(Offers(m, TicketComponentKinds) /\ Offers(m, RepositoryKinds))
    /\ Offers(m, {"workspace.owner.transfer"}) /\ Offers(m, MemberKinds) =>
           \A c, d \in m : \A u \in LockedFirst(c), v \in LockedLater(d) : u < v

\* However often a command is sent, in parallel or after lost answers, it takes
\* effect once, and its receipt leads to that effect.
OneEffect ==
    /\ \A i, j \in DOMAIN journal : journal[i].key = journal[j].key => i = j
    /\ {journal[i].key : i \in DOMAIN journal} = DOMAIN receipts
    /\ \A k \in DOMAIN receipts :
           LET e == journal[receipts[k].entry]
           IN  e.key = k /\ e.id = receipts[k].id /\ e.revision = receipts[k].revision

Succeeded(reply) == reply # None /\ reply.outcome = "done"

\* A success, of the first run or of a retry much later, names what this command
\* did, not what the object is by then; and no receipt turns out broken.
AnswerIsOwnEffect ==
    answer # None =>
        /\ answer.outcome # "broken"
        /\ Succeeded(answer) =>
               \E i \in DOMAIN journal :
                   LET e == journal[i]
                       c == answer.command
                   IN  /\ e.key = Key(c) /\ Digest(e) = Digest(c)
                       /\ answer.result = Result(c, e.id, e.revision)

Entries(kinds, id) == {i \in DOMAIN journal : journal[i].kind \in kinds /\ journal[i].id = id}

DocumentsChain ==
    \A d \in DOMAIN docs : \A r \in DOMAIN docs[d] :
        \E i \in Entries(DocumentKinds, d) :
            /\ journal[i].revision = r /\ journal[i].to = docs[d][r]
            /\ \A j \in Entries(DocumentKinds, d) : journal[j].revision = r => i = j
            /\ r > 1 => journal[i].base = r - 1
            /\ journal[i].kind = "document.restore" => docs[d][r] = docs[d][journal[i].payload]

TicketsChain ==
    \A k \in DOMAIN tickets :
        LET changes == Entries({"ticket.status.change"}, k)
        IN  /\ tickets[k].revision <= MaxRevision
            /\ \A i, j \in changes :
                   journal[j].revision = journal[i].revision + 1 =>
                       i < j /\ journal[j].from = journal[i].to
            /\ \A r \in 2..tickets[k].revision :
                   \E i \in changes : journal[i].revision = r /\ journal[i].base = r - 1
            /\ \A i \in changes :
                   journal[i].revision = tickets[k].revision => journal[i].to = tickets[k].status

GrantsChain ==
    \A u \in Users :
        LET changes == Entries(AuthorizationKinds, u)
        IN  \A i \in changes :
                LET later == {j \in changes : j > i}
                IN  IF later = {} THEN journal[i].to = grants[u]
                    ELSE \E j \in later :
                             /\ \A k \in later : j <= k
                             /\ journal[j].base = journal[i].to

DecisionsChain ==
    \A d \in DOMAIN decisions :
        LET accepts == Entries({"decision.accept"}, d)
        IN  /\ \A i, j \in accepts : i = j
            /\ {journal[i].payload : i \in accepts} = {decisions[d].outcome} \ {None}
            /\ \A k \in DOMAIN journal :
                   journal[k].kind = "ticket.create" /\ journal[k].key[3] = d =>
                       \E i \in accepts : i < k

\* No lost update: every Document revision, Ticket status and authorization was
\* written by one command that had seen the state just before it, and the row holds
\* the last of them; a Decision was accepted once, keeps that outcome, and Tickets
\* were created from it only afterwards.
RevisionsChain == DocumentsChain /\ TicketsChain /\ GrantsChain /\ DecisionsChain

\* Who leaves the Project leaves its private Channels and Threads, and who leaves a
\* Channel leaves its Threads, whatever he was doing at the time: joining again
\* later revives no old access (ADR-0026).
NoLeftoverAccess ==
    /\ \A i \in DOMAIN channels : \A u \in channels[i] : role[u] # "none"
    /\ \A i \in DOMAIN threads : threads[i].members \subseteq channels[threads[i].channel]

\* Whoever is told of a success may do it at that moment: a role withdrawn before
\* neither lets a command commit nor an exact retry read its receipt (ADR-0026). The
\* exception is the hand-over: the former owner may read its receipt (ADR-0042).
AuthorizedCommit ==
    [][Succeeded(answer') /\ (answer'.command.kind = "workspace.owner.transfer" => journal' # journal)
           => LET c == answer'.command
              IN  /\ Permitted(c)
                  /\ c.kind = "message.create" =>
                         MayRead(c.actor, messages'[answer'.result[1]].thread)]_vars
=============================================================================
