----------------------- MODULE WorkspaceCommands_proofs -----------------------
(***************************************************************************)
(* What holds of the write commands of a Project for every set of users,   *)
(* transactions and commands. Four arguments carry the properties:         *)
(*                                                                         *)
(*  - claims: of the transactions that run one command only one gets past  *)
(*    the unique index of the receipts (ClaimsOK), so a receipt stands for *)
(*    one effect and leads to it (ReceiptsOK);                             *)
(*  - locks: no two transactions hold conflicting locks (LocksOK); whoever *)
(*    has passed the check of its permission holds what protects it        *)
(*    (PermissionOK), and whoever writes it holds it for update (WritesOK), *)
(*    so what was decided still holds at the commit;                       *)
(*  - versions: what a command says it has seen is compared with the row   *)
(*    at the commit, so that the journal entries of a row form a chain;    *)
(*  - orders: the rows that make a transaction wait are ranked, and every  *)
(*    transaction locks them upwards (RanksOK), so that none wait for one   *)
(*    another in a circle, if the menu allows for such ranks (Orderly).     *)
(***************************************************************************)
EXTENDS WorkspaceCommands, SequenceFacts

-----------------------------------------------------------------------------
(* The inductive invariant, part by part *)

Runs(t) == t \in Transactions /\ tx[t] # None

LinkForm(l) == l = [from |-> l.from, to |-> l.to, active |-> l.active] /\ l.active \in BOOLEAN

\* What has which form. An object a running command names stays where it is.
Shapes ==
    /\ menu \in Menus
    /\ role \in [Users -> Roles]
    /\ member \in [Users -> [owner : BOOLEAN, revision : 1..MaxRevision]]
    /\ grants \in [Users -> [generation : Nat, active : BOOLEAN]]
    /\ Sequence(tickets) /\ Sequence(docs) /\ Sequence(decisions) /\ Sequence(links)
    /\ Sequence(channels) /\ Sequence(threads) /\ Sequence(messages)
    /\ Sequence(deployments) /\ Sequence(journal)
    /\ \A k \in DOMAIN tickets : tickets[k] \in [status : Statuses, revision : 1..MaxRevision]
    /\ \A d \in DOMAIN docs : Sequence(docs[d]) /\ Len(docs[d]) \in 1..MaxRevision
    /\ \A d \in DOMAIN decisions :
           /\ decisions[d].status \in {"proposed", "accepted"}
           /\ (decisions[d].status = "accepted") = (decisions[d].outcome # None)
    /\ \A i \in DOMAIN links : LinkForm(links[i])
    /\ \A i \in DOMAIN channels : channels[i] \subseteq Users
    /\ \A i \in DOMAIN threads : threads[i] \in [channel : DOMAIN channels, members : SUBSET Users]
    /\ \A i \in DOMAIN messages :
           messages[i].channel \in DOMAIN channels /\ messages[i].thread \in {0} \cup DOMAIN threads

\* What a running transaction is made of.
TxShapes ==
    /\ tx = [t \in Transactions |-> tx[t]]
    /\ \A t \in Transactions : Runs(t) =>
           /\ tx[t] = [command |-> tx[t].command, held |-> tx[t].held,
                       todo |-> tx[t].todo, claimed |-> tx[t].claimed]
           /\ tx[t].command \in menu /\ Targeted(tx[t].command)
           /\ Sequence(tx[t].todo)
           /\ tx[t].claimed \in BOOLEAN

\* Every claim is of a receipt that is not there, and no two are of the same.
ClaimsOK ==
    /\ \A t \in Transactions : Runs(t) /\ tx[t].claimed => Key(tx[t].command) \notin DOMAIN receipts
    /\ \A t, u \in Transactions :
           (/\ Runs(t) /\ tx[t].claimed /\ Runs(u) /\ tx[u].claimed
            /\ Key(tx[t].command) = Key(tx[u].command)) => t = u

\* Two transactions hold no conflicting locks.
LocksOK ==
    \A t, u \in Transactions : Runs(t) /\ Runs(u) /\ t # u =>
        \A l \in tx[t].held : ~Blocks(tx[u].held, l)

Covers(locks, row) == \E l \in locks : l.row = row
Updates(locks, row) == \E l \in locks : l.row = row /\ l.mode = "update"

\* The rows whose locks protect what Admitted looks at.
Guards(c) ==
    CASE c.kind \in RepositoryKinds \cup AuthorizationKinds -> {<<"membership", c.actor>>}
      [] c.kind = "deployment.record" -> {<<"authorization", c.actor>>}
      [] c.kind \in ChannelMemberKinds \cup {"message.create", "thread.start"} ->
             {<<"role", c.actor>>, <<"project">>}
      [] OTHER -> {<<"role", c.actor>>}

Guarded(c, locks) == \A row \in Guards(c) : Covers(locks, row)

\* The permission was checked and is protected, or its check is still to come and
\* by then all that protects it will be locked. The owner transfer checks at the end.
Entitled(t) == Admitted(tx[t].command) /\ Guarded(tx[t].command, tx[t].held)
Checking(t) ==
    /\ ~tx[t].claimed
    /\ \E i \in DOMAIN tx[t].todo :
           /\ tx[t].todo[i].check
           /\ Guarded(tx[t].command, tx[t].held \cup {tx[t].todo[j] : j \in 1..i})

PermissionOK ==
    \A t \in Transactions :
        Runs(t) /\ tx[t].command.kind # "workspace.owner.transfer" => Checking(t) \/ Entitled(t)

\* The rows that protect what a command writes, those it locks before its claim and
\* those it locks after it.
EarlyRows(c) ==
    CASE c.kind \in ChannelMemberKinds \cup {"project.member.remove"} -> {<<"project">>}
      [] c.kind = "workspace.owner.transfer" ->
             {<<"membership", c.actor>>, <<"membership", c.payload>>}
      [] OTHER -> {}

LateRows(c) ==
    CASE c.kind \in ProjectMemberKinds -> {<<"role", c.target>>}
      [] c.kind \in AuthorizationKinds -> {<<"authorization", c.target>>}
      [] OTHER -> {}

\* A transaction holds them for update, or will before it commits.
WritesOK ==
    \A t \in Transactions : Runs(t) =>
        LET c == tx[t].command
            locks == tx[t].held \cup Elements(tx[t].todo)
        IN  /\ \/ \A row \in EarlyRows(c) : Updates(locks, row)
               \/ c.kind = "workspace.owner.transfer" /\ Key(c) \in DOMAIN receipts
            /\ tx[t].claimed => \A row \in LateRows(c) : Updates(locks, row)

\* A receipt stands for one journal entry, which bears its key and its digest.
ReceiptsOK ==
    /\ \A i \in DOMAIN journal : journal[i].kind = journal[i].key[2]
    /\ \A i, j \in DOMAIN journal : journal[i].key = journal[j].key => i = j
    /\ {journal[i].key : i \in DOMAIN journal} = DOMAIN receipts
    /\ \A k \in DOMAIN receipts :
           /\ receipts[k].entry \in DOMAIN journal
           /\ LET e == journal[receipts[k].entry]
              IN  /\ e.key = k /\ e.id = receipts[k].id /\ e.revision = receipts[k].revision
                  /\ Digest(e) = receipts[k].digest

\* Journal entries name objects that are there, and revisions they have had.
JournalOK ==
    \A i \in DOMAIN journal :
        LET e == journal[i]
        IN  /\ e.kind = "ticket.status.change" =>
                   /\ e.id = e.key[3] /\ e.id \in DOMAIN tickets
                   /\ e.revision \in 2..tickets[e.id].revision
            /\ e.kind \in DocumentKinds =>
                   /\ e.id \in DOMAIN docs /\ e.revision \in 1..Len(docs[e.id])
                   /\ e.kind = "document.restore" => e.payload \in 1..Len(docs[e.id])
            /\ e.kind = "decision.accept" => e.id \in DOMAIN decisions
            /\ e.kind = "ticket.create" => e.key[3] \in DOMAIN decisions
            /\ e.kind = "message.create" => e.id \in DOMAIN messages
            /\ e.kind = "channel.create" => e.id \in DOMAIN channels

\* An active authorization has a number, and deployments name authorizations that
\* had been granted.
DeploymentsOK ==
    /\ \A u \in Users : grants[u].active => grants[u].generation >= 1
    /\ \A i \in DOMAIN deployments :
           /\ deployments[i].by \in Users
           /\ deployments[i].generation \in 1..grants[deployments[i].by].generation

-----------------------------------------------------------------------------
(* Effects *)

\* Which effects write what.
LEMMA Writers ==
    ASSUME NEW c, Effect(c)
    PROVE  /\ \E id, revision, from, to : Record(c, id, revision, from, to)
           /\ role' = role \/ SetProjectMember(c) \/ RemoveProjectMember(c)
           /\ member' = member \/ TransferOwner(c)
           /\ tickets' = tickets \/ ChangeTicketStatus(c) \/ CreateTicket(c)
           /\ docs' = docs \/ CreateDocument(c) \/ ReviseDocument(c)
           /\ decisions' = decisions \/ ProposeDecision(c) \/ AcceptDecision(c)
           /\ links' = links \/ LinkComponent(c) \/ UnlinkComponent(c)
           /\ (channels' = channels /\ threads' = threads)
                  \/ RemoveProjectMember(c) \/ SetChannelMember(c) \/ CreateChannel(c)
                  \/ StartThreadFromMessage(c)
           /\ messages' = messages \/ CreateMessage(c)
           /\ grants' = grants \/ AuthorizeEnvironment(c)
           /\ deployments' = deployments \/ RecordStagingDeployment(c)
<1>1. CASE CreateDocument(c)
  BY <1>1 DEF CreateDocument, talk, delivery
<1>2. CASE ReviseDocument(c)
  BY <1>2 DEF ReviseDocument, talk, delivery
<1>3. CASE ChangeTicketStatus(c)
  BY <1>3 DEF ChangeTicketStatus, talk, delivery
<1>4. CASE ProposeDecision(c)
  BY <1>4 DEF ProposeDecision, talk, delivery
<1>5. CASE AcceptDecision(c)
  BY <1>5 DEF AcceptDecision, talk, delivery
<1>6. CASE CreateTicket(c)
  BY <1>6 DEF CreateTicket, talk, delivery
<1>7. CASE LinkComponent(c)
  BY <1>7 DEF LinkComponent, talk, delivery
<1>8. CASE UnlinkComponent(c)
  BY <1>8 DEF UnlinkComponent, talk, delivery
<1>9. CASE SetProjectMember(c)
  BY <1>9 DEF SetProjectMember, talk, delivery
<1>10. CASE TransferOwner(c)
  BY <1>10 DEF TransferOwner, talk, delivery
<1>11. CASE RemoveProjectMember(c)
  BY <1>11 DEF RemoveProjectMember, delivery
<1>12. CASE SetChannelMember(c)
  BY <1>12 DEF SetChannelMember, delivery
<1>13. CASE CreateChannel(c)
  BY <1>13 DEF CreateChannel, delivery
<1>14. CASE CreateMessage(c)
  BY <1>14 DEF CreateMessage, delivery
<1>15. CASE StartThreadFromMessage(c)
  BY <1>15 DEF StartThreadFromMessage, delivery
<1>16. CASE AuthorizeEnvironment(c)
  BY <1>16 DEF AuthorizeEnvironment, talk
<1>17. CASE RecordStagingDeployment(c)
  BY <1>17 DEF RecordStagingDeployment, talk
<1> QED BY <1>1, <1>2, <1>3, <1>4, <1>5, <1>6, <1>7, <1>8, <1>9, <1>10, <1>11, <1>12, <1>13,
           <1>14, <1>15, <1>16, <1>17 DEF Effect

\* Everything else leaves entities, receipts and journal alone.
LEMMA OnlyCommitsWrite ==
    ASSUME [Next]_vars, \A t \in Transactions : ~Commit(t)
    PROVE  UNCHANGED <<menu, entities, receipts, journal>>
BY DEF Next, vars, Begin, Acquire, Refuse, Claim, Replay, Reject, Abort, End

\* What the record of an effect adds to the journal and to the receipts.
EntryOf(c, id, revision, from, to) ==
    [key |-> Key(c), kind |-> c.kind, id |-> id, revision |-> revision,
     from |-> from, to |-> to, payload |-> c.payload, base |-> c.base]
ReceiptOf(c, id, revision) ==
    [digest |-> Digest(c), id |-> id, revision |-> revision, entry |-> Len(journal) + 1]

\* The fields of a journal entry.
LEMMA EntryFacts ==
    ASSUME NEW c, NEW id, NEW revision, NEW from, NEW to
    PROVE  LET e == EntryOf(c, id, revision, from, to)
           IN  /\ e.key = Key(c) /\ e.kind = c.kind /\ e.id = id /\ e.revision = revision
               /\ e.from = from /\ e.to = to /\ e.payload = c.payload /\ e.base = c.base
               /\ Digest(e) = Digest(c)
BY DEF EntryOf, Digest

\* The fields of a receipt.
LEMMA ReceiptFacts ==
    ASSUME NEW c, NEW id, NEW revision
    PROVE  LET r == ReceiptOf(c, id, revision)
           IN  /\ r.digest = Digest(c) /\ r.id = id /\ r.revision = revision
               /\ r.entry = Len(journal) + 1
BY DEF ReceiptOf

\* An effect appends one entry to the journal.
LEMMA Journaled ==
    ASSUME Shapes, NEW c, NEW id, NEW revision, NEW from, NEW to, Record(c, id, revision, from, to)
    PROVE  /\ Sequence(journal')
           /\ DOMAIN journal' = DOMAIN journal \cup {Len(journal) + 1}
           /\ journal'[Len(journal) + 1] = EntryOf(c, id, revision, from, to)
           /\ \A i \in DOMAIN journal : journal'[i] = journal[i]
<1> DEFINE e == EntryOf(c, id, revision, from, to)
<1>1. Sequence(journal) /\ journal' = Append(journal, e)
  BY DEF Shapes, Record, EntryOf
<1> HIDE DEF e
<1>2. /\ Sequence(journal') /\ DOMAIN journal' = DOMAIN journal \cup {Len(journal) + 1}
      /\ journal'[Len(journal) + 1] = e /\ \A i \in DOMAIN journal : journal'[i] = journal[i]
  BY <1>1, Appended
<1> QED BY <1>2 DEF e

\* The index of the next entry is new, and larger than all before it.
LEMMA NextIndex ==
    ASSUME Shapes
    PROVE  /\ Len(journal) + 1 \in Nat /\ Len(journal) + 1 \notin DOMAIN journal
           /\ \A i \in DOMAIN journal : i \in Nat /\ i < Len(journal) + 1
<1>1. Len(journal) \in Nat /\ DOMAIN journal = 1..Len(journal)
  BY SequenceDomain DEF Shapes
<1> QED BY <1>1

\* An effect adds one receipt.
LEMMA Receipted ==
    ASSUME NEW c, NEW id, NEW revision, NEW from, NEW to, Record(c, id, revision, from, to)
    PROVE  /\ DOMAIN receipts' = DOMAIN receipts \cup {Key(c)}
           /\ receipts'[Key(c)] = ReceiptOf(c, id, revision)
<1> DEFINE r == ReceiptOf(c, id, revision)
<1>1. receipts' = [k \in DOMAIN receipts \cup {Key(c)} |-> IF k = Key(c) THEN r ELSE receipts[k]]
  BY DEF Record, ReceiptOf
<1> HIDE DEF r
<1>2. DOMAIN receipts' = DOMAIN receipts \cup {Key(c)} /\ receipts'[Key(c)] = r
  BY <1>1
<1> QED BY <1>2 DEF r

\* What each kind of command needs to commit.
LEMMA ValidFacts ==
    ASSUME NEW c, Valid(c)
    PROVE  /\ c.kind \in {"document.save", "document.restore"} => SaveValid(c)
           /\ c.kind = "document.restore" => c.payload \in DOMAIN docs[c.target]
           /\ c.kind = "ticket.status.change" => StatusValid(c)
           /\ c.kind = "decision.accept" => AcceptValid(c)
           /\ c.kind \in ProjectMemberKinds \cup ChannelMemberKinds => MemberValid(c)
           /\ c.kind = "channel.create" => \A i \in DOMAIN c.payload : role[c.payload[i]] # "none"
           /\ c.kind = "message.create" => ReplyValid(c)
           /\ c.kind = "workspace.owner.transfer" => TransferValid(c)
           /\ c.kind \in AuthorizationKinds => GrantValid(c)
<1> USE DEF UnlinkKinds, TicketComponentKinds, RepositoryKinds, ProjectMemberKinds, ChannelMemberKinds,
            AuthorizationKinds
<1>1. c.kind = "document.save" => SaveValid(c)
  BY DEF Valid
<1>2. c.kind = "document.restore" => SaveValid(c) /\ c.payload \in DOMAIN docs[c.target]
  BY DEF Valid
<1>3. c.kind = "ticket.status.change" => StatusValid(c)
  BY DEF Valid
<1>4. c.kind = "decision.accept" => AcceptValid(c)
  BY DEF Valid
<1>5. c.kind \in ProjectMemberKinds \cup ChannelMemberKinds => MemberValid(c)
  BY DEF Valid
<1>6. c.kind = "channel.create" => \A i \in DOMAIN c.payload : role[c.payload[i]] # "none"
  BY DEF Valid
<1>7. c.kind = "message.create" => ReplyValid(c)
  BY DEF Valid
<1>8. c.kind = "workspace.owner.transfer" => TransferValid(c)
  BY DEF Valid
<1>9. c.kind \in AuthorizationKinds => GrantValid(c)
  BY DEF Valid
<1> QED BY <1>1, <1>2, <1>3, <1>4, <1>5, <1>6, <1>7, <1>8, <1>9

\* The objects each kind of command names.
LEMMA TargetedFacts ==
    ASSUME NEW c, Targeted(c)
    PROVE  /\ c.kind \in {"document.save", "document.restore"} => c.target \in DOMAIN docs
           /\ c.kind \in UnlinkKinds => c.payload \in DOMAIN links
           /\ c.kind = "ticket.status.change" => c.target \in DOMAIN tickets
           /\ c.kind \in {"decision.accept", "ticket.create"} => c.target \in DOMAIN decisions
           /\ c.kind = "message.create" =>
                  c.target \in DOMAIN channels /\ c.base \in {0} \cup DOMAIN threads
           /\ c.kind = "thread.start" => c.target \in DOMAIN messages
           /\ c.kind \in ChannelMemberKinds => RoomOf(c) \in DOMAIN channels
<1> USE DEF UnlinkKinds, TicketComponentKinds, ChannelMemberKinds
<1>1. c.kind \in {"document.save", "document.restore"} => c.target \in DOMAIN docs
  BY DEF Targeted
<1>2. c.kind \in UnlinkKinds => c.payload \in DOMAIN links
  BY DEF Targeted
<1>3. c.kind = "ticket.status.change" => c.target \in DOMAIN tickets
  BY DEF Targeted
<1>4. c.kind \in {"decision.accept", "ticket.create"} => c.target \in DOMAIN decisions
  BY DEF Targeted
<1>5. c.kind = "message.create" => c.target \in DOMAIN channels /\ c.base \in {0} \cup DOMAIN threads
  BY DEF Targeted
<1>6. c.kind = "thread.start" => c.target \in DOMAIN messages
  BY DEF Targeted
<1>7. c.kind \in ChannelMemberKinds => RoomOf(c) \in DOMAIN channels
  BY DEF Targeted
<1> QED BY <1>1, <1>2, <1>3, <1>4, <1>5, <1>6, <1>7

\* What a command that commits is known to be.
Good(c) == WellFormed(c) /\ Targeted(c) /\ Valid(c) /\ Effect(c)

\* Whoever commits runs a sound command, has the claim and all its locks, and ends.
LEMMA CommitFacts ==
    ASSUME Shapes, TxShapes, NEW t \in Transactions, Commit(t)
    PROVE  /\ Runs(t) /\ Good(tx[t].command) /\ tx[t].claimed /\ tx[t].todo = <<>>
           /\ tx' = [tx EXCEPT ![t] = None] /\ menu' = menu
           /\ \A u \in Transactions : u # t => tx'[u] = tx[u]
           /\ tx'[t] = None
<1>1. tx[t].command \in menu /\ menu \in Menus /\ Targeted(tx[t].command)
  BY DEF Commit, Shapes, TxShapes, Runs
<1> QED BY <1>1, CommandsAssumption DEF Commit, Good, Runs, TxShapes

\* Only member commands change a role, and only that of their target.
LEMMA RoleKept ==
    ASSUME Shapes, NEW c, Good(c)
    PROVE  /\ role' \in [Users -> Roles]
           /\ \A u \in Users : role'[u] # role[u] => c.kind \in ProjectMemberKinds /\ u = c.target
<1>1. role \in [Users -> Roles]
  BY DEF Shapes
<1>2. CASE role' = role
  BY <1>1, <1>2
<1>3. CASE SetProjectMember(c)
  <2>1. c.kind \in ProjectMemberKinds /\ c.payload \in Roles /\ c.target \in Users
    BY <1>3 DEF SetProjectMember, Good, WellFormed, ProjectMemberKinds, Roles
  <2>2. role' = [role EXCEPT ![c.target] = c.payload]
    BY <1>3 DEF SetProjectMember
  <2> QED BY <1>1, <2>1, <2>2
<1>4. CASE RemoveProjectMember(c)
  <2>1. c.kind \in ProjectMemberKinds /\ "none" \in Roles /\ c.target \in Users
    BY <1>4 DEF RemoveProjectMember, Good, WellFormed, ProjectMemberKinds, Roles
  <2>2. role' = [role EXCEPT ![c.target] = "none"]
    BY <1>4 DEF RemoveProjectMember
  <2> QED BY <1>1, <2>1, <2>2
<1> QED BY <1>2, <1>3, <1>4, Writers DEF Good

\* Only a transfer changes Workspace memberships, those of the two it names.
LEMMA MemberKept ==
    ASSUME Shapes, NEW c, Good(c)
    PROVE  /\ member' \in [Users -> [owner : BOOLEAN, revision : 1..MaxRevision]]
           /\ \A u \in Users : member'[u] # member[u] =>
                  c.kind = "workspace.owner.transfer" /\ u \in {c.actor, c.payload}
<1>1. member \in [Users -> [owner : BOOLEAN, revision : 1..MaxRevision]]
  BY DEF Shapes
<1>2. CASE member' = member
  BY <1>1, <1>2
<1>3. CASE TransferOwner(c)
  <2>1. c.kind = "workspace.owner.transfer" /\ TransferValid(c) /\ c.actor \in Users /\ c.payload \in Users
    BY <1>3, ValidFacts DEF TransferOwner, Good, WellFormed
  <2>2. ASSUME NEW u \in {c.actor, c.payload} PROVE member[u].revision + 1 \in 1..MaxRevision
    <3>1. member[u].revision \in 1..MaxRevision /\ member[u].revision < MaxRevision
      BY <1>1, <2>1 DEF TransferValid
    <3> QED BY <3>1, CommandsAssumption
  <2>3. member' = [u \in Users |->
                     IF u \in {c.actor, c.payload}
                     THEN [owner |-> u = c.payload, revision |-> member[u].revision + 1]
                     ELSE member[u]]
    BY <1>3 DEF TransferOwner
  <2>4. ASSUME NEW u \in Users
        PROVE  /\ member'[u] \in [owner : BOOLEAN, revision : 1..MaxRevision]
               /\ u \notin {c.actor, c.payload} => member'[u] = member[u]
    BY <1>1, <2>2, <2>3
  <2> QED BY <2>1, <2>3, <2>4
<1> QED BY <1>2, <1>3, Writers DEF Good

\* Only an owner changes an authorization, and its number never falls.
LEMMA GrantsKept ==
    ASSUME Shapes, NEW c, Good(c)
    PROVE  /\ grants' \in [Users -> [generation : Nat, active : BOOLEAN]]
           /\ \A u \in Users :
                  /\ grants'[u] # grants[u] => c.kind \in AuthorizationKinds /\ u = c.target
                  /\ grants'[u].generation >= grants[u].generation
                  /\ (grants[u].active => grants[u].generation >= 1) =>
                         (grants'[u].active => grants'[u].generation >= 1)
<1>1. grants \in [Users -> [generation : Nat, active : BOOLEAN]]
  BY DEF Shapes
<1>2. CASE grants' = grants
  BY <1>1, <1>2
<1>3. CASE AuthorizeEnvironment(c)
  <2> DEFINE old == grants[c.target]
             granted == c.kind = "environment.authorization.grant"
             new == [generation |-> IF granted /\ ~old.active THEN old.generation + 1
                                    ELSE old.generation,
                     active |-> granted]
  <2>1. c.kind \in AuthorizationKinds /\ c.target \in Users
    BY <1>3 DEF AuthorizeEnvironment, Good, WellFormed
  <2>2. grants' = [grants EXCEPT ![c.target] = new]
    BY <1>3 DEF AuthorizeEnvironment
  <2>3. old \in [generation : Nat, active : BOOLEAN]
    BY <1>1, <2>1
  <2>4. /\ new \in [generation : Nat, active : BOOLEAN] /\ new.generation >= old.generation
        /\ (old.active => old.generation >= 1) => (new.active => new.generation >= 1)
    BY <2>3
  <2> HIDE DEF new
  <2> QED BY <1>1, <2>1, <2>2, <2>4
<1> QED BY <1>2, <1>3, Writers DEF Good

\* The objects a sequence holds stay, and keep what is asked of them.
LEMMA TicketsKept ==
    ASSUME Shapes, NEW c, Good(c)
    PROVE  /\ Sequence(tickets') /\ DOMAIN tickets \subseteq DOMAIN tickets'
           /\ \A k \in DOMAIN tickets' : tickets'[k] \in [status : Statuses, revision : 1..MaxRevision]
           /\ \A k \in DOMAIN tickets :
                  /\ tickets'[k].revision >= tickets[k].revision
                  /\ ~(ChangeTicketStatus(c) /\ c.target = k) => tickets'[k] = tickets[k]
           /\ ~CreateTicket(c) => DOMAIN tickets' = DOMAIN tickets
<1>0. Sequence(tickets) /\ \A k \in DOMAIN tickets : tickets[k] \in [status : Statuses, revision : 1..MaxRevision]
  BY DEF Shapes
<1>1. CASE tickets' = tickets
  BY <1>0, <1>1
<1>2. CASE ChangeTicketStatus(c)
  <2> DEFINE new == [status |-> c.payload, revision |-> c.base + 1]
  <2>1. c.target \in DOMAIN tickets /\ StatusValid(c) /\ c.payload \in Statuses
    BY <1>2, ValidFacts, TargetedFacts DEF ChangeTicketStatus, Good, WellFormed
  <2>2. tickets' = [tickets EXCEPT ![c.target] = new]
    BY <1>2 DEF ChangeTicketStatus
  <2>3. tickets[c.target].revision \in 1..MaxRevision
    BY <1>0, <2>1
  <2>4. new \in [status : Statuses, revision : 1..MaxRevision] /\ new.revision >= tickets[c.target].revision
    BY <2>1, <2>3, CommandsAssumption DEF StatusValid
  <2> HIDE DEF new
  <2>5. /\ Sequence(tickets') /\ DOMAIN tickets' = DOMAIN tickets /\ tickets'[c.target] = new
        /\ \A i \in DOMAIN tickets : i # c.target => tickets'[i] = tickets[i]
    BY <1>0, <2>1, <2>2, Replaced
  <2>6. \A k \in DOMAIN tickets : tickets[k].revision >= tickets[k].revision
    BY <1>0
  <2> QED BY <1>0, <1>2, <2>1, <2>4, <2>5, <2>6
<1>3. CASE CreateTicket(c)
  <2> DEFINE new == [status |-> "open", revision |-> 1]
  <2>1. tickets' = Append(tickets, new)
    BY <1>3 DEF CreateTicket
  <2>2. new \in [status : Statuses, revision : 1..MaxRevision]
    BY CommandsAssumption DEF Statuses
  <2> HIDE DEF new
  <2>3. /\ Sequence(tickets') /\ DOMAIN tickets' = DOMAIN tickets \cup {Len(tickets) + 1}
        /\ tickets'[Len(tickets) + 1] = new
        /\ \A i \in DOMAIN tickets : tickets'[i] = tickets[i]
    BY <1>0, <2>1, Appended
  <2>4. \A k \in DOMAIN tickets : tickets'[k].revision >= tickets[k].revision
    BY <1>0, <2>3
  <2> QED BY <1>0, <1>3, <2>2, <2>3, <2>4
<1> QED BY <1>1, <1>2, <1>3, Writers DEF Good

\* Documents stay, and their revisions are only appended to.
LEMMA DocsKept ==
    ASSUME Shapes, NEW c, Good(c)
    PROVE  /\ Sequence(docs') /\ DOMAIN docs \subseteq DOMAIN docs'
           /\ \A d \in DOMAIN docs' : Sequence(docs'[d]) /\ Len(docs'[d]) \in 1..MaxRevision
           /\ \A d \in DOMAIN docs :
                  /\ Len(docs'[d]) >= Len(docs[d])
                  /\ \A r \in DOMAIN docs[d] : docs'[d][r] = docs[d][r]
                  /\ ~(ReviseDocument(c) /\ c.target = d) => docs'[d] = docs[d]
           /\ ~CreateDocument(c) => DOMAIN docs' = DOMAIN docs
<1>0. Sequence(docs) /\ \A d \in DOMAIN docs : Sequence(docs[d]) /\ Len(docs[d]) \in 1..MaxRevision
  BY DEF Shapes
<1>1. CASE docs' = docs
  BY <1>0, <1>1
<1>2. CASE ReviseDocument(c)
  <2>1. c.target \in DOMAIN docs /\ SaveValid(c)
    BY <1>2, ValidFacts, TargetedFacts DEF ReviseDocument, Good
  <2>2. PICK body : docs' = [docs EXCEPT ![c.target] = Append(@, body)]
    BY <1>2 DEF ReviseDocument
  <2> DEFINE old == docs[c.target]
             new == Append(old, body)
  <2>3. Sequence(old) /\ Len(old) \in 1..MaxRevision
    BY <1>0, <2>1
  <2>4. Sequence(new) /\ Len(new) = Len(old) + 1 /\ \A r \in DOMAIN old : new[r] = old[r]
    BY <2>3, Appended
  <2>5. Len(new) \in 1..MaxRevision
    BY <2>1, <2>3, <2>4, CommandsAssumption DEF SaveValid
  <2>6. Len(new) >= Len(old)
    BY <2>3, <2>4
  <2> HIDE DEF new
  <2>7. /\ Sequence(docs') /\ DOMAIN docs' = DOMAIN docs /\ docs'[c.target] = new
        /\ \A i \in DOMAIN docs : i # c.target => docs'[i] = docs[i]
    <3>1. docs' = [docs EXCEPT ![c.target] = new]
      BY <2>1, <2>2 DEF new
    <3> QED BY <1>0, <2>1, <3>1, Replaced
  <2> HIDE DEF old
  <2>8. \A d \in DOMAIN docs : Len(docs[d]) >= Len(docs[d])
    BY <1>0
  <2> QED BY <1>0, <1>2, <2>4, <2>5, <2>6, <2>7, <2>8 DEF old
<1>3. CASE CreateDocument(c)
  <2> DEFINE new == <<c.payload>>
  <2>1. docs' = Append(docs, new)
    BY <1>3 DEF CreateDocument
  <2>2. Sequence(new) /\ Len(new) = 1 /\ 1 \in 1..MaxRevision
    BY CommandsAssumption DEF Sequence, Elements
  <2> HIDE DEF new
  <2>3. /\ Sequence(docs') /\ DOMAIN docs' = DOMAIN docs \cup {Len(docs) + 1}
        /\ docs'[Len(docs) + 1] = new
        /\ \A i \in DOMAIN docs : docs'[i] = docs[i]
    BY <1>0, <2>1, Appended
  <2>4. \A d \in DOMAIN docs : Len(docs'[d]) >= Len(docs[d])
    BY <1>0, <2>3
  <2> QED BY <1>0, <1>3, <2>2, <2>3, <2>4
<1> QED BY <1>1, <1>2, <1>3, Writers DEF Good

\* Decisions stay, and an accepted one does not change.
LEMMA DecisionsKept ==
    ASSUME Shapes, NEW c, Good(c)
    PROVE  /\ Sequence(decisions') /\ DOMAIN decisions \subseteq DOMAIN decisions'
           /\ \A d \in DOMAIN decisions' :
                  /\ decisions'[d].status \in {"proposed", "accepted"}
                  /\ (decisions'[d].status = "accepted") = (decisions'[d].outcome # None)
           /\ \A d \in DOMAIN decisions :
                  decisions[d].status = "accepted" => decisions'[d] = decisions[d]
<1>0. Sequence(decisions) /\ \A d \in DOMAIN decisions :
           /\ decisions[d].status \in {"proposed", "accepted"}
           /\ (decisions[d].status = "accepted") = (decisions[d].outcome # None)
  BY DEF Shapes
<1>1. CASE decisions' = decisions
  BY <1>0, <1>1
<1>2. CASE AcceptDecision(c)
  <2> DEFINE new == [status |-> "accepted", outcome |-> c.payload]
  <2>1. c.target \in DOMAIN decisions /\ AcceptValid(c) /\ c.payload # None
    BY <1>2, ValidFacts, TargetedFacts DEF AcceptDecision, Good, WellFormed
  <2>2. decisions' = [decisions EXCEPT ![c.target] = new]
    BY <1>2 DEF AcceptDecision
  <2>3. new.status = "accepted" /\ new.outcome # None /\ decisions[c.target].status # "accepted"
    BY <2>1 DEF AcceptValid
  <2> HIDE DEF new
  <2>4. /\ Sequence(decisions') /\ DOMAIN decisions' = DOMAIN decisions /\ decisions'[c.target] = new
        /\ \A i \in DOMAIN decisions : i # c.target => decisions'[i] = decisions[i]
    BY <1>0, <2>1, <2>2, Replaced
  <2> QED BY <1>0, <2>3, <2>4
<1>3. CASE ProposeDecision(c)
  <2> DEFINE new == [status |-> "proposed", outcome |-> None]
  <2>1. decisions' = Append(decisions, new)
    BY <1>3 DEF ProposeDecision
  <2>2. new.status = "proposed" /\ new.outcome = None
    OBVIOUS
  <2> HIDE DEF new
  <2>3. /\ Sequence(decisions') /\ DOMAIN decisions' = DOMAIN decisions \cup {Len(decisions) + 1}
        /\ decisions'[Len(decisions) + 1] = new
        /\ \A i \in DOMAIN decisions : decisions'[i] = decisions[i]
    BY <1>0, <2>1, Appended
  <2> QED BY <1>0, <2>2, <2>3
<1> QED BY <1>1, <1>2, <1>3, Writers DEF Good

\* Links stay.
LEMMA LinksKept ==
    ASSUME Shapes, NEW c, Good(c)
    PROVE  /\ Sequence(links') /\ DOMAIN links \subseteq DOMAIN links'
           /\ \A i \in DOMAIN links' : LinkForm(links'[i])
           /\ \A i \in DOMAIN links : links'[i].to = links[i].to
<1>0. Sequence(links) /\ \A i \in DOMAIN links : LinkForm(links[i])
  BY DEF Shapes
<1>1. CASE links' = links
  BY <1>0, <1>1
<1>2. CASE LinkComponent(c)
  <2> DEFINE new == [from |-> c.target, to |-> c.payload, active |-> TRUE]
  <2>1. links' = Append(links, new)
    BY <1>2, Zenon DEF LinkComponent
  <2>2. LinkForm(new)
    BY DEF LinkForm
  <2> HIDE DEF new
  <2> QED BY <1>0, <2>1, <2>2, Appended
<1>3. CASE UnlinkComponent(c)
  <2>1. c.payload \in DOMAIN links
    BY <1>3, TargetedFacts DEF UnlinkComponent, Good
  <2> DEFINE old == links[c.payload]
             off == FALSE
             new == [old EXCEPT !.active = off]
  <2>2. links' = [links EXCEPT ![c.payload] = new]
    BY <1>3, <2>1 DEF UnlinkComponent
  <2>3. LinkForm(new) /\ new.to = old.to
    <3>1. old = [from |-> old.from, to |-> old.to, active |-> old.active]
      BY <1>0, <2>1 DEF LinkForm
    <3> HIDE DEF old, off
    <3>2. new = [from |-> old.from, to |-> old.to, active |-> off]
      BY <3>1
    <3> HIDE DEF new
    <3>3. new.from = old.from /\ new.to = old.to /\ new.active = off
      BY <3>2
    <3> QED BY <3>2, <3>3 DEF LinkForm, off
  <2> HIDE DEF new
  <2> QED BY <1>0, <2>1, <2>2, <2>3, Replaced
<1> QED BY <1>1, <1>2, <1>3, Writers DEF Good

\* What dismissing a user from rooms makes of Channels and Threads.
LEMMA Dismissed ==
    ASSUME Shapes, NEW u, NEW rooms, Dismiss(u, rooms)
    PROVE  /\ Sequence(channels') /\ DOMAIN channels' = DOMAIN channels
           /\ \A i \in DOMAIN channels :
                  /\ i \in rooms => channels'[i] = channels[i] \ {u}
                  /\ i \notin rooms => channels'[i] = channels[i]
           /\ Sequence(threads') /\ DOMAIN threads' = DOMAIN threads
           /\ \A i \in DOMAIN threads :
                  /\ threads'[i].channel = threads[i].channel
                  /\ threads[i].channel \in rooms => threads'[i].members = threads[i].members \ {u}
                  /\ threads[i].channel \notin rooms => threads'[i].members = threads[i].members
                  /\ threads'[i] \in [channel : DOMAIN channels, members : SUBSET Users]
<1>0. /\ Sequence(channels) /\ Sequence(threads)
      /\ \A i \in DOMAIN threads : threads[i] \in [channel : DOMAIN channels, members : SUBSET Users]
  BY DEF Shapes
<1>1. channels' = [i \in DOMAIN channels |-> IF i \in rooms THEN channels[i] \ {u} ELSE channels[i]]
  BY DEF Dismiss
<1>2. threads' = [i \in DOMAIN threads |->
                       IF threads[i].channel \in rooms
                       THEN [threads[i] EXCEPT !.members = @ \ {u}] ELSE threads[i]]
  BY DEF Dismiss
<1>3. Sequence(channels') /\ DOMAIN channels' = DOMAIN channels
  <2>1. Len(channels) \in Nat /\ DOMAIN channels = 1..Len(channels)
    BY <1>0, SequenceDomain
  <2>2. channels' = [i \in 1..Len(channels) |-> channels'[i]]
    BY <1>1, <2>1
  <2> QED BY <1>1, <2>1, <2>2, SequenceFrom
<1>4. Sequence(threads') /\ DOMAIN threads' = DOMAIN threads
  <2>1. Len(threads) \in Nat /\ DOMAIN threads = 1..Len(threads)
    BY <1>0, SequenceDomain
  <2>2. threads' = [i \in 1..Len(threads) |-> threads'[i]]
    BY <1>2, <2>1
  <2> QED BY <1>2, <2>1, <2>2, SequenceFrom
<1>5. ASSUME NEW i \in DOMAIN threads
      PROVE  /\ threads'[i].channel = threads[i].channel
             /\ threads[i].channel \in rooms => threads'[i].members = threads[i].members \ {u}
             /\ threads[i].channel \notin rooms => threads'[i].members = threads[i].members
             /\ threads'[i] \in [channel : DOMAIN channels, members : SUBSET Users]
  <2>1. threads[i] \in [channel : DOMAIN channels, members : SUBSET Users]
    BY <1>0
  <2>2. threads'[i] = IF threads[i].channel \in rooms
                      THEN [threads[i] EXCEPT !.members = @ \ {u}] ELSE threads[i]
    BY <1>2
  <2> HIDE <1>2, <1>1
  <2> QED BY <2>1, <2>2
<1> QED BY <1>1, <1>3, <1>4, <1>5

\* Channels and Threads stay; only leaving changes who is in an old one, or joining it.
LEMMA RoomsKept ==
    ASSUME Shapes, NEW c, Good(c)
    PROVE  /\ Sequence(channels') /\ DOMAIN channels \subseteq DOMAIN channels'
           /\ Sequence(threads') /\ DOMAIN threads \subseteq DOMAIN threads'
           /\ \A i \in DOMAIN channels' : channels'[i] \subseteq Users
           /\ \A i \in DOMAIN threads' : threads'[i] \in [channel : DOMAIN channels', members : SUBSET Users]
           /\ c.kind \notin ChannelMemberKinds \cup {"project.member.remove"} =>
                  /\ \A i \in DOMAIN channels : channels'[i] = channels[i]
                  /\ \A i \in DOMAIN threads : threads'[i] = threads[i]
<1> DEFINE Goal ==
             /\ Sequence(channels') /\ DOMAIN channels \subseteq DOMAIN channels'
             /\ Sequence(threads') /\ DOMAIN threads \subseteq DOMAIN threads'
             /\ \A i \in DOMAIN channels' : channels'[i] \subseteq Users
             /\ \A i \in DOMAIN threads' : threads'[i] \in [channel : DOMAIN channels', members : SUBSET Users]
             /\ c.kind \notin ChannelMemberKinds \cup {"project.member.remove"} =>
                    /\ \A i \in DOMAIN channels : channels'[i] = channels[i]
                    /\ \A i \in DOMAIN threads : threads'[i] = threads[i]
<1>0. /\ Sequence(channels) /\ Sequence(threads)
      /\ \A i \in DOMAIN channels : channels[i] \subseteq Users
      /\ \A i \in DOMAIN threads : threads[i] \in [channel : DOMAIN channels, members : SUBSET Users]
  BY DEF Shapes
<1>1. CASE channels' = channels /\ threads' = threads
  BY <1>0, <1>1
<1>2. ASSUME NEW u, NEW rooms, Dismiss(u, rooms), c.kind \in ChannelMemberKinds \cup {"project.member.remove"}
      PROVE  Goal
  <2>1. /\ Sequence(channels') /\ DOMAIN channels' = DOMAIN channels
        /\ Sequence(threads') /\ DOMAIN threads' = DOMAIN threads
    BY <1>2, Dismissed
  <2>2. \A i \in DOMAIN threads : threads'[i] \in [channel : DOMAIN channels, members : SUBSET Users]
    BY <1>2, Dismissed, Zenon
  <2>3. ASSUME NEW i \in DOMAIN channels PROVE channels'[i] \subseteq Users
    <3>1. channels'[i] = channels[i] \ {u} \/ channels'[i] = channels[i]
      BY <1>2, <2>3, Dismissed
    <3> QED BY <1>0, <3>1
  <2> QED BY <1>2, <2>1, <2>2, <2>3
<1>3. CASE RemoveProjectMember(c)
  BY <1>2, <1>3 DEF RemoveProjectMember
<1>4. CASE SetChannelMember(c)
  <2>1. c.kind \in ChannelMemberKinds
    BY <1>4 DEF SetChannelMember
  <2>2. CASE c.kind = "channel.member.remove"
    BY <1>2, <1>4, <2>1, <2>2 DEF SetChannelMember
  <2>3. CASE c.kind # "channel.member.remove"
    <3> DEFINE new == channels[RoomOf(c)] \cup {Subject(c)}
    <3>1. RoomOf(c) \in DOMAIN channels
      BY <2>1, TargetedFacts DEF Good
    <3>2. Subject(c) \in Users
      BY <2>1 DEF Good, WellFormed, Subject
    <3>3. channels' = [channels EXCEPT ![RoomOf(c)] = new] /\ threads' = threads
      BY <1>4, <2>3, <3>1 DEF SetChannelMember
    <3>4. new \subseteq Users
      BY <1>0, <3>1, <3>2
    <3> HIDE DEF new
    <3>5. /\ Sequence(channels') /\ DOMAIN channels' = DOMAIN channels /\ channels'[RoomOf(c)] = new
          /\ \A i \in DOMAIN channels : i # RoomOf(c) => channels'[i] = channels[i]
      BY <1>0, <3>1, <3>3, Replaced
    <3> QED BY <1>0, <2>1, <3>3, <3>4, <3>5
  <2> QED BY <2>2, <2>3
<1>5. CASE CreateChannel(c)
  <2> DEFINE new == {c.payload[i] : i \in DOMAIN c.payload}
  <2>1. channels' = Append(channels, new) /\ threads' = threads /\ c.kind = "channel.create"
    BY <1>5 DEF CreateChannel
  <2>2. new \subseteq Users
    BY <2>1 DEF Good, WellFormed
  <2> HIDE DEF new
  <2>3. /\ Sequence(channels') /\ DOMAIN channels' = DOMAIN channels \cup {Len(channels) + 1}
        /\ channels'[Len(channels) + 1] = new
        /\ \A i \in DOMAIN channels : channels'[i] = channels[i]
    BY <1>0, <2>1, Appended
  <2> QED BY <1>0, <2>1, <2>2, <2>3
<1>6. CASE StartThreadFromMessage(c)
  <2> DEFINE new == [channel |-> RoomOf(c), members |-> {c.actor}]
  <2>1. threads' = Append(threads, new) /\ channels' = channels /\ c.kind = "thread.start"
    BY <1>6 DEF StartThreadFromMessage
  <2>2. RoomOf(c) \in DOMAIN channels /\ c.actor \in Users
    <3>1. c.target \in DOMAIN messages /\ c.actor \in Users
      BY <2>1, TargetedFacts DEF Good, WellFormed
    <3>2. RoomOf(c) = messages[c.target].channel
      BY <2>1 DEF RoomOf, ChannelMemberKinds
    <3> QED BY <3>1, <3>2 DEF Shapes
  <2>3. new \in [channel : DOMAIN channels, members : SUBSET Users]
    BY <2>2
  <2> HIDE DEF new
  <2>4. /\ Sequence(threads') /\ DOMAIN threads' = DOMAIN threads \cup {Len(threads) + 1}
        /\ threads'[Len(threads) + 1] = new
        /\ \A i \in DOMAIN threads : threads'[i] = threads[i]
    BY <1>0, <2>1, Appended
  <2> QED BY <1>0, <2>1, <2>3, <2>4
<1>7. Goal
  <2> HIDE DEF Goal
  <2>1. \/ channels' = channels /\ threads' = threads
        \/ RemoveProjectMember(c) \/ SetChannelMember(c) \/ CreateChannel(c) \/ StartThreadFromMessage(c)
    BY Writers DEF Good
  <2> QED BY <1>1, <1>3, <1>4, <1>5, <1>6, <2>1 DEF Goal
<1> QED BY <1>7

\* Messages stay as they are.
LEMMA MessagesKept ==
    ASSUME Shapes, NEW c, Good(c)
    PROVE  /\ Sequence(messages') /\ DOMAIN messages \subseteq DOMAIN messages'
           /\ \A i \in DOMAIN messages : messages'[i] = messages[i]
           /\ \A i \in DOMAIN messages' :
                  messages'[i].channel \in DOMAIN channels /\ messages'[i].thread \in {0} \cup DOMAIN threads
<1>0. Sequence(messages) /\ \A i \in DOMAIN messages :
           messages[i].channel \in DOMAIN channels /\ messages[i].thread \in {0} \cup DOMAIN threads
  BY DEF Shapes
<1>1. CASE messages' = messages
  BY <1>0, <1>1
<1>2. CASE CreateMessage(c)
  <2> DEFINE new == [channel |-> c.target, thread |-> c.base]
  <2>1. messages' = Append(messages, new) /\ c.kind = "message.create"
    BY <1>2 DEF CreateMessage
  <2>2. new.channel \in DOMAIN channels /\ new.thread \in {0} \cup DOMAIN threads
    BY <2>1, TargetedFacts DEF Good
  <2> HIDE DEF new
  <2> QED BY <1>0, <2>1, <2>2, Appended
<1> QED BY <1>1, <1>2, Writers DEF Good

\* Deployments stay a sequence.
LEMMA DeploymentsKept ==
    ASSUME Shapes, NEW c, Good(c)
    PROVE  Sequence(deployments')
<1>1. CASE deployments' = deployments
  BY <1>1 DEF Shapes
<1>2. CASE RecordStagingDeployment(c)
  BY <1>2, Appended DEF RecordStagingDeployment, Shapes
<1> QED BY <1>1, <1>2, Writers DEF Good

\* A commit keeps the form of every entity.
LEMMA ShapesKept ==
    ASSUME Shapes, TxShapes, [Next]_vars
    PROVE  Shapes'
<1>1. CASE \A t \in Transactions : ~Commit(t)
  <2>1. UNCHANGED <<menu, entities, receipts, journal>>
    BY <1>1, OnlyCommitsWrite
  <2> QED BY <2>1 DEF Shapes, entities, talk, delivery
<1>2. ASSUME NEW t \in Transactions, Commit(t) PROVE Shapes'
  <2> DEFINE c == tx[t].command
  <2>1. Good(c) /\ menu' = menu
    BY <1>2, CommitFacts
  <2> HIDE DEF c
  <2>2. Sequence(journal')
    <3>1. \E id, revision, from, to : Record(c, id, revision, from, to)
      BY <2>1, Writers DEF Good
    <3> QED BY <3>1, Journaled
  <2>3. \A i \in DOMAIN messages' : messages'[i].channel \in DOMAIN channels' /\ messages'[i].thread \in {0} \cup DOMAIN threads'
    BY <2>1, MessagesKept, RoomsKept
  <2> QED BY <2>1, <2>2, <2>3, RoleKept, MemberKept, GrantsKept, TicketsKept, DocsKept, DecisionsKept,
             LinksKept, RoomsKept, MessagesKept, DeploymentsKept DEF Shapes
<1> QED BY <1>1, <1>2

-----------------------------------------------------------------------------
(* Plans *)

\* A plan has a checked step before whose decision all guards of the command are locked.
Guarding(c, plan) ==
    Sequence(plan) /\ \E i \in DOMAIN plan : plan[i].check /\ Guarded(c, {plan[j] : j \in 1..i})

\* A guarding plan guards whatever follows it,
LEMMA Longer ==
    ASSUME NEW c, NEW plan, Guarding(c, plan), NEW rest, Sequence(rest)
    PROVE  Guarding(c, plan \o rest)
<1> DEFINE long == plan \o rest
<1>1. Sequence(plan) /\ Len(plan) \in Nat /\ DOMAIN plan = 1..Len(plan)
  BY SequenceDomain DEF Guarding
<1>2. Sequence(long) /\ \A i \in DOMAIN plan : i \in DOMAIN long /\ long[i] = plan[i]
  BY <1>1, Joined
<1> HIDE DEF long
<1>3. PICK i \in DOMAIN plan : plan[i].check /\ Guarded(c, {plan[j] : j \in 1..i})
  BY DEF Guarding
<1>4. \A j \in 1..i : plan[j] = long[j]
  BY <1>1, <1>2, <1>3
<1>5. {plan[j] : j \in 1..i} = {long[j] : j \in 1..i}
  BY <1>4
<1> QED BY <1>2, <1>3, <1>5 DEF Guarding, long

\* whether a whole plan does or a step,
LEMMA Lengthened ==
    ASSUME NEW c, NEW plan, Guarding(c, plan), NEW x
    PROVE  Guarding(c, Append(plan, x))
<1> DEFINE long == Append(plan, x)
<1>1. Sequence(plan) /\ Len(plan) \in Nat /\ DOMAIN plan = 1..Len(plan)
  BY SequenceDomain DEF Guarding
<1>2. Sequence(long) /\ \A i \in DOMAIN plan : i \in DOMAIN long /\ long[i] = plan[i]
  BY <1>1, Appended
<1> HIDE DEF long
<1>3. PICK i \in DOMAIN plan : plan[i].check /\ Guarded(c, {plan[j] : j \in 1..i})
  BY DEF Guarding
<1>4. \A j \in 1..i : plan[j] = long[j]
  BY <1>1, <1>2, <1>3
<1>5. {plan[j] : j \in 1..i} = {long[j] : j \in 1..i}
  BY <1>4
<1> QED BY <1>2, <1>3, <1>5 DEF Guarding, long

\* and whatever step precedes it.
LEMMA Prefixed ==
    ASSUME NEW c, NEW plan, Guarding(c, plan), NEW first
    PROVE  Guarding(c, <<first>> \o plan)
<1> DEFINE one == <<first>>
           long == one \o plan
<1>0. Sequence(one)
  BY DEF Sequence, Elements
<1>1. Len(one) = 1
  OBVIOUS
<1> HIDE DEF one
<1>2. Sequence(plan) /\ Len(plan) \in Nat /\ DOMAIN plan = 1..Len(plan)
  BY SequenceDomain DEF Guarding
<1>3. Sequence(long) /\ \A i \in DOMAIN plan : 1 + i \in DOMAIN long /\ long[1 + i] = plan[i]
  <2>1. /\ Sequence(long)
        /\ \A i \in DOMAIN plan : Len(one) + i \in DOMAIN long /\ long[Len(one) + i] = plan[i]
    BY <1>0, <1>2, Joined
  <2> HIDE DEF long
  <2> QED BY <1>1, <2>1
<1> HIDE DEF long
<1>4. PICK i \in DOMAIN plan : plan[i].check /\ Guarded(c, {plan[j] : j \in 1..i})
  BY DEF Guarding
<1>5. \A j \in 1..i : plan[j] = long[1 + j] /\ 1 + j \in 1..(1 + i)
  BY <1>2, <1>3, <1>4
<1>6. {plan[j] : j \in 1..i} \subseteq {long[j] : j \in 1..(1 + i)}
  BY <1>5
<1>7. Guarded(c, {long[j] : j \in 1..(1 + i)})
  BY <1>4, <1>6 DEF Guarded, Covers
<1>8. long[1 + i].check /\ 1 + i \in DOMAIN long
  BY <1>3, <1>4
<1> QED BY <1>3, <1>7, <1>8 DEF Guarding, long, one

\* A plan guards if the rows are all locked by a step that is checked.
LEMMA LastChecked ==
    ASSUME NEW c, NEW plan, Sequence(plan), NEW n \in DOMAIN plan, plan[n].check,
           \A row \in Guards(c) : \E i \in 1..n : plan[i].row = row
    PROVE  Guarding(c, plan)
<1>1. Guarded(c, {plan[j] : j \in 1..n})
  BY DEF Guarded, Covers
<1> QED BY <1>1 DEF Guarding

\* Permission by the role in the Project.
LEMMA RolePlans ==
    ASSUME NEW c, Guards(c) = {<<"role", c.actor>>}
    PROVE  Guarding(c, ActorThenAccess(c.actor)) /\ Guarding(c, Access(c.actor)) /\ Guarding(c, MemberPlan(c))
<1>1. ASSUME NEW x, NEW y
      PROVE  Guarding(c, <<x, y, Checked(<<"role", c.actor>>, "share")>>)
  <2> DEFINE plan == <<x, y, Checked(<<"role", c.actor>>, "share")>>
  <2>1. Sequence(plan) /\ 3 \in DOMAIN plan
    BY DEF Sequence, Elements
  <2>2. plan[3].check /\ plan[3].row = <<"role", c.actor>>
    BY DEF Checked
  <2> HIDE DEF plan
  <2>3. \A row \in Guards(c) : \E i \in 1..3 : plan[i].row = row
    BY <2>2
  <2>4. Guarding(c, plan)
    BY <2>1, <2>2, <2>3, LastChecked
  <2> QED BY <2>4 DEF plan
<1> QED BY <1>1 DEF ActorThenAccess, Access, MemberPlan

\* Permission by the role and the place in a Channel.
LEMMA RoomPlans ==
    ASSUME NEW c, Guards(c) = {<<"role", c.actor>>, <<"project">>}
    PROVE  Guarding(c, RoomPlan(c)) /\ Guarding(c, ChannelMemberPlan(c))
<1>1. ASSUME NEW w, NEW x, NEW y, NEW z, z.check,
             \E e \in {w, x} : e.row = <<"project">>, y.row = <<"role", c.actor>>
      PROVE  Guarding(c, <<w, x, y, z>>)
  <2> DEFINE plan == <<w, x, y, z>>
  <2>1. Sequence(plan) /\ 4 \in DOMAIN plan
    BY DEF Sequence, Elements
  <2>2. plan[1] = w /\ plan[2] = x /\ plan[3] = y /\ plan[4] = z
    OBVIOUS
  <2> HIDE DEF plan
  <2>3. \A row \in Guards(c) : \E i \in 1..4 : plan[i].row = row
    BY <1>1, <2>2
  <2>4. plan[4].check
    BY <1>1, <2>2
  <2>5. Guarding(c, plan)
    BY <2>1, <2>3, <2>4, LastChecked
  <2> QED BY <2>5 DEF plan
<1>2. /\ Lock(<<"project">>, "share").row = <<"project">> /\ Lock(<<"project">>, "update").row = <<"project">>
      /\ Lock(<<"role", c.actor>>, "share").row = <<"role", c.actor>>
      /\ Checked(<<"room", RoomOf(c), c.actor>>, "share").check
  BY DEF Lock, Checked
<1> QED BY <1>1, <1>2 DEF RoomPlan, ChannelMemberPlan

\* The plan for the row of a link is a sequence.
LEMMA LinkRows == ASSUME NEW c PROVE Sequence(LinkRow(c))
<1>1. \A x : Sequence(<<x>>)
  BY DEF Sequence, Elements
<1>2. Sequence(<<>>)
  BY DEF Sequence, Elements
<1> QED BY <1>1, <1>2 DEF LinkRow

\* The guards of a command are locked before its permission is decided.
LEMMA BeforeGuards ==
    ASSUME NEW c, WellFormed(c), c.kind # "workspace.owner.transfer"
    PROVE  Guarding(c, Before(c))
<1> USE DEF RepositoryKinds, AuthorizationKinds, ChannelMemberKinds, ProjectMemberKinds, TicketComponentKinds
<1>1. CASE c.kind = "document.create"
  <2>1. Guards(c) = {<<"role", c.actor>>} /\ Before(c) = ActorThenAccess(c.actor)
    BY <1>1 DEF Guards, Before
  <2> QED BY <2>1, RolePlans
<1>2. CASE c.kind \in {"document.save", "document.restore", "ticket.status.change"}
  <2>1. Guards(c) = {<<"role", c.actor>>}
    BY <1>2 DEF Guards
  <2>2. \E x : Before(c) = Append(ActorThenAccess(c.actor), x)
    BY <1>2 DEF Before
  <2>3. PICK x : Before(c) = Append(ActorThenAccess(c.actor), x)
    BY <2>2
  <2>4. Guarding(c, ActorThenAccess(c.actor))
    BY <2>1, RolePlans
  <2>5. Guarding(c, Append(ActorThenAccess(c.actor), x))
    BY <2>4, Lengthened
  <2> QED BY <2>3, <2>5
<1>3. CASE c.kind = "decision.propose"
  <2>1. Guards(c) = {<<"role", c.actor>>} /\ Before(c) = Access(c.actor)
    BY <1>3 DEF Guards, Before
  <2> QED BY <2>1, RolePlans
<1>4. CASE c.kind \in {"decision.accept", "ticket.create"}
  <2>1. Guards(c) = {<<"role", c.actor>>}
    BY <1>4 DEF Guards
  <2>2. \E x : Before(c) = <<x>> \o Access(c.actor)
    BY <1>4 DEF Before
  <2> QED BY <2>1, <2>2, RolePlans, Prefixed
<1>5. CASE c.kind \in TicketComponentKinds
  <2> DEFINE plan == <<Lock(<<"membership", c.actor>>, "share"), Lock(<<"project">>, "share"),
                       Lock(<<"role", c.actor>>, "share"), Lock(<<"ticket", c.target>>, "share"),
                       Checked(<<"component", ComponentOf(c)>>, "update")>>
  <2>0. Guards(c) = {<<"role", c.actor>>}
    BY <1>5 DEF Guards
  <2>1. Before(c) = plan \o LinkRow(c)
    BY <1>5 DEF Before, TicketComponentPlan
  <2>2. Sequence(plan) /\ 5 \in DOMAIN plan
    BY DEF Sequence, Elements
  <2>3. plan[5].check /\ plan[3].row = <<"role", c.actor>>
    BY DEF Lock, Checked
  <2> HIDE DEF plan
  <2>4. \A row \in Guards(c) : \E i \in 1..5 : plan[i].row = row
    BY <2>0, <2>3
  <2>5. Guarding(c, plan)
    BY <2>2, <2>3, <2>4, LastChecked
  <2> QED BY <2>1, <2>5, LinkRows, Longer
<1>6. CASE c.kind \in RepositoryKinds
  <2> DEFINE plan == <<Lock(<<"membership", c.actor>>, "share"), Lock(<<"workspace">>, "update"),
                       Checked(<<"component", ComponentOf(c)>>, "update")>>
  <2>0. Guards(c) = {<<"membership", c.actor>>}
    BY <1>6 DEF Guards
  <2>1. Before(c) = plan \o LinkRow(c)
    BY <1>6 DEF Before, RepositoryPlan
  <2>2. Sequence(plan) /\ 3 \in DOMAIN plan
    BY DEF Sequence, Elements
  <2>3. plan[3].check /\ plan[1].row = <<"membership", c.actor>>
    BY DEF Lock, Checked
  <2> HIDE DEF plan
  <2>4. \A row \in Guards(c) : \E i \in 1..3 : plan[i].row = row
    BY <2>0, <2>3
  <2>5. Guarding(c, plan)
    BY <2>2, <2>3, <2>4, LastChecked
  <2> QED BY <2>1, <2>5, LinkRows, Longer
<1>7. CASE c.kind \in {"message.create", "thread.start"}
  <2>1. Guards(c) = {<<"role", c.actor>>, <<"project">>} /\ Before(c) = RoomPlan(c)
    BY <1>7 DEF Guards, Before
  <2> QED BY <2>1, RoomPlans
<1>8. CASE c.kind \in ProjectMemberKinds \cup {"channel.create"}
  <2>1. Guards(c) = {<<"role", c.actor>>} /\ Before(c) = MemberPlan(c)
    BY <1>8 DEF Guards, Before
  <2> QED BY <2>1, RolePlans
<1>9. CASE c.kind \in ChannelMemberKinds
  <2>1. Guards(c) = {<<"role", c.actor>>, <<"project">>} /\ Before(c) = ChannelMemberPlan(c)
    BY <1>9 DEF Guards, Before
  <2> QED BY <2>1, RoomPlans
<1>10. CASE c.kind \in AuthorizationKinds
  <2> DEFINE x == Lock(<<"membership", Low(c.actor, c.target)>>, "share")
             y == Lock(<<"membership", High(c.actor, c.target)>>, "share")
             z == Checked(<<"environment">>, "update")
             plan == <<x, y, z>>
  <2>1. Guards(c) = {<<"membership", c.actor>>} /\ Before(c) = plan
    BY <1>10 DEF Guards, Before, AuthorizationPlan
  <2>2. Sequence(plan) /\ 3 \in DOMAIN plan
    BY DEF Sequence, Elements
  <2>3. Low(c.actor, c.target) = c.actor \/ High(c.actor, c.target) = c.actor
    BY DEF Low, High
  <2>4. plan[3].check /\ (plan[1].row = <<"membership", c.actor>> \/ plan[2].row = <<"membership", c.actor>>)
    BY <2>3 DEF Lock, Checked
  <2> HIDE DEF plan
  <2>5. \A row \in Guards(c) : \E i \in 1..3 : plan[i].row = row
    BY <2>1, <2>4
  <2>6. Guarding(c, plan)
    BY <2>2, <2>4, <2>5, LastChecked
  <2> QED BY <2>1, <2>6
<1>11. CASE c.kind = "deployment.record"
  <2> DEFINE plan == <<Lock(<<"membership", c.actor>>, "share"), Lock(<<"environment">>, "share"),
                       Checked(<<"authorization", c.actor>>, "share")>>
  <2>1. Guards(c) = {<<"authorization", c.actor>>} /\ Before(c) = plan
    BY <1>11 DEF Guards, Before, DeploymentPlan
  <2>2. Sequence(plan) /\ 3 \in DOMAIN plan
    BY DEF Sequence, Elements
  <2>3. plan[3].check /\ plan[3].row = <<"authorization", c.actor>>
    BY DEF Checked
  <2> HIDE DEF plan
  <2>4. \A row \in Guards(c) : \E i \in 1..3 : plan[i].row = row
    BY <2>1, <2>3
  <2>5. Guarding(c, plan)
    BY <2>2, <2>3, <2>4, LastChecked
  <2> QED BY <2>1, <2>5
<1> QED BY <1>1, <1>2, <1>3, <1>4, <1>5, <1>6, <1>7, <1>8, <1>9, <1>10, <1>11
        DEF WellFormed, Kinds, DocumentKinds

\* What a command writes is locked for update, if not before then after its claim.
LEMMA BeforeWrites ==
    ASSUME NEW c, WellFormed(c)
    PROVE  \/ \A row \in EarlyRows(c) : Updates(Elements(Before(c)), row)
           \/ c.kind = "workspace.owner.transfer" /\ Key(c) \in DOMAIN receipts
<1> USE DEF ChannelMemberKinds, ProjectMemberKinds
<1>1. CASE c.kind \in ChannelMemberKinds \cup {"project.member.remove"}
  <2>0. EarlyRows(c) = {<<"project">>}
    BY <1>1 DEF EarlyRows
  <2>1. Before(c) = ChannelMemberPlan(c) \/ Before(c) = MemberPlan(c)
    <3>1. c.kind = "project.member.remove" => Before(c) = MemberPlan(c)
      BY DEF Before, TicketComponentKinds, RepositoryKinds, AuthorizationKinds
    <3>2. c.kind \in ChannelMemberKinds => Before(c) = ChannelMemberPlan(c)
      BY DEF Before, TicketComponentKinds, RepositoryKinds, AuthorizationKinds
    <3> QED BY <1>1, <3>1, <3>2
  <2>2. 2 \in DOMAIN Before(c) /\ Before(c)[2] = Lock(<<"project">>, "update")
    BY <2>1 DEF ChannelMemberPlan, MemberPlan
  <2> QED BY <2>0, <2>2 DEF Updates, Elements, Lock
<1>2. CASE c.kind = "workspace.owner.transfer" /\ Key(c) \notin DOMAIN receipts
  <2> DEFINE low == Lock(<<"membership", Low(c.actor, c.payload)>>, "update")
             high == Lock(<<"membership", High(c.actor, c.payload)>>, "update")
  <2>1. EarlyRows(c) = {<<"membership", c.actor>>, <<"membership", c.payload>>}
    BY <1>2 DEF EarlyRows
  <2>2. Before(c) = <<low, high, Lock(<<"workspace">>, "update")>>
    BY <1>2 DEF Before, TicketComponentKinds, RepositoryKinds, AuthorizationKinds, TransferPlan
  <2>3. low \in Elements(Before(c)) /\ high \in Elements(Before(c))
    BY <2>2 DEF Elements
  <2>4. /\ low.row = <<"membership", Low(c.actor, c.payload)>> /\ low.mode = "update"
        /\ high.row = <<"membership", High(c.actor, c.payload)>> /\ high.mode = "update"
    BY DEF Lock
  <2>5. {c.actor, c.payload} \subseteq {Low(c.actor, c.payload), High(c.actor, c.payload)}
    BY DEF Low, High
  <2> HIDE DEF low, high
  <2> QED BY <2>1, <2>3, <2>4, <2>5 DEF Updates
<1>3. CASE c.kind \notin ChannelMemberKinds \cup {"project.member.remove", "workspace.owner.transfer"}
  BY <1>3 DEF EarlyRows
<1> QED BY <1>1, <1>2, <1>3

\* After its claim a command locks for update the rows it is about to change.
LEMMA AfterFacts ==
    ASSUME NEW c, WellFormed(c)
    PROVE  Sequence(After(c)) /\ \A row \in LateRows(c) : Updates(Elements(After(c)), row)
<1> USE DEF ChannelMemberKinds, ProjectMemberKinds, AuthorizationKinds
<1>1. CASE c.kind = "project.member.set"
  <2>1. After(c) = <<Checked(<<"role", c.target>>, "update"), Lock(<<"membership", c.target>>, "share"),
                     Lock(<<"workspace">>, "key")>>
    BY <1>1 DEF After
  <2>2. Sequence(After(c)) /\ 1 \in DOMAIN After(c) /\ After(c)[1] = Checked(<<"role", c.target>>, "update")
    BY <2>1 DEF Sequence, Elements
  <2>3. LateRows(c) = {<<"role", c.target>>}
    BY <1>1 DEF LateRows
  <2> QED BY <2>2, <2>3 DEF Updates, Elements, Checked
<1>2. CASE c.kind = "project.member.remove"
  <2>1. After(c) = <<Checked(<<"role", c.target>>, "update"), Lock(<<"workspace">>, "key")>>
    BY <1>2 DEF After
  <2>2. Sequence(After(c)) /\ 1 \in DOMAIN After(c) /\ After(c)[1] = Checked(<<"role", c.target>>, "update")
    BY <2>1 DEF Sequence, Elements
  <2>3. LateRows(c) = {<<"role", c.target>>}
    BY <1>2 DEF LateRows
  <2> QED BY <2>2, <2>3 DEF Updates, Elements, Checked
<1>3. CASE c.kind \in AuthorizationKinds
  <2>1. After(c) = <<Checked(<<"authorization", c.target>>, "update"), Lock(<<"workspace">>, "key")>>
    BY <1>3 DEF After
  <2>2. Sequence(After(c)) /\ 1 \in DOMAIN After(c)
        /\ After(c)[1] = Checked(<<"authorization", c.target>>, "update")
    BY <2>1 DEF Sequence, Elements
  <2>3. LateRows(c) = {<<"authorization", c.target>>}
    BY <1>3 DEF LateRows
  <2> QED BY <2>2, <2>3 DEF Updates, Elements, Checked
<1>4. CASE c.kind = "channel.create"
  <2>1. After(c) = Append(ElectLocks(c.payload), Lock(<<"workspace">>, "key"))
    BY <1>4 DEF After
  <2>2. Sequence(ElectLocks(c.payload))
    <3>1. 2 * Len(c.payload) \in Nat
      BY <1>4 DEF WellFormed
    <3>2. ElectLocks(c.payload) = [i \in 1..(2 * Len(c.payload)) |-> ElectLocks(c.payload)[i]]
      BY DEF ElectLocks
    <3> QED BY <3>1, <3>2, SequenceFrom
  <2>3. Sequence(After(c))
    BY <2>1, <2>2, Appended
  <2>4. LateRows(c) = {}
    BY <1>4 DEF LateRows
  <2> QED BY <2>3, <2>4
<1>5. CASE c.kind \notin ProjectMemberKinds \cup AuthorizationKinds \cup {"channel.create"}
  <2>1. LateRows(c) = {}
    BY <1>5 DEF LateRows
  <2>2. \A x, y, z, w : Sequence(<<>>) /\ Sequence(<<x>>) /\ Sequence(<<x, y, z>>) /\ Sequence(<<x, y, z, w>>)
    BY DEF Sequence, Elements
  <2>3. c.kind = "channel.member.add" => Sequence(After(c))
    BY <2>2 DEF After
  <2>4. c.kind = "channel.member.remove" => Sequence(After(c))
    BY <2>2 DEF After
  <2>5. c.kind \notin ChannelMemberKinds => Sequence(After(c))
    BY <1>5, <2>2 DEF After
  <2> QED BY <2>1, <2>3, <2>4, <2>5
<1> QED BY <1>1, <1>2, <1>3, <1>4, <1>5

-----------------------------------------------------------------------------
(* Transactions *)

\* What a transaction is after each of its steps.
Begun(c) == [command |-> c, held |-> {}, todo |-> Before(c), claimed |-> FALSE]
Acquired(t) == [command |-> tx[t].command, held |-> tx[t].held \cup {Head(tx[t].todo)},
                todo |-> Tail(tx[t].todo), claimed |-> tx[t].claimed]
Claimed(t) == [command |-> tx[t].command, held |-> tx[t].held,
               todo |-> After(tx[t].command), claimed |-> TRUE]

Moves(t) ==
    \/ tx'[t] = None
    \/ \E c \in menu : Begin(t, c) /\ tx'[t] = Begun(c)
    \/ Acquire(t) /\ tx'[t] = Acquired(t)
    \/ Claim(t) /\ tx'[t] = Claimed(t)

\* At most one transaction moves, and it is made of the same parts afterwards.
LEMMA OneMoves ==
    ASSUME TxShapes, [Next]_vars
    PROVE  /\ menu' = menu /\ tx' = [u \in Transactions |-> tx'[u]]
           /\ \/ \A u \in Transactions : tx'[u] = tx[u]
              \/ \E t \in Transactions :
                     Moves(t) /\ \A u \in Transactions : u # t => tx'[u] = tx[u]
<1>0. tx = [t \in Transactions |-> tx[t]]
  BY DEF TxShapes
<1>1. CASE UNCHANGED vars
  BY <1>0, <1>1 DEF vars
<1>2. ASSUME NEW t \in Transactions, tx' = [tx EXCEPT ![t] = None], menu' = menu
      PROVE  /\ menu' = menu /\ tx' = [u \in Transactions |-> tx'[u]]
             /\ Moves(t) /\ \A u \in Transactions : u # t => tx'[u] = tx[u]
  BY <1>0, <1>2 DEF Moves
<1>3. ASSUME NEW t \in Transactions, NEW c \in menu, Begin(t, c)
      PROVE  /\ menu' = menu /\ tx' = [u \in Transactions |-> tx'[u]]
             /\ Moves(t) /\ \A u \in Transactions : u # t => tx'[u] = tx[u]
  <2>1. tx' = [tx EXCEPT ![t] = Begun(c)] /\ menu' = menu
    BY <1>3 DEF Begin, Begun
  <2>2. tx'[t] = Begun(c)
    BY <1>0, <2>1
  <2> QED BY <1>0, <1>3, <2>1, <2>2 DEF Moves
<1>4. ASSUME NEW t \in Transactions, Acquire(t)
      PROVE  /\ menu' = menu /\ tx' = [u \in Transactions |-> tx'[u]]
             /\ Moves(t) /\ \A u \in Transactions : u # t => tx'[u] = tx[u]
  <2>1. tx[t] = [command |-> tx[t].command, held |-> tx[t].held,
                 todo |-> tx[t].todo, claimed |-> tx[t].claimed]
    BY <1>4 DEF Acquire, TxShapes, Runs
  <2>2. tx' = [tx EXCEPT ![t].held = @ \cup {Head(tx[t].todo)}, ![t].todo = Tail(@)] /\ menu' = menu
    BY <1>4 DEF Acquire
  <2> DEFINE new == [tx[t] EXCEPT !.held = tx[t].held \cup {Head(tx[t].todo)}, !.todo = Tail(tx[t].todo)]
  <2>3. tx' = [tx EXCEPT ![t] = new]
    BY <1>0, <2>1, <2>2
  <2>4. new = Acquired(t)
    <3> DEFINE r == tx[t]
               first == r.held \cup {Head(r.todo)}
               second == Tail(r.todo)
               s == [r EXCEPT !.held = first]
    <3>1. new = [s EXCEPT !.todo = second]
      OBVIOUS
    <3>2. r = [command |-> r.command, held |-> r.held, todo |-> r.todo, claimed |-> r.claimed]
      BY <2>1
    <3> HIDE DEF r, first, second
    <3>3. s = [command |-> r.command, held |-> first, todo |-> r.todo, claimed |-> r.claimed]
      BY <3>2
    <3> HIDE DEF s
    <3>4. [s EXCEPT !.todo = second] = [command |-> r.command, held |-> first, todo |-> second, claimed |-> r.claimed]
      BY <3>3
    <3> HIDE DEF new
    <3> QED BY <3>1, <3>4 DEF r, first, second, Acquired
  <2>5. tx'[t] = Acquired(t) /\ tx' = [u \in Transactions |-> tx'[u]]
    BY <1>0, <2>3, <2>4
  <2>6. \A u \in Transactions : u # t => tx'[u] = tx[u]
    BY <1>0, <2>3
  <2> QED BY <1>4, <2>2, <2>5, <2>6 DEF Moves
<1>5. ASSUME NEW t \in Transactions, Claim(t)
      PROVE  /\ menu' = menu /\ tx' = [u \in Transactions |-> tx'[u]]
             /\ Moves(t) /\ \A u \in Transactions : u # t => tx'[u] = tx[u]
  <2>1. tx[t] = [command |-> tx[t].command, held |-> tx[t].held,
                 todo |-> tx[t].todo, claimed |-> tx[t].claimed]
    BY <1>5 DEF Claim, TxShapes, Runs
  <2>2. tx' = [tx EXCEPT ![t].claimed = TRUE, ![t].todo = After(tx[t].command)] /\ menu' = menu
    BY <1>5 DEF Claim
  <2> DEFINE new == [tx[t] EXCEPT !.claimed = TRUE, !.todo = After(tx[t].command)]
  <2>3. tx' = [tx EXCEPT ![t] = new]
    BY <1>0, <2>1, <2>2
  <2>4. new = Claimed(t)
    <3> DEFINE r == tx[t]
               first == TRUE
               second == After(r.command)
               s == [r EXCEPT !.claimed = first]
    <3>1. new = [s EXCEPT !.todo = second]
      OBVIOUS
    <3>2. r = [command |-> r.command, held |-> r.held, todo |-> r.todo, claimed |-> r.claimed]
      BY <2>1
    <3> HIDE DEF r, first, second
    <3>3. s = [command |-> r.command, held |-> r.held, todo |-> r.todo, claimed |-> first]
      BY <3>2
    <3> HIDE DEF s
    <3>4. [s EXCEPT !.todo = second] = [command |-> r.command, held |-> r.held, todo |-> second, claimed |-> first]
      BY <3>3
    <3> HIDE DEF new
    <3> QED BY <3>1, <3>4 DEF r, first, second, Claimed
  <2>5. tx'[t] = Claimed(t) /\ tx' = [u \in Transactions |-> tx'[u]]
    BY <1>0, <2>3, <2>4
  <2>6. \A u \in Transactions : u # t => tx'[u] = tx[u]
    BY <1>0, <2>3
  <2> QED BY <1>5, <2>2, <2>5, <2>6 DEF Moves
<1>6. CASE Next
  <2>1. PICK t \in Transactions :
            \/ \E c \in menu : Begin(t, c)
            \/ Acquire(t) \/ Claim(t)
            \/ tx' = [tx EXCEPT ![t] = None] /\ menu' = menu
    BY <1>6 DEF Next, Refuse, Replay, Reject, Abort, End, Commit
  <2> QED BY <1>2, <1>3, <1>4, <1>5, <2>1
<1> QED BY <1>1, <1>6

\* An object that is there stays.
LEMMA TargetsStay ==
    ASSUME Shapes, TxShapes, [Next]_vars, NEW c, Targeted(c), WellFormed(c)
    PROVE  Targeted(c)'
<1>1. /\ DOMAIN docs \subseteq DOMAIN docs' /\ DOMAIN links \subseteq DOMAIN links'
      /\ DOMAIN tickets \subseteq DOMAIN tickets' /\ DOMAIN decisions \subseteq DOMAIN decisions'
      /\ DOMAIN channels \subseteq DOMAIN channels' /\ DOMAIN threads \subseteq DOMAIN threads'
      /\ DOMAIN messages \subseteq DOMAIN messages'
  <2>1. CASE \A t \in Transactions : ~Commit(t)
    BY <2>1, OnlyCommitsWrite DEF entities, talk
  <2>2. ASSUME NEW t \in Transactions, Commit(t) PROVE <1>1!:
    <3> DEFINE d == tx[t].command
    <3>1. Good(d)
      BY <2>2, CommitFacts
    <3> HIDE DEF d
    <3> QED BY <3>1, DocsKept, LinksKept, TicketsKept, DecisionsKept, RoomsKept, MessagesKept
  <2> QED BY <2>1, <2>2
<1>2. c.kind \in ChannelMemberKinds => RoomOf(c)' = RoomOf(c)
  BY DEF RoomOf
<1> QED BY <1>1, <1>2 DEF Targeted, UnlinkKinds, TicketComponentKinds, ChannelMemberKinds

\* Transactions keep their form.
LEMMA TxShapesKept ==
    ASSUME Shapes, TxShapes, [Next]_vars
    PROVE  TxShapes'
<1> DEFINE Form(t) ==
        /\ tx[t] = [command |-> tx[t].command, held |-> tx[t].held,
                    todo |-> tx[t].todo, claimed |-> tx[t].claimed]
        /\ tx[t].command \in menu /\ Targeted(tx[t].command)
        /\ Sequence(tx[t].todo)
        /\ tx[t].claimed \in BOOLEAN
<1>0. \A c \in menu : WellFormed(c)
  BY CommandsAssumption DEF Shapes
<1>1. ASSUME NEW t \in Transactions, Runs(t), tx'[t] = tx[t] PROVE Form(t)'
  <2>1. Form(t) /\ menu' = menu
    BY <1>1, OneMoves DEF TxShapes
  <2>2. PICK c : c = tx[t].command
    OBVIOUS
  <2>3. Targeted(c) /\ WellFormed(c)
    BY <1>0, <2>1, <2>2
  <2>4. Targeted(c)'
    BY <2>3, TargetsStay
  <2> QED BY <1>1, <2>1, <2>2, <2>4
<1>2. ASSUME NEW t \in Transactions, Moves(t), tx'[t] # None PROVE Form(t)'
  <2>0. menu' = menu
    BY OneMoves
  <2>1. CASE \E c \in menu : Begin(t, c) /\ tx'[t] = Begun(c)
    <3>1. PICK c \in menu : Begin(t, c) /\ tx'[t] = Begun(c)
      BY <2>1
    <3>2. Targeted(c) /\ WellFormed(c)
      BY <1>0, <3>1 DEF Begin
    <3>3. Targeted(c)'
      BY <3>2, TargetsStay
    <3>4. Sequence(Before(c))
      <4>1. CASE c.kind # "workspace.owner.transfer"
        BY <3>2, <4>1, BeforeGuards DEF Guarding
      <4>2. CASE c.kind = "workspace.owner.transfer"
        <5>1. \A x, y, z : Sequence(<<x>>) /\ Sequence(<<x, y, z>>)
          BY DEF Sequence, Elements
        <5>2. Before(c) = TransferPlan(c)
          BY <4>2 DEF Before, TicketComponentKinds, RepositoryKinds, ProjectMemberKinds,
                      ChannelMemberKinds, AuthorizationKinds
        <5> QED BY <5>1, <5>2 DEF TransferPlan
      <4> QED BY <4>1, <4>2
    <3> QED BY <2>0, <3>1, <3>3, <3>4 DEF Begun
  <2>2. CASE Acquire(t) /\ tx'[t] = Acquired(t)
    <3>1. Form(t) /\ tx[t].todo # <<>>
      BY <2>2 DEF Acquire, TxShapes, Runs
    <3>2. Sequence(Tail(tx[t].todo))
      BY <3>1, Shortened
    <3>3. PICK c : c = tx[t].command
      OBVIOUS
    <3>4. Targeted(c) /\ WellFormed(c)
      BY <1>0, <3>1, <3>3
    <3>5. Targeted(c)'
      BY <3>4, TargetsStay
    <3> QED BY <2>0, <2>2, <3>1, <3>2, <3>3, <3>5 DEF Acquired
  <2>3. CASE Claim(t) /\ tx'[t] = Claimed(t)
    <3>1. Form(t)
      BY <2>3 DEF Claim, TxShapes, Runs
    <3>2. PICK c : c = tx[t].command
      OBVIOUS
    <3>3. Targeted(c) /\ WellFormed(c)
      BY <1>0, <3>1, <3>2
    <3>4. Targeted(c)'
      BY <3>3, TargetsStay
    <3>5. Sequence(After(c))
      BY <3>3, AfterFacts
    <3> QED BY <2>0, <2>3, <3>1, <3>2, <3>4, <3>5 DEF Claimed
  <2> QED BY <1>2, <2>1, <2>2, <2>3 DEF Moves
<1>3. ASSUME NEW t \in Transactions, tx'[t] # None PROVE Form(t)'
  <2> HIDE DEF Form
  <2>1. CASE tx'[t] = tx[t]
    BY <1>1, <1>3, <2>1 DEF Runs
  <2>2. CASE Moves(t)
    BY <1>2, <1>3, <2>2
  <2> QED BY <2>1, <2>2, OneMoves
<1> QED BY <1>3, OneMoves DEF TxShapes, Runs

\* What a transaction that runs after a step was before it.
LEMMA After1 ==
    ASSUME TxShapes, [Next]_vars, NEW t \in Transactions, tx'[t] # None
    PROVE  \/ Runs(t) /\ tx'[t] = tx[t]
           \/ \E c \in menu : Begin(t, c) /\ tx'[t] = Begun(c)
           \/ Runs(t) /\ Acquire(t) /\ tx'[t] = Acquired(t)
           \/ Runs(t) /\ Claim(t) /\ tx'[t] = Claimed(t)
BY OneMoves DEF Moves, Runs, Acquire, Claim

\* Locks are never shared against their modes.
LEMMA LocksKept ==
    ASSUME TxShapes, LocksOK, [Next]_vars
    PROVE  LocksOK'
<1> DEFINE Apart(h, g) == (\A l \in h : ~Blocks(g, l)) /\ (\A l \in g : ~Blocks(h, l))
<1>1. ASSUME NEW t \in Transactions, NEW u \in Transactions, t # u, Runs(u), tx'[u] = tx[u],
             tx'[t] # None
      PROVE  Apart(tx'[t].held, tx[u].held)
  <2>1. CASE Runs(t) /\ tx'[t] = tx[t]
    BY <1>1, <2>1 DEF LocksOK
  <2>2. CASE \E c \in menu : Begin(t, c) /\ tx'[t] = Begun(c)
    BY <2>2 DEF Begun, Blocks
  <2>3. CASE Runs(t) /\ Acquire(t) /\ tx'[t] = Acquired(t)
    <3> DEFINE l == Head(tx[t].todo)
    <3>1. ~Blocks(tx[u].held, l)
      <4>1. Free(t) /\ tx[t].todo # <<>> /\ u \in Running
        BY <1>1, <2>3 DEF Acquire, Running, Runs
      <4> QED BY <1>1, <4>1 DEF Free, WaitsFor
    <3>2. tx'[t].held = tx[t].held \cup {l}
      BY <2>3 DEF Acquired
    <3>3. Apart(tx[t].held, tx[u].held)
      BY <1>1, <2>3 DEF LocksOK
    <3> HIDE DEF l
    <3> QED BY <3>1, <3>2, <3>3 DEF Blocks, Conflict
  <2>4. CASE Runs(t) /\ Claim(t) /\ tx'[t] = Claimed(t)
    <3>1. tx'[t].held = tx[t].held
      BY <2>4 DEF Claimed
    <3> QED BY <1>1, <2>4, <3>1 DEF LocksOK
  <2> HIDE DEF Apart
  <2> QED BY <1>1, <2>1, <2>2, <2>3, <2>4, After1
<1>2. ASSUME NEW t \in Transactions, NEW u \in Transactions, t # u, tx'[t] # None, tx'[u] # None
      PROVE  Apart(tx'[t].held, tx'[u].held)
  <2>0. Apart(tx'[u].held, tx'[t].held) => Apart(tx'[t].held, tx'[u].held)
    OBVIOUS
  <2>1. CASE tx'[t] = tx[t] /\ tx'[u] = tx[u]
    BY <1>2, <2>1 DEF LocksOK, Runs
  <2>2. CASE tx'[u] = tx[u]
    BY <1>1, <1>2, <2>2 DEF Runs
  <2>3. CASE tx'[t] = tx[t]
    <3>1. Apart(tx'[u].held, tx[t].held)
      BY <1>1, <1>2, <2>3 DEF Runs
    <3> QED BY <2>0, <2>3, <3>1
  <2> HIDE DEF Apart
  <2> QED BY <1>2, <2>1, <2>2, <2>3, OneMoves
<1> QED BY <1>2 DEF LocksOK, Runs

\* Receipts and journal grow by one at a commit and stay otherwise.
LEMMA OneReceipt ==
    ASSUME Shapes, TxShapes, [Next]_vars
    PROVE  \/ receipts' = receipts /\ journal' = journal
           \/ \E t \in Transactions :
                  /\ Runs(t) /\ Commit(t) /\ tx[t].claimed /\ tx'[t] = None
                  /\ DOMAIN receipts' = DOMAIN receipts \cup {Key(tx[t].command)}
<1>1. CASE \A t \in Transactions : ~Commit(t)
  BY <1>1, OnlyCommitsWrite
<1>2. ASSUME NEW t \in Transactions, Commit(t)
      PROVE  /\ Runs(t) /\ Commit(t) /\ tx[t].claimed /\ tx'[t] = None
             /\ DOMAIN receipts' = DOMAIN receipts \cup {Key(tx[t].command)}
  <2> DEFINE c == tx[t].command
  <2>1. Good(c) /\ Runs(t) /\ tx[t].claimed /\ tx'[t] = None
    BY <1>2, CommitFacts
  <2> HIDE DEF c
  <2>2. DOMAIN receipts' = DOMAIN receipts \cup {Key(c)}
    BY <2>1, Writers, Receipted DEF Good
  <2> QED BY <1>2, <2>1, <2>2 DEF c
<1> QED BY <1>1, <1>2

\* The unique index lets one of several transactions with the same key past.
LEMMA ClaimsKept ==
    ASSUME Shapes, TxShapes, ClaimsOK, [Next]_vars
    PROVE  ClaimsOK'
<1>1. ASSUME NEW t \in Transactions, tx'[t] # None, tx'[t].claimed
      PROVE  \/ Runs(t) /\ tx'[t] = tx[t] /\ tx[t].claimed
             \/ Runs(t) /\ Acquire(t) /\ tx'[t].command = tx[t].command /\ tx[t].claimed
             \/ Runs(t) /\ Claim(t) /\ tx'[t].command = tx[t].command
  <2>1. ASSUME NEW c, tx'[t] = Begun(c) PROVE FALSE
    BY <1>1, <2>1 DEF Begun
  <2>2. tx'[t] = Acquired(t) => tx'[t].command = tx[t].command /\ tx'[t].claimed = tx[t].claimed
    BY DEF Acquired
  <2>3. tx'[t] = Claimed(t) => tx'[t].command = tx[t].command
    BY DEF Claimed
  <2> QED BY <1>1, <2>1, <2>2, <2>3, After1
<1>2. ASSUME NEW t \in Transactions, tx'[t] # None, tx'[t].claimed
      PROVE  Key(tx'[t].command) \notin DOMAIN receipts'
  <2>1. CASE receipts' = receipts
    BY <1>1, <1>2, <2>1 DEF ClaimsOK, Claim
  <2>2. CASE receipts' # receipts
    <3>1. Runs(t) /\ tx'[t] = tx[t] /\ tx[t].claimed
      BY <1>1, <1>2, <2>2 DEF Acquire, Claim
    <3>2. PICK u \in Transactions :
              /\ Runs(u) /\ tx[u].claimed /\ tx'[u] = None
              /\ DOMAIN receipts' = DOMAIN receipts \cup {Key(tx[u].command)}
      BY <2>2, OneReceipt
    <3>3. u # t
      BY <1>2, <3>2
    <3> QED BY <3>1, <3>2, <3>3 DEF ClaimsOK
  <2> QED BY <2>1, <2>2
<1>3. ASSUME NEW t \in Transactions, NEW u \in Transactions, t # u, Runs(t), Claim(t), Runs(u), tx[u].claimed
      PROVE  Key(tx[t].command) # Key(tx[u].command)
  <2>1. Free(t) /\ tx[t].todo = <<>> /\ ~tx[t].claimed /\ u \in Running
    BY <1>3 DEF Claim, Running, Runs
  <2> QED BY <1>3, <2>1 DEF Free, WaitsFor, SameClaim
<1>4. ASSUME NEW t \in Transactions, NEW u \in Transactions, t # u,
             tx'[t] # None, tx'[t].claimed, tx'[u] # None, tx'[u].claimed
      PROVE  Key(tx'[t].command) # Key(tx'[u].command)
  <2>1. Runs(t) /\ Runs(u) /\ tx'[t].command = tx[t].command /\ tx'[u].command = tx[u].command
    BY <1>1, <1>4
  <2>2. CASE Claim(t) /\ tx[u].claimed
    BY <1>3, <1>4, <2>1, <2>2
  <2>3. CASE Claim(u) /\ tx[t].claimed
    BY <1>3, <1>4, <2>1, <2>3
  <2>4. CASE tx[t].claimed /\ tx[u].claimed
    BY <1>4, <2>1, <2>4 DEF ClaimsOK
  <2>5. tx[t].claimed \/ tx[u].claimed
    <3>1. CASE tx'[t] = tx[t]
      BY <1>4, <3>1
    <3>2. CASE tx'[u] = tx[u]
      BY <1>4, <3>2
    <3> QED BY <1>4, <3>1, <3>2, OneMoves
  <2> QED BY <1>1, <1>4, <2>2, <2>3, <2>4, <2>5
<1> QED BY <1>2, <1>4 DEF ClaimsOK, Runs

\* Each effect writes the receipt of its own command and the entry it stands for.
LEMMA ReceiptsKept ==
    ASSUME Shapes, TxShapes, ClaimsOK, ReceiptsOK, [Next]_vars
    PROVE  ReceiptsOK'
<1>1. CASE receipts' = receipts /\ journal' = journal
  BY <1>1 DEF ReceiptsOK, Digest
<1>2. ASSUME NEW t \in Transactions, Commit(t) PROVE ReceiptsOK'
  <2>0. PICK c : c = tx[t].command
    OBVIOUS
  <2>1. Good(c) /\ Key(c) \notin DOMAIN receipts
    BY <1>2, <2>0, CommitFacts DEF ClaimsOK
  <2>2. PICK id, revision, from, to : Record(c, id, revision, from, to)
    BY <2>1, Writers DEF Good
  <2> DEFINE n == Len(journal) + 1
             e == EntryOf(c, id, revision, from, to)
             r == ReceiptOf(c, id, revision)
  <2> HIDE DEF n, e, r
  <2>31. n \notin DOMAIN journal
    BY NextIndex DEF n
  <2>32. /\ DOMAIN journal' = DOMAIN journal \cup {n} /\ journal'[n] = e
          /\ \A i \in DOMAIN journal : journal'[i] = journal[i]
    BY <2>2, Journaled DEF n, e
  <2>33. DOMAIN receipts' = DOMAIN receipts \cup {Key(c)}
    BY <2>2, Receipted
  <2>34. receipts'[Key(c)] = r
    BY <2>2, Receipted DEF r
  <2>35. \A k \in DOMAIN receipts : k # Key(c) => receipts'[k] = receipts[k]
    BY <2>2 DEF Record
  <2>3. /\ n \notin DOMAIN journal /\ DOMAIN journal' = DOMAIN journal \cup {n} /\ journal'[n] = e
        /\ \A i \in DOMAIN journal : journal'[i] = journal[i]
        /\ DOMAIN receipts' = DOMAIN receipts \cup {Key(c)} /\ receipts'[Key(c)] = r
        /\ \A k \in DOMAIN receipts : k # Key(c) => receipts'[k] = receipts[k]
    BY <2>31, <2>32, <2>33, <2>34, <2>35
  <2>4. /\ e.key = Key(c) /\ e.kind = c.kind /\ e.id = r.id /\ e.revision = r.revision
        /\ r.entry = n /\ Digest(e) = r.digest
    BY EntryFacts, ReceiptFacts DEF n, e, r
  <2>5. Key(c)[2] = c.kind
    BY DEF Key
  <2> HIDE DEF n, e, r
  <2>6. \A i \in DOMAIN journal' : journal'[i].kind = journal'[i].key[2]
    BY <2>3, <2>4, <2>5 DEF ReceiptsOK
  <2>7. \A i \in DOMAIN journal : journal[i].key # Key(c)
    BY <2>1 DEF ReceiptsOK
  <2>8. \A i, j \in DOMAIN journal' : journal'[i].key = journal'[j].key => i = j
    BY <2>3, <2>4, <2>7 DEF ReceiptsOK
  <2>9. {journal'[i].key : i \in DOMAIN journal'} = DOMAIN receipts'
    BY <2>3, <2>4 DEF ReceiptsOK
  <2>10. ASSUME NEW k \in DOMAIN receipts'
         PROVE  /\ receipts'[k].entry \in DOMAIN journal'
                /\ LET d == journal'[receipts'[k].entry]
                   IN  /\ d.key = k /\ d.id = receipts'[k].id /\ d.revision = receipts'[k].revision
                       /\ Digest(d) = receipts'[k].digest
    <3>1. CASE k = Key(c)
      BY <2>3, <2>4, <3>1
    <3>2. CASE k # Key(c)
      <4>1. k \in DOMAIN receipts /\ receipts'[k] = receipts[k]
        BY <2>3, <2>10, <3>2
      <4>2. receipts[k].entry \in DOMAIN journal
        BY <4>1 DEF ReceiptsOK
      <4>3. journal'[receipts'[k].entry] = journal[receipts[k].entry]
        BY <2>3, <4>1, <4>2
      <4> QED BY <2>3, <4>1, <4>2, <4>3 DEF ReceiptsOK
    <3> QED BY <3>1, <3>2
  <2> QED BY <2>6, <2>8, <2>9, <2>10 DEF ReceiptsOK, Digest
<1> QED BY <1>1, <1>2, OneReceipt

-----------------------------------------------------------------------------
(* What locks protect *)

\* What one transaction holds no other holds for update.
LEMMA NoClash ==
    ASSUME LocksOK, NEW t \in Transactions, NEW u \in Transactions, Runs(t), Runs(u), t # u,
           NEW row, Covers(tx[t].held, row)
    PROVE  ~Updates(tx[u].held, row)
BY DEF LocksOK, Covers, Updates, Blocks, Conflict

\* At its commit a transaction holds for update what protects its writes.
LEMMA WriterHolds ==
    ASSUME Shapes, TxShapes, ClaimsOK, WritesOK, NEW u \in Transactions, Commit(u)
    PROVE  \A row \in EarlyRows(tx[u].command) \cup LateRows(tx[u].command) : Updates(tx[u].held, row)
<1>1. Runs(u) /\ tx[u].claimed /\ tx[u].todo = <<>>
  BY CommitFacts
<1>2. tx[u].held \cup Elements(tx[u].todo) = tx[u].held
  BY <1>1 DEF Elements
<1>3. Key(tx[u].command) \notin DOMAIN receipts
  BY <1>1 DEF ClaimsOK
<1> QED BY <1>1, <1>2, <1>3 DEF WritesOK

\* While a transaction holds a row, nobody else's commit changes what it protects.
LEMMA Protected ==
    ASSUME Shapes, TxShapes, ClaimsOK, LocksOK, WritesOK,
           NEW t \in Transactions, Runs(t), NEW u \in Transactions, Commit(u), t # u
    PROVE  /\ \A v \in Users :
                  /\ Covers(tx[t].held, <<"role", v>>) => role'[v] = role[v]
                  /\ Covers(tx[t].held, <<"membership", v>>) => member'[v] = member[v]
                  /\ Covers(tx[t].held, <<"authorization", v>>) => grants'[v] = grants[v]
           /\ Covers(tx[t].held, <<"project">>) =>
                  /\ \A i \in DOMAIN channels : channels'[i] = channels[i]
                  /\ \A i \in DOMAIN threads : threads'[i] = threads[i]
<1>0. PICK c : c = tx[u].command
  OBVIOUS
<1>1. Good(c) /\ Runs(u)
  BY <1>0, CommitFacts
<1>2. \A row \in EarlyRows(c) \cup LateRows(c) : ~Covers(tx[t].held, row)
  BY <1>0, <1>1, WriterHolds, NoClash
<1>3. ASSUME NEW v \in Users, Covers(tx[t].held, <<"role", v>>) PROVE role'[v] = role[v]
  <2>1. SUFFICES ASSUME role'[v] # role[v] PROVE FALSE
    OBVIOUS
  <2>2. c.kind \in ProjectMemberKinds /\ v = c.target
    BY <1>1, <2>1, RoleKept
  <2>3. <<"role", v>> \in LateRows(c)
    BY <2>2 DEF LateRows, ProjectMemberKinds, AuthorizationKinds
  <2> QED BY <1>2, <1>3, <2>3
<1>4. ASSUME NEW v \in Users, Covers(tx[t].held, <<"membership", v>>) PROVE member'[v] = member[v]
  <2>1. SUFFICES ASSUME member'[v] # member[v] PROVE FALSE
    OBVIOUS
  <2>2. c.kind = "workspace.owner.transfer" /\ v \in {c.actor, c.payload}
    BY <1>1, <2>1, MemberKept
  <2>3. <<"membership", v>> \in EarlyRows(c)
    BY <2>2 DEF EarlyRows, ChannelMemberKinds
  <2> QED BY <1>2, <1>4, <2>3
<1>5. ASSUME NEW v \in Users, Covers(tx[t].held, <<"authorization", v>>) PROVE grants'[v] = grants[v]
  <2>1. SUFFICES ASSUME grants'[v] # grants[v] PROVE FALSE
    OBVIOUS
  <2>2. c.kind \in AuthorizationKinds /\ v = c.target
    BY <1>1, <2>1, GrantsKept
  <2>3. <<"authorization", v>> \in LateRows(c)
    BY <2>2 DEF LateRows, ProjectMemberKinds, AuthorizationKinds
  <2> QED BY <1>2, <1>5, <2>3
<1>6. ASSUME Covers(tx[t].held, <<"project">>)
      PROVE  /\ \A i \in DOMAIN channels : channels'[i] = channels[i]
             /\ \A i \in DOMAIN threads : threads'[i] = threads[i]
  <2>1. c.kind \in ChannelMemberKinds \cup {"project.member.remove"} => <<"project">> \in EarlyRows(c)
    BY DEF EarlyRows, ChannelMemberKinds
  <2>2. c.kind \notin ChannelMemberKinds \cup {"project.member.remove"}
    BY <1>2, <1>6, <2>1
  <2> QED BY <1>1, <2>2, RoomsKept
<1> QED BY <1>3, <1>4, <1>5, <1>6

\* The rows a transaction will write stay held or still to be locked.
LEMMA WritesKept ==
    ASSUME Shapes, TxShapes, WritesOK, [Next]_vars
    PROVE  WritesOK'
<1> DEFINE Has(c, locks, late, keys) ==
        /\ \/ \A row \in EarlyRows(c) : Updates(locks, row)
           \/ c.kind = "workspace.owner.transfer" /\ Key(c) \in keys
        /\ late => \A row \in LateRows(c) : Updates(locks, row)
<1>0. DOMAIN receipts \subseteq DOMAIN receipts'
  BY OneReceipt
<1>1. ASSUME NEW t \in Transactions, tx'[t] # None
      PROVE  Has(tx'[t].command, tx'[t].held \cup Elements(tx'[t].todo), tx'[t].claimed, DOMAIN receipts')
  <2>1. CASE Runs(t) /\ tx'[t] = tx[t]
    BY <1>0, <2>1 DEF WritesOK
  <2>2. CASE \E c \in menu : Begin(t, c) /\ tx'[t] = Begun(c)
    <3>1. PICK c \in menu : Begin(t, c) /\ tx'[t] = Begun(c)
      BY <2>2
    <3>2. WellFormed(c)
      BY CommandsAssumption DEF Shapes
    <3>3. \/ \A row \in EarlyRows(c) : Updates(Elements(Before(c)), row)
          \/ c.kind = "workspace.owner.transfer" /\ Key(c) \in DOMAIN receipts
      BY <3>2, BeforeWrites
    <3>4. {} \cup Elements(Before(c)) = Elements(Before(c))
      OBVIOUS
    <3>5. /\ tx'[t].command = c /\ tx'[t].held = {} /\ tx'[t].todo = Before(c) /\ ~tx'[t].claimed
      BY <3>1 DEF Begun
    <3> QED BY <1>0, <3>3, <3>4, <3>5
  <2>3. CASE Runs(t) /\ Acquire(t) /\ tx'[t] = Acquired(t)
    <3>1. /\ tx'[t].command = tx[t].command /\ tx'[t].claimed = tx[t].claimed
          /\ tx'[t].held = tx[t].held \cup {Head(tx[t].todo)} /\ tx'[t].todo = Tail(tx[t].todo)
      BY <2>3 DEF Acquired
    <3>2. Elements(tx[t].todo) = {Head(tx[t].todo)} \cup Elements(Tail(tx[t].todo))
      BY <2>3, Shortened DEF Elements, TxShapes, Acquire
    <3>3. tx'[t].held \cup Elements(tx'[t].todo) = tx[t].held \cup Elements(tx[t].todo)
      <4> HIDE DEF Has
      <4> QED BY <3>1, <3>2
    <3>4. Has(tx[t].command, tx[t].held \cup Elements(tx[t].todo), tx[t].claimed, DOMAIN receipts)
      BY <2>3 DEF WritesOK
    <3> QED BY <1>0, <3>1, <3>3, <3>4
  <2>4. CASE Runs(t) /\ Claim(t) /\ tx'[t] = Claimed(t)
    <3>1. /\ tx'[t].command = tx[t].command /\ tx'[t].claimed
          /\ tx'[t].held = tx[t].held /\ tx'[t].todo = After(tx[t].command)
      BY <2>4 DEF Claimed
    <3>2. WellFormed(tx[t].command)
      BY <2>4, CommandsAssumption DEF Shapes, TxShapes
    <3>3. \A row \in LateRows(tx[t].command) : Updates(Elements(After(tx[t].command)), row)
      BY <3>2, AfterFacts
    <3>4. tx[t].held \cup Elements(tx[t].todo) = tx[t].held
      BY <2>4 DEF Claim, Elements
    <3>5. \/ \A row \in EarlyRows(tx[t].command) : Updates(tx[t].held, row)
          \/ tx[t].command.kind = "workspace.owner.transfer" /\ Key(tx[t].command) \in DOMAIN receipts
      BY <2>4, <3>4 DEF WritesOK
    <3> QED BY <1>0, <3>1, <3>3, <3>5 DEF Updates
  <2> HIDE DEF Has
  <2> QED BY <1>1, <2>1, <2>2, <2>3, <2>4, After1
<1> QED BY <1>1 DEF WritesOK, Runs

\* What was admitted under its guards stays admitted while somebody else commits.
LEMMA AdmittedStays ==
    ASSUME Shapes, TxShapes, ClaimsOK, LocksOK, WritesOK,
           NEW t \in Transactions, Runs(t), NEW u \in Transactions, Commit(u), t # u,
           NEW c, WellFormed(c), Targeted(c), c.kind # "workspace.owner.transfer",
           Admitted(c), Guarded(c, tx[t].held)
    PROVE  Admitted(c)'
<1> USE DEF RepositoryKinds, AuthorizationKinds, ChannelMemberKinds, ProjectMemberKinds
<1>0. PICK d : d = tx[u].command
  OBVIOUS
<1>1. Good(d)
  BY <1>0, CommitFacts
<1>2. c.actor \in Users
  BY DEF WellFormed
<1>3. CASE c.kind \in RepositoryKinds \cup AuthorizationKinds
  <2>1. Guards(c) = {<<"membership", c.actor>>}
    BY <1>3 DEF Guards
  <2>2. member'[c.actor] = member[c.actor]
    BY <1>2, <2>1, Protected DEF Guarded
  <2>3. Permitted(c) = member[c.actor].owner /\ Permitted(c)' = member'[c.actor].owner
    BY <1>3 DEF Permitted
  <2> QED BY <1>3, <2>2, <2>3 DEF Admitted
<1>4. CASE c.kind = "deployment.record"
  <2>1. Guards(c) = {<<"authorization", c.actor>>}
    BY <1>4 DEF Guards
  <2>2. grants'[c.actor] = grants[c.actor]
    BY <1>2, <2>1, Protected DEF Guarded
  <2>3. Permitted(c) = grants[c.actor].active /\ Permitted(c)' = grants'[c.actor].active
    BY <1>4 DEF Permitted
  <2> QED BY <1>4, <2>2, <2>3 DEF Admitted
<1>5. CASE c.kind \in ChannelMemberKinds \cup {"message.create", "thread.start"}
  <2>1. Guards(c) = {<<"role", c.actor>>, <<"project">>}
    BY <1>5 DEF Guards
  <2>2. Covers(tx[t].held, <<"role", c.actor>>) /\ Covers(tx[t].held, <<"project">>)
    BY <2>1 DEF Guarded
  <2>3. role'[c.actor] = role[c.actor]
    BY <1>2, <2>2, Protected
  <2>4. /\ \A i \in DOMAIN channels : channels'[i] = channels[i]
        /\ \A i \in DOMAIN threads : threads'[i] = threads[i]
    BY <2>2, Protected
  <2>5. \A i \in DOMAIN messages : messages'[i] = messages[i]
    BY <1>1, MessagesKept
  <2>6. c.kind = "thread.start" => c.target \in DOMAIN messages
    BY TargetedFacts
  <2>7. RoomOf(c)' = RoomOf(c)
    BY <2>5, <2>6 DEF RoomOf
  <2>8. RoomOf(c) \in DOMAIN channels
    <3>1. c.kind \in ChannelMemberKinds => RoomOf(c) \in DOMAIN channels
      BY TargetedFacts
    <3>2. c.kind = "message.create" => RoomOf(c) = c.target /\ c.target \in DOMAIN channels
      BY TargetedFacts DEF RoomOf
    <3>3. c.kind = "thread.start" => RoomOf(c) \in DOMAIN channels
      BY <2>6 DEF RoomOf, Shapes
    <3> QED BY <1>5, <3>1, <3>2, <3>3
  <2>9. channels[RoomOf(c)]' = channels[RoomOf(c)]
    BY <2>4, <2>7, <2>8
  <2>10. Permitted(c) => Permitted(c)'
    <3>1. CASE c.kind \in ChannelMemberKinds
      BY <2>3, <2>9, <3>1 DEF Permitted
    <3>2. CASE c.kind \in {"message.create", "thread.start"}
      BY <2>3, <2>9, <3>2 DEF Permitted, Contributes
    <3> QED BY <1>5, <3>1, <3>2
  <2>11. c.kind = "thread.start" => MayRead(c.actor, messages[c.target].thread)'
    BY <2>4, <2>5, <2>6 DEF MayRead, Shapes, Admitted
  <2> QED BY <1>5, <2>10, <2>11 DEF Admitted
<1>6. CASE c.kind \notin RepositoryKinds \cup AuthorizationKinds \cup {"deployment.record"}
                         \cup ChannelMemberKinds \cup {"message.create", "thread.start"}
  <2>1. Guards(c) = {<<"role", c.actor>>}
    BY <1>6 DEF Guards
  <2>2. role'[c.actor] = role[c.actor]
    BY <1>2, <2>1, Protected DEF Guarded
  <2>3. Permitted(c) => Permitted(c)'
    BY <1>6, <2>2 DEF Permitted, Contributes
  <2>4. c.kind = "ticket.create" => decisions'[c.target].status = "accepted"
    BY <1>1, DecisionsKept, TargetedFacts DEF Admitted
  <2> QED BY <1>6, <2>3, <2>4 DEF Admitted
<1> QED BY <1>3, <1>4, <1>5, <1>6

\* A permission once checked lasts to the end of the transaction.
LEMMA PermissionKept ==
    ASSUME Shapes, TxShapes, ClaimsOK, LocksOK, WritesOK, PermissionOK, [Next]_vars
    PROVE  PermissionOK'
<1> DEFINE Coming(c, held, todo, claimed) ==
        /\ ~claimed
        /\ \E i \in DOMAIN todo :
               todo[i].check /\ Guarded(c, held \cup {todo[j] : j \in 1..i})
<1>0. \A c \in menu : WellFormed(c)
  BY CommandsAssumption DEF Shapes
<1>1. ASSUME NEW t \in Transactions, tx'[t] # None, NEW c, c = tx'[t].command,
             c.kind # "workspace.owner.transfer"
      PROVE  \/ Coming(c, tx'[t].held, tx'[t].todo, tx'[t].claimed)
             \/ Admitted(c)' /\ Guarded(c, tx'[t].held)
  <2>1. CASE Runs(t) /\ tx'[t] = tx[t]
    <3>0. WellFormed(c) /\ Targeted(c)
      BY <1>0, <1>1, <2>1 DEF TxShapes
    <3>1. CASE Checking(t)
      BY <1>1, <2>1, <3>1 DEF Checking
    <3>2. CASE Entitled(t)
      <4>1. Admitted(c) /\ Guarded(c, tx[t].held)
        BY <1>1, <2>1, <3>2 DEF Entitled
      <4>2. ASSUME NEW u \in Transactions, Commit(u) PROVE Admitted(c)'
        <5>1. t # u
          BY <1>1, <4>2, CommitFacts
        <5> QED BY <1>1, <2>1, <3>0, <4>1, <4>2, <5>1, AdmittedStays
      <4>3. ASSUME \A u \in Transactions : ~Commit(u) PROVE Admitted(c)'
        <5>1. UNCHANGED <<role, member, grants, decisions, channels, threads, messages>>
          BY <4>3, OnlyCommitsWrite DEF entities, talk, delivery
        <5>2. Admitted(c)' = Admitted(c)
          BY <5>1 DEF Admitted, Permitted, Contributes, MayRead, RoomOf
        <5> QED BY <4>1, <5>2
      <4>4. Admitted(c)'
        BY <4>1, <4>2, <4>3
      <4> HIDE DEF Coming
      <4> QED BY <2>1, <4>1, <4>4
    <3> QED BY <1>1, <2>1, <3>1, <3>2 DEF PermissionOK
  <2>2. CASE \E d \in menu : Begin(t, d) /\ tx'[t] = Begun(d)
    <3>1. /\ c \in menu /\ tx'[t].held = {} /\ tx'[t].todo = Before(c) /\ ~tx'[t].claimed
      BY <1>1, <2>2 DEF Begun
    <3>2. Guarding(c, Before(c))
      BY <1>0, <1>1, <3>1, BeforeGuards
    <3>3. PICK i \in DOMAIN Before(c) : Before(c)[i].check /\ Guarded(c, {Before(c)[j] : j \in 1..i})
      BY <3>2 DEF Guarding
    <3>4. {} \cup {Before(c)[j] : j \in 1..i} = {Before(c)[j] : j \in 1..i}
      OBVIOUS
    <3>5. /\ i \in DOMAIN tx'[t].todo /\ tx'[t].todo[i].check
          /\ Guarded(c, tx'[t].held \cup {tx'[t].todo[j] : j \in 1..i})
      BY <3>1, <3>3, <3>4
    <3> QED BY <3>1, <3>5
  <2>3. CASE Runs(t) /\ Acquire(t) /\ tx'[t] = Acquired(t)
    <3>1. /\ c = tx[t].command /\ tx'[t].claimed = tx[t].claimed
          /\ tx'[t].held = tx[t].held \cup {Head(tx[t].todo)} /\ tx'[t].todo = Tail(tx[t].todo)
      BY <1>1, <2>3 DEF Acquired
    <3>2. UNCHANGED <<role, member, grants, decisions, channels, threads, messages>>
      BY <2>3 DEF Acquire, entities, talk, delivery
    <3>3. Admitted(c)' = Admitted(c)
      BY <3>2 DEF Admitted, Permitted, Contributes, MayRead, RoomOf
    <3>4. CASE Entitled(t)
      <4>1. Admitted(c) /\ Guarded(c, tx[t].held)
        BY <3>1, <3>4 DEF Entitled
      <4>2. Guarded(c, tx'[t].held)
        BY <3>1, <4>1 DEF Guarded, Covers
      <4> HIDE DEF Coming
      <4> QED BY <3>3, <4>1, <4>2
    <3>5. CASE Checking(t)
      <4> DEFINE todo == tx[t].todo
                 rest == Tail(tx[t].todo)
      <4>0. ~tx[t].claimed
        BY <3>5 DEF Checking
      <4>1. PICK i \in DOMAIN todo :
                todo[i].check /\ Guarded(c, tx[t].held \cup {todo[j] : j \in 1..i})
        BY <3>1, <3>5 DEF Checking
      <4>2. /\ Sequence(todo) /\ Sequence(rest) /\ Len(rest) = Len(todo) - 1
            /\ Head(todo) = todo[1] /\ DOMAIN rest = 1..(Len(todo) - 1)
            /\ \A j \in DOMAIN rest : rest[j] = todo[j + 1]
        BY <2>3, Shortened DEF TxShapes, Acquire
      <4>3. Len(todo) \in Nat /\ DOMAIN todo = 1..Len(todo)
        BY <4>2, SequenceDomain
      <4>4. Head(todo).check => Passes(t)
        BY <2>3 DEF Acquire
      <4> HIDE DEF todo, rest
      <4>5. CASE i = 1
        <5>1. Admitted(c)
          BY <3>1, <4>0, <4>1, <4>2, <4>4, <4>5 DEF Passes
        <5>2. tx[t].held \cup {todo[j] : j \in 1..i} = tx'[t].held
          <6>1. {todo[j] : j \in 1..1} = {todo[1]}
            OBVIOUS
          <6> QED BY <3>1, <4>2, <4>5, <6>1 DEF todo
        <5> QED BY <3>3, <4>1, <5>1, <5>2
      <4>6. CASE i # 1
        <5>1. i \in Nat /\ i - 1 \in DOMAIN rest /\ rest[i - 1] = todo[i]
          BY <4>2, <4>3, <4>6
        <5>2. {todo[j] : j \in 1..i} = {todo[1]} \cup {rest[j] : j \in 1..(i - 1)}
          <6>1. ASSUME NEW j \in 1..i PROVE todo[j] \in {todo[1]} \cup {rest[m] : m \in 1..(i - 1)}
            <7>1. CASE j = 1
              BY <7>1
            <7>2. CASE j # 1
              <8>1. j - 1 \in 1..(i - 1) /\ rest[j - 1] = todo[j]
                BY <4>2, <4>3, <5>1, <6>1, <7>2
              <8> QED BY <8>1
            <7> QED BY <7>1, <7>2
          <6>2. ASSUME NEW j \in 1..(i - 1) PROVE rest[j] \in {todo[m] : m \in 1..i}
            <7>1. j + 1 \in 1..i /\ rest[j] = todo[j + 1]
              BY <4>2, <4>3, <5>1, <6>2
            <7> QED BY <7>1
          <6>3. 1 \in 1..i
            BY <5>1, <4>3
          <6> QED BY <6>1, <6>2, <6>3
        <5>3. tx[t].held \cup {todo[j] : j \in 1..i} = tx'[t].held \cup {rest[j] : j \in 1..(i - 1)}
          BY <3>1, <4>2, <5>2 DEF todo
        <5>4. tx'[t].todo = rest
          BY <3>1 DEF rest
        <5>5. rest[i - 1].check /\ Guarded(c, tx'[t].held \cup {rest[j] : j \in 1..(i - 1)})
          BY <4>1, <5>1, <5>3
        <5>6. /\ i - 1 \in DOMAIN tx'[t].todo /\ tx'[t].todo[i - 1].check
              /\ Guarded(c, tx'[t].held \cup {tx'[t].todo[j] : j \in 1..(i - 1)})
          BY <5>1, <5>4, <5>5
        <5> QED BY <3>1, <4>0, <5>6
      <4> QED BY <4>5, <4>6
    <3>6. Checking(t) \/ Entitled(t)
      BY <1>1, <2>3, <3>1 DEF PermissionOK
    <3> HIDE DEF Coming
    <3> QED BY <3>4, <3>5, <3>6
  <2>4. CASE Runs(t) /\ Claim(t) /\ tx'[t] = Claimed(t)
    <3>1. c = tx[t].command /\ tx'[t].held = tx[t].held /\ tx[t].todo = <<>>
      BY <1>1, <2>4 DEF Claimed, Claim
    <3>2. ~Checking(t)
      BY <3>1 DEF Checking
    <3>3. Entitled(t)
      BY <1>1, <2>4, <3>1, <3>2 DEF PermissionOK
    <3>4. UNCHANGED <<role, member, grants, decisions, channels, threads, messages>>
      BY <2>4 DEF Claim, entities, talk, delivery
    <3>5. Admitted(c)' = Admitted(c)
      BY <3>4 DEF Admitted, Permitted, Contributes, MayRead, RoomOf
    <3>6. Admitted(c) /\ Guarded(c, tx'[t].held)
      BY <3>1, <3>3 DEF Entitled
    <3> HIDE DEF Coming
    <3> QED BY <3>5, <3>6
  <2> HIDE DEF Coming
  <2> QED BY <1>1, <2>1, <2>2, <2>3, <2>4, After1
<1>2. ASSUME NEW t \in Transactions, tx'[t] # None, tx'[t].command.kind # "workspace.owner.transfer"
      PROVE  (Checking(t) \/ Entitled(t))'
  <2>1. PICK c : c = tx'[t].command
    OBVIOUS
  <2>2. CASE Coming(c, tx'[t].held, tx'[t].todo, tx'[t].claimed)
    BY <2>1, <2>2 DEF Checking, Guarded
  <2>3. CASE Admitted(c)' /\ Guarded(c, tx'[t].held)
    BY <2>1, <2>3 DEF Entitled, Guarded
  <2> QED BY <1>1, <1>2, <2>1, <2>2, <2>3
<1> QED BY <1>2 DEF PermissionOK, Runs

\* With nothing left to lock the permission of a command holds.
LEMMA EntitledAtEnd ==
    ASSUME PermissionOK, NEW t \in Transactions, Runs(t), tx[t].todo = <<>>,
           tx[t].command.kind # "workspace.owner.transfer"
    PROVE  Admitted(tx[t].command)
<1>1. ~Checking(t)
  BY DEF Checking
<1>2. Entitled(t)
  BY <1>1 DEF PermissionOK
<1> QED BY <1>2 DEF Entitled

\* Deployments name authorizations that were granted.
LEMMA DeploymentsOKKept ==
    ASSUME Shapes, TxShapes, PermissionOK, DeploymentsOK, [Next]_vars
    PROVE  DeploymentsOK'
<1>1. CASE \A t \in Transactions : ~Commit(t)
  <2>1. UNCHANGED <<grants, deployments>>
    BY <1>1, OnlyCommitsWrite DEF entities, delivery
  <2> QED BY <2>1 DEF DeploymentsOK
<1>2. ASSUME NEW t \in Transactions, Commit(t) PROVE DeploymentsOK'
  <2>0. PICK c : c = tx[t].command
    OBVIOUS
  <2>1. Good(c) /\ Runs(t) /\ tx[t].todo = <<>>
    BY <1>2, <2>0, CommitFacts
  <2>2. \A u \in Users : grants'[u].active => grants'[u].generation >= 1
    BY <2>1, GrantsKept DEF DeploymentsOK
  <2>3. \A u \in Users : /\ grants[u].generation \in Nat /\ grants'[u].generation \in Nat
                         /\ grants'[u].generation >= grants[u].generation
    <3>1. \A u \in Users : grants'[u].generation >= grants[u].generation
      BY <2>1, GrantsKept
    <3>2. grants' \in [Users -> [generation : Nat, active : BOOLEAN]]
      BY <2>1, GrantsKept
    <3> QED BY <3>1, <3>2 DEF Shapes
  <2>4. \A i \in DOMAIN deployments :
            /\ deployments[i].by \in Users
            /\ deployments[i].generation \in 1..grants'[deployments[i].by].generation
    BY <2>3 DEF DeploymentsOK
  <2>5. CASE deployments' = deployments
    BY <2>2, <2>4, <2>5 DEF DeploymentsOK
  <2>6. CASE RecordStagingDeployment(c)
    <3> DEFINE new == [run |-> c.target, by |-> c.actor, generation |-> grants[c.actor].generation]
    <3>1. /\ c.kind = "deployment.record" /\ deployments' = Append(deployments, new) /\ grants' = grants
      BY <2>6 DEF RecordStagingDeployment
    <3>2. c.actor \in Users
      BY <2>1 DEF Good, WellFormed
    <3>3. Admitted(c)
      BY <2>0, <2>1, <3>1, EntitledAtEnd
    <3>4. grants[c.actor].active
      BY <3>1, <3>3 DEF Admitted, Permitted, RepositoryKinds, AuthorizationKinds, ProjectMemberKinds,
                        ChannelMemberKinds
    <3>5. grants[c.actor].generation \in Nat /\ grants[c.actor].generation >= 1
      BY <2>3, <3>2, <3>4 DEF DeploymentsOK
    <3>6. new.by \in Users /\ new.generation \in 1..grants[new.by].generation
      BY <3>2, <3>5
    <3>7. Sequence(deployments)
      BY DEF Shapes
    <3> HIDE DEF new
    <3>8. \A i \in DOMAIN deployments' :
              deployments'[i].by \in Users /\ deployments'[i].generation \in 1..grants'[deployments'[i].by].generation
      BY <2>4, <3>1, <3>6, <3>7, Appended
    <3> QED BY <2>2, <3>8 DEF DeploymentsOK
  <2> QED BY <2>1, <2>5, <2>6, Writers DEF Good
<1> QED BY <1>1, <1>2

-----------------------------------------------------------------------------
(* What the journal says *)

\* The entry a command has just written.
Noted == journal'[Len(journal) + 1]

\* The fields of the new entry.
LEMMA NotedFacts ==
    ASSUME Shapes, NEW c, NEW id, NEW revision, NEW from, NEW to, Record(c, id, revision, from, to)
    PROVE  /\ Noted.key = Key(c) /\ Noted.kind = c.kind /\ Noted.id = id /\ Noted.revision = revision
           /\ Noted.from = from /\ Noted.to = to /\ Noted.payload = c.payload /\ Noted.base = c.base
BY Journaled, EntryFacts DEF Noted

\* What each effect notes of the commands the properties speak of.
LEMMA Noting ==
    ASSUME Shapes, NEW c, Good(c)
    PROVE  /\ Noted.key = Key(c) /\ Noted.kind = c.kind
           /\ Noted.payload = c.payload /\ Noted.base = c.base
           /\ CreateDocument(c) =>
                  Noted.id = Len(docs) + 1 /\ Noted.revision = 1 /\ Noted.to = c.payload
           /\ ReviseDocument(c) =>
                  /\ Noted.id = c.target /\ Noted.revision = Len(docs[c.target]) + 1
                  /\ Noted.to = IF c.kind = "document.save" THEN c.payload
                                ELSE docs[c.target][c.payload]
           /\ ChangeTicketStatus(c) =>
                  /\ Noted.id = c.target /\ Noted.revision = c.base + 1
                  /\ Noted.from = tickets[c.target].status /\ Noted.to = c.payload
           /\ AcceptDecision(c) => Noted.id = c.target
           /\ CreateMessage(c) => Noted.id = Len(messages) + 1
           /\ CreateChannel(c) => Noted.id = Len(channels) + 1
           /\ AuthorizeEnvironment(c) => Noted.id = c.target /\ Noted.to = grants'[c.target]
<1>1. /\ Noted.key = Key(c) /\ Noted.kind = c.kind
      /\ Noted.payload = c.payload /\ Noted.base = c.base
  <2>1. PICK id, revision, from, to : Record(c, id, revision, from, to)
    BY Writers DEF Good
  <2> QED BY <2>1, NotedFacts
<1>2. CreateDocument(c) => Noted.id = Len(docs) + 1 /\ Noted.revision = 1 /\ Noted.to = c.payload
  BY NotedFacts DEF CreateDocument
<1>3. ReviseDocument(c) =>
          /\ Noted.id = c.target /\ Noted.revision = Len(docs[c.target]) + 1
          /\ Noted.to = IF c.kind = "document.save" THEN c.payload ELSE docs[c.target][c.payload]
  BY NotedFacts DEF ReviseDocument
<1>4. ChangeTicketStatus(c) =>
          /\ Noted.id = c.target /\ Noted.revision = c.base + 1
          /\ Noted.from = tickets[c.target].status /\ Noted.to = c.payload
  BY NotedFacts DEF ChangeTicketStatus
<1>5. AcceptDecision(c) => Noted.id = c.target
  BY NotedFacts DEF AcceptDecision
<1>6. CreateMessage(c) => Noted.id = Len(messages) + 1
  BY NotedFacts DEF CreateMessage
<1>7. CreateChannel(c) => Noted.id = Len(channels) + 1
  BY NotedFacts DEF CreateChannel
<1>8. AuthorizeEnvironment(c) => Noted.id = c.target /\ Noted.to = grants'[c.target]
  <2>1. SUFFICES ASSUME AuthorizeEnvironment(c) PROVE Noted.id = c.target /\ Noted.to = grants'[c.target]
    OBVIOUS
  <2>2. PICK new : grants' = [grants EXCEPT ![c.target] = new] /\ Record(c, c.target, 0, grants[c.target], new)
    BY <2>1 DEF AuthorizeEnvironment
  <2>3. c.target \in Users /\ DOMAIN grants = Users
    BY <2>1 DEF AuthorizeEnvironment, Good, WellFormed, Shapes
  <2> QED BY <2>2, <2>3, NotedFacts
<1> QED BY <1>1, <1>2, <1>3, <1>4, <1>5, <1>6, <1>7, <1>8

\* The effect of each kind of command.
LEMMA KindOfEffect ==
    ASSUME NEW c, Effect(c)
    PROVE  /\ c.kind = "document.create" => CreateDocument(c)
           /\ c.kind \in {"document.save", "document.restore"} => ReviseDocument(c)
           /\ c.kind = "ticket.status.change" => ChangeTicketStatus(c)
           /\ c.kind = "decision.accept" => AcceptDecision(c)
           /\ c.kind = "ticket.create" => CreateTicket(c)
           /\ c.kind = "message.create" => CreateMessage(c)
           /\ c.kind = "channel.create" => CreateChannel(c)
           /\ c.kind \in AuthorizationKinds => AuthorizeEnvironment(c)
<1> USE DEF UnlinkKinds, TicketComponentKinds, RepositoryKinds, ChannelMemberKinds, AuthorizationKinds
<1>1. /\ CreateDocument(c) => c.kind = "document.create"
      /\ ReviseDocument(c) => c.kind \in {"document.save", "document.restore"}
      /\ ChangeTicketStatus(c) => c.kind = "ticket.status.change"
      /\ ProposeDecision(c) => c.kind = "decision.propose"
      /\ AcceptDecision(c) => c.kind = "decision.accept"
      /\ CreateTicket(c) => c.kind = "ticket.create"
      /\ LinkComponent(c) => c.kind \in TicketComponentKinds \cup RepositoryKinds
      /\ UnlinkComponent(c) => c.kind \in UnlinkKinds
      /\ SetProjectMember(c) => c.kind = "project.member.set"
      /\ TransferOwner(c) => c.kind = "workspace.owner.transfer"
      /\ RemoveProjectMember(c) => c.kind = "project.member.remove"
      /\ SetChannelMember(c) => c.kind \in ChannelMemberKinds
      /\ CreateChannel(c) => c.kind = "channel.create"
      /\ CreateMessage(c) => c.kind = "message.create"
      /\ StartThreadFromMessage(c) => c.kind = "thread.start"
      /\ AuthorizeEnvironment(c) => c.kind \in AuthorizationKinds
      /\ RecordStagingDeployment(c) => c.kind = "deployment.record"
  BY DEF CreateDocument, ReviseDocument, ChangeTicketStatus, ProposeDecision, AcceptDecision,
         CreateTicket, LinkComponent, UnlinkComponent, SetProjectMember, TransferOwner,
         RemoveProjectMember, SetChannelMember, CreateChannel, CreateMessage,
         StartThreadFromMessage, AuthorizeEnvironment, RecordStagingDeployment
<1> QED BY <1>1 DEF Effect

\* A commit adds one entry and leaves the others.
LEMMA OneEntry ==
    ASSUME Shapes, NEW c, Good(c)
    PROVE  /\ DOMAIN journal' = DOMAIN journal \cup {Len(journal) + 1}
           /\ journal'[Len(journal) + 1] = Noted
           /\ \A i \in DOMAIN journal : journal'[i] = journal[i]
<1>1. PICK id, revision, from, to : Record(c, id, revision, from, to)
  BY Writers DEF Good
<1>2. /\ DOMAIN journal' = DOMAIN journal \cup {Len(journal) + 1}
      /\ \A i \in DOMAIN journal : journal'[i] = journal[i]
  BY <1>1, Journaled
<1> QED BY <1>2 DEF Noted

\* What one entry refers to.
Refers(e) ==
    /\ e.kind = "ticket.status.change" =>
           e.id = e.key[3] /\ e.id \in DOMAIN tickets /\ e.revision \in 2..tickets[e.id].revision
    /\ e.kind \in DocumentKinds =>
           /\ e.id \in DOMAIN docs /\ e.revision \in 1..Len(docs[e.id])
           /\ e.kind = "document.restore" => e.payload \in 1..Len(docs[e.id])
    /\ e.kind = "decision.accept" => e.id \in DOMAIN decisions
    /\ e.kind = "ticket.create" => e.key[3] \in DOMAIN decisions
    /\ e.kind = "message.create" => e.id \in DOMAIN messages
    /\ e.kind = "channel.create" => e.id \in DOMAIN channels

\* Journal entries go on naming what is there.
LEMMA JournalKept ==
    ASSUME Shapes, TxShapes, JournalOK, [Next]_vars
    PROVE  JournalOK'
<1>0. JournalOK = \A i \in DOMAIN journal : Refers(journal[i])
  BY DEF JournalOK, Refers
<1>00. JournalOK' = \A i \in DOMAIN journal' : Refers(journal[i])'
  BY DEF JournalOK, Refers
<1>1. CASE \A t \in Transactions : ~Commit(t)
  <2>1. UNCHANGED <<journal, tickets, docs, decisions, messages, channels>>
    BY <1>1, OnlyCommitsWrite DEF entities, talk
  <2> QED BY <2>1 DEF JournalOK
<1>2. ASSUME NEW t \in Transactions, Commit(t) PROVE JournalOK'
  <2>0. PICK c : c = tx[t].command
    OBVIOUS
  <2>1. Good(c)
    BY <1>2, <2>0, CommitFacts
  <2>2. /\ DOMAIN tickets \subseteq DOMAIN tickets' /\ DOMAIN docs \subseteq DOMAIN docs'
        /\ DOMAIN decisions \subseteq DOMAIN decisions' /\ DOMAIN messages \subseteq DOMAIN messages'
        /\ DOMAIN channels \subseteq DOMAIN channels'
    BY <2>1, TicketsKept, DocsKept, DecisionsKept, MessagesKept, RoomsKept
  <2>3. \A k \in DOMAIN tickets :
            /\ tickets[k].revision \in Nat /\ tickets'[k].revision \in Nat
            /\ tickets'[k].revision >= tickets[k].revision
    <3>1. \A k \in DOMAIN tickets : tickets'[k].revision >= tickets[k].revision
      BY <2>1, TicketsKept
    <3>2. \A k \in DOMAIN tickets' : tickets'[k] \in [status : Statuses, revision : 1..MaxRevision]
      BY <2>1, TicketsKept
    <3> QED BY <2>2, <3>1, <3>2, CommandsAssumption DEF Shapes
  <2>4. \A d \in DOMAIN docs :
            /\ Len(docs[d]) \in Nat /\ Len(docs'[d]) \in Nat /\ Len(docs'[d]) >= Len(docs[d])
    <3>1. \A d \in DOMAIN docs : Len(docs'[d]) >= Len(docs[d])
      BY <2>1, DocsKept
    <3>2. \A d \in DOMAIN docs' : Len(docs'[d]) \in 1..MaxRevision
      BY <2>1, DocsKept
    <3> QED BY <2>2, <3>1, <3>2, CommandsAssumption DEF Shapes
  <2>5. ASSUME NEW e, Refers(e) PROVE Refers(e)'
    <3>1. e.kind = "ticket.status.change" =>
              e.id = e.key[3] /\ e.id \in DOMAIN tickets' /\ e.revision \in 2..tickets'[e.id].revision
      BY <2>2, <2>3, <2>5 DEF Refers
    <3>2. e.kind \in DocumentKinds =>
              /\ e.id \in DOMAIN docs' /\ e.revision \in 1..Len(docs'[e.id])
              /\ e.kind = "document.restore" => e.payload \in 1..Len(docs'[e.id])
      BY <2>2, <2>4, <2>5 DEF Refers
    <3> QED BY <2>2, <2>5, <3>1, <3>2 DEF Refers
  <2>6. PICK e : e = Noted
    OBVIOUS
  <2>7. e.kind = c.kind /\ e.key = Key(c) /\ e.payload = c.payload
    BY <2>1, <2>6, Noting
  <2>8. e.kind = "ticket.status.change" =>
            e.id = e.key[3] /\ e.id \in DOMAIN tickets' /\ e.revision \in 2..tickets'[e.id].revision
    <3>1. SUFFICES ASSUME c.kind = "ticket.status.change"
                   PROVE  e.id = e.key[3] /\ e.id \in DOMAIN tickets'
                          /\ e.revision \in 2..tickets'[e.id].revision
      BY <2>7
    <3>2. ChangeTicketStatus(c)
      BY <2>1, <3>1, KindOfEffect DEF Good
    <3>3. e.id = c.target /\ e.revision = c.base + 1 /\ c.target \in DOMAIN tickets
      BY <2>1, <2>6, <3>1, <3>2, Noting, TargetedFacts DEF Good
    <3>4. e.key[3] = c.target
      BY <2>7, <3>1 DEF Key
    <3>5. c.base = tickets[c.target].revision /\ c.base \in Nat /\ c.base >= 1
      BY <2>1, <3>1, <3>3, ValidFacts DEF Good, StatusValid, Shapes
    <3>6. tickets'[c.target].revision = c.base + 1
      BY <3>2, <3>3 DEF ChangeTicketStatus
    <3> QED BY <2>2, <3>3, <3>4, <3>5, <3>6
  <2>9. e.kind \in DocumentKinds =>
            /\ e.id \in DOMAIN docs' /\ e.revision \in 1..Len(docs'[e.id])
            /\ e.kind = "document.restore" => e.payload \in 1..Len(docs'[e.id])
    <3>1. CASE c.kind = "document.create"
      <4>1. CreateDocument(c)
        BY <2>1, <3>1, KindOfEffect DEF Good
      <4>2. e.id = Len(docs) + 1 /\ e.revision = 1
        BY <2>1, <2>6, <4>1, Noting
      <4>3. Len(docs) + 1 \in DOMAIN docs'
        BY <4>1, Appended DEF CreateDocument, Shapes
      <4>4. Len(docs'[Len(docs) + 1]) \in 1..MaxRevision
        BY <2>1, <4>3, DocsKept
      <4> QED BY <2>7, <3>1, <4>2, <4>3, <4>4, CommandsAssumption
    <3>2. CASE c.kind \in {"document.save", "document.restore"}
      <4>1. ReviseDocument(c)
        BY <2>1, <3>2, KindOfEffect DEF Good
      <4>2. e.id = c.target /\ e.revision = Len(docs[c.target]) + 1 /\ c.target \in DOMAIN docs
        BY <2>1, <2>6, <3>2, <4>1, Noting, TargetedFacts DEF Good
      <4>3. PICK body : docs' = [docs EXCEPT ![c.target] = Append(@, body)]
        BY <4>1 DEF ReviseDocument
      <4>4. Sequence(docs[c.target])
        BY <4>2 DEF Shapes
      <4>5. docs'[c.target] = Append(docs[c.target], body)
        BY <4>2, <4>3
      <4>6. Len(docs'[c.target]) = Len(docs[c.target]) + 1
        BY <4>4, <4>5, Appended
      <4>7. c.kind = "document.restore" => c.payload \in 1..Len(docs[c.target])
        BY <2>1, <4>4, ValidFacts, SequenceDomain DEF Good
      <4> QED BY <2>2, <2>4, <2>7, <4>2, <4>6, <4>7
    <3> QED BY <2>7, <3>1, <3>2 DEF DocumentKinds
  <2>10. e.kind = "decision.accept" => e.id \in DOMAIN decisions'
    <3>1. SUFFICES ASSUME c.kind = "decision.accept" PROVE e.id \in DOMAIN decisions'
      BY <2>7
    <3>2. e.id = c.target
      BY <2>1, <2>6, <3>1, KindOfEffect, Noting DEF Good
    <3> QED BY <2>1, <2>2, <3>1, <3>2, TargetedFacts DEF Good
  <2>11. e.kind = "ticket.create" => e.key[3] \in DOMAIN decisions'
    <3>1. SUFFICES ASSUME c.kind = "ticket.create" PROVE e.key[3] \in DOMAIN decisions'
      BY <2>7
    <3>2. e.key[3] = c.target
      BY <2>7, <3>1 DEF Key
    <3> QED BY <2>1, <2>2, <3>1, <3>2, TargetedFacts DEF Good
  <2>12. e.kind = "message.create" => e.id \in DOMAIN messages'
    <3>1. SUFFICES ASSUME c.kind = "message.create" PROVE e.id \in DOMAIN messages'
      BY <2>7
    <3>2. CreateMessage(c)
      BY <2>1, <3>1, KindOfEffect DEF Good
    <3>3. e.id = Len(messages) + 1
      BY <2>1, <2>6, <3>2, Noting
    <3> QED BY <3>2, <3>3, Appended DEF CreateMessage, Shapes
  <2>13. e.kind = "channel.create" => e.id \in DOMAIN channels'
    <3>1. SUFFICES ASSUME c.kind = "channel.create" PROVE e.id \in DOMAIN channels'
      BY <2>7
    <3>2. CreateChannel(c)
      BY <2>1, <3>1, KindOfEffect DEF Good
    <3>3. e.id = Len(channels) + 1
      BY <2>1, <2>6, <3>2, Noting
    <3> QED BY <3>2, <3>3, Appended DEF CreateChannel, Shapes
  <2>14. Refers(e)'
    BY <2>8, <2>9, <2>10, <2>11, <2>12, <2>13 DEF Refers
  <2>15. ASSUME NEW i \in DOMAIN journal' PROVE Refers(journal[i])'
    <3>1. PICK d : d = journal'[i]
      OBVIOUS
    <3>2. d = e \/ Refers(d)
      BY <1>0, <2>1, <2>6, <3>1, OneEntry
    <3>3. Refers(d)'
      BY <2>5, <2>14, <3>2
    <3> QED BY <3>1, <3>3 DEF Refers
  <2> QED BY <1>00, <2>15
<1> QED BY <1>1, <1>2

-----------------------------------------------------------------------------
(* The inductive invariant *)

CommandsInv ==
    /\ Shapes /\ TxShapes /\ ClaimsOK /\ LocksOK /\ PermissionOK /\ WritesOK
    /\ ReceiptsOK /\ JournalOK /\ DeploymentsOK

\* The invariant holds at the start,
LEMMA CommandsInvStarts == Init => CommandsInv
<1> SUFFICES ASSUME Init PROVE CommandsInv
  OBVIOUS
<1>1. \A x : Sequence(<<x>>) /\ DOMAIN <<x>> = {1} /\ <<x>>[1] = x
  BY DEF Sequence, Elements
<1>2. Sequence(<<>>) /\ DOMAIN <<>> = {} /\ Len(<<>>) = 0
  BY DEF Sequence, Elements
<1>3. \A t \in Transactions : ~Runs(t)
  BY DEF Init, Runs
<1>4. Shapes
  <2>1. role \in [Users -> Roles]
    BY DEF Init, Roles
  <2>2. 1 \in 1..MaxRevision
    BY CommandsAssumption
  <2>3. member \in [Users -> [owner : BOOLEAN, revision : 1..MaxRevision]]
    BY <2>2 DEF Init
  <2>4. grants \in [Users -> [generation : Nat, active : BOOLEAN]]
    BY DEF Init
  <2>5. Sequence(tickets) /\ \A k \in DOMAIN tickets :
            tickets[k] \in [status : Statuses, revision : 1..MaxRevision]
    BY <1>1, <2>2 DEF Init, Statuses
  <2>6. Sequence(decisions) /\ \A d \in DOMAIN decisions :
            /\ decisions[d].status \in {"proposed", "accepted"}
            /\ (decisions[d].status = "accepted") = (decisions[d].outcome # None)
    BY <1>1 DEF Init
  <2>7. Sequence(channels) /\ DOMAIN channels = {1} /\ \A i \in DOMAIN channels : channels[i] \subseteq Users
    BY <1>1 DEF Init
  <2>8. Sequence(messages) /\ \A i \in DOMAIN messages :
            messages[i].channel \in DOMAIN channels /\ messages[i].thread \in {0} \cup DOMAIN threads
    BY <1>1, <2>7 DEF Init
  <2> QED BY <1>2, <2>1, <2>3, <2>4, <2>5, <2>6, <2>7, <2>8 DEF Init, Shapes
<1>5. TxShapes
  BY <1>3 DEF Init, TxShapes
<1>6. ClaimsOK /\ LocksOK /\ PermissionOK /\ WritesOK
  BY <1>3 DEF ClaimsOK, LocksOK, PermissionOK, WritesOK
<1>7. ReceiptsOK /\ JournalOK
  BY <1>2 DEF Init, ReceiptsOK, JournalOK
<1>8. DeploymentsOK
  BY <1>2 DEF Init, DeploymentsOK
<1> QED BY <1>4, <1>5, <1>6, <1>7, <1>8 DEF CommandsInv

\* and every step keeps it.
LEMMA CommandsInvStays == CommandsInv /\ [Next]_vars => CommandsInv'
<1> SUFFICES ASSUME CommandsInv, [Next]_vars PROVE CommandsInv'
  OBVIOUS
<1> USE DEF CommandsInv
<1>1. Shapes' /\ TxShapes'
  BY ShapesKept, TxShapesKept
<1>2. ClaimsOK' /\ LocksOK' /\ WritesOK'
  BY ClaimsKept, LocksKept, WritesKept
<1>3. PermissionOK'
  BY PermissionKept
<1>4. ReceiptsOK' /\ JournalOK' /\ DeploymentsOK'
  BY ReceiptsKept, JournalKept, DeploymentsOKKept
<1> QED BY <1>1, <1>2, <1>3, <1>4

\* Claims, locks, permissions, receipts and the journal stay as the code needs them.
THEOREM CommandsInvariant == Spec => []CommandsInv
BY CommandsInvStarts, CommandsInvStays, PTL DEF Spec

\* Every row has the form of its table, and receipts and running commands refer to
\* what is there.
THEOREM CommandsTypeOK == Spec => []TypeOK
<1>1. CommandsInv => TypeOK
  <2> SUFFICES ASSUME CommandsInv PROVE TypeOK
    OBVIOUS
  <2>1. \A k \in DOMAIN receipts : receipts[k].entry \in DOMAIN journal
    BY DEF CommandsInv, ReceiptsOK
  <2>2. \A t \in Transactions : tx[t] = None \/ tx[t].command \in menu
    BY DEF CommandsInv, TxShapes, Runs
  <2>3. \A i \in DOMAIN deployments :
            deployments[i].generation \in 1..grants[deployments[i].by].generation
    BY DEF CommandsInv, DeploymentsOK
  <2>4. \A i \in DOMAIN threads : threads[i].channel \in DOMAIN channels
    BY DEF CommandsInv, Shapes
  <2>5. \A i \in DOMAIN links : links[i].active \in BOOLEAN
    BY DEF CommandsInv, Shapes, LinkForm
  <2> QED BY <2>1, <2>2, <2>3, <2>4, <2>5 DEF TypeOK, CommandsInv, Shapes
<1> QED BY <1>1, CommandsInvariant, PTL

\* However often a command is sent, it takes effect once, and its receipt leads to
\* that effect.
THEOREM CommandsTakeEffectOnce == Spec => []OneEffect
<1>1. CommandsInv => OneEffect
  BY DEF CommandsInv, ReceiptsOK, OneEffect
<1> QED BY <1>1, CommandsInvariant, PTL

\* Replay tells what the journal entry of the receipt says, and never a broken receipt.
LEMMA ReplayedFacts ==
    ASSUME CommandsInv, NEW c, Key(c) \in DOMAIN receipts
    PROVE  /\ Replayed(c).command = c
           /\ Replayed(c).outcome # "broken"
           /\ Replayed(c).outcome = "done" =>
                  \E i \in DOMAIN journal :
                      /\ journal[i].key = Key(c) /\ Digest(journal[i]) = Digest(c)
                      /\ Replayed(c).result = Result(c, journal[i].id, journal[i].revision)
<1> DEFINE r == receipts[Key(c)]
           e == journal[r.entry]
<1>1. /\ r.entry \in DOMAIN journal /\ e.key = Key(c) /\ e.kind = e.key[2]
      /\ e.id = r.id /\ e.revision = r.revision /\ Digest(e) = r.digest
  BY DEF CommandsInv, ReceiptsOK
<1>2. /\ e.kind = "ticket.status.change" =>
             e.id = e.key[3] /\ e.id \in DOMAIN tickets /\ e.revision \in 2..tickets[e.id].revision
  BY <1>1 DEF CommandsInv, JournalOK
<1>3. \A x, y : /\ Answer(c, x, y).command = c /\ Answer(c, x, y).outcome = x
                /\ Answer(c, x, y).result = y
  BY DEF Answer
<1>4. ASSUME c.kind = "ticket.status.change", Digest(c) = r.digest PROVE Provenance(c, r)
  <2>1. e.kind = c.kind /\ e.key[3] = c.target
    BY <1>1, <1>4 DEF Key
  <2>2. Digest(c) = <<c.payload, c.base>> /\ Digest(e) = <<e.payload, e.base>>
    BY <1>4, <2>1 DEF Digest
  <2>3. e.payload = c.payload /\ e.base = c.base
    BY <1>1, <1>4, <2>2
  <2>4. r.revision <= tickets[c.target].revision
    <3>1. tickets[c.target].revision \in Nat
      BY <1>2, <1>4, <2>1, CommandsAssumption DEF CommandsInv, Shapes
    <3> QED BY <1>1, <1>2, <1>4, <2>1, <3>1
  <2> QED BY <1>1, <1>2, <1>4, <2>1, <2>3, <2>4 DEF Provenance
<1>5. Replayed(c) = IF Hidden(c, r) THEN Answer(c, "refused", None)
                    ELSE IF Digest(c) # r.digest \/ c.kind = "thread.start" THEN Answer(c, "conflict", None)
                    ELSE IF c.kind = "ticket.status.change" /\ ~Provenance(c, r) THEN Answer(c, "broken", None)
                    ELSE Answer(c, "done", Result(c, r.id, r.revision))
  BY DEF Replayed
<1> HIDE DEF r
<1>6. Replayed(c).command = c /\ Replayed(c).outcome # "broken"
  BY <1>3, <1>4, <1>5
<1>7. Replayed(c).outcome = "done" =>
          Digest(c) = r.digest /\ Replayed(c).result = Result(c, r.id, r.revision)
  BY <1>3, <1>4, <1>5
<1> QED BY <1>1, <1>6, <1>7

\* A success, of the first run or of a retry, names what this command did, and no
\* receipt turns out broken.
THEOREM AnswersTellOwnEffect == Spec => []AnswerIsOwnEffect
<1>1. Init => AnswerIsOwnEffect
  BY DEF Init, AnswerIsOwnEffect
<1>2. CommandsInv /\ AnswerIsOwnEffect /\ [Next]_vars => AnswerIsOwnEffect'
  <2> SUFFICES ASSUME CommandsInv, AnswerIsOwnEffect, [Next]_vars PROVE AnswerIsOwnEffect'
    OBVIOUS
  <2> DEFINE Owned(a, c) ==
          /\ a.outcome # "broken"
          /\ a.outcome = "done" =>
                 \E i \in DOMAIN journal' :
                     /\ journal'[i].key = Key(c) /\ Digest(journal'[i]) = Digest(c)
                     /\ a.result = Result(c, journal'[i].id, journal'[i].revision)
  <2>0. \A x, y, z : Answer(x, y, z).command = x /\ Answer(x, y, z).outcome = y /\ Answer(x, y, z).result = z
    BY DEF Answer
  <2>1. ASSUME NEW a, a = answer', NEW c, c = a.command, Owned(a, c) PROVE AnswerIsOwnEffect'
    BY <2>1 DEF AnswerIsOwnEffect, Succeeded, Digest, Key, Result
  <2>2. CASE UNCHANGED vars
    BY <2>2 DEF vars, AnswerIsOwnEffect, Succeeded, Digest, Key, Result
  <2>3. ASSUME answer' = None PROVE AnswerIsOwnEffect'
    BY <2>3 DEF AnswerIsOwnEffect
  <2>4. ASSUME NEW t \in Transactions, Refuse(t) \/ Reject(t) PROVE AnswerIsOwnEffect'
    <3>1. PICK a : a = answer'
      OBVIOUS
    <3>2. a.outcome \in {"refused", "conflict"}
      BY <2>0, <2>4, <3>1 DEF Refuse, Reject, End
    <3> QED BY <2>1, <3>1, <3>2
  <2>5. ASSUME NEW t \in Transactions, Replay(t) PROVE AnswerIsOwnEffect'
    <3>1. PICK c : c = tx[t].command
      OBVIOUS
    <3>2. PICK a : a = Replayed(c)
      OBVIOUS
    <3>3. Key(c) \in DOMAIN receipts /\ answer' = a /\ journal' = journal
      BY <2>5, <3>1, <3>2 DEF Replay, End
    <3>4. a.command = c /\ Owned(a, c)
      BY <3>2, <3>3, ReplayedFacts
    <3> QED BY <2>1, <3>3, <3>4
  <2>6. ASSUME NEW t \in Transactions, Commit(t) PROVE AnswerIsOwnEffect'
    <3>1. PICK c : c = tx[t].command
      OBVIOUS
    <3>2. Shapes /\ Good(c)
      BY <2>6, <3>1, CommitFacts DEF CommandsInv
    <3>3. PICK id, revision, from, to : Record(c, id, revision, from, to)
      BY <3>2, Writers DEF Good
    <3>4. PICK e : e = EntryOf(c, id, revision, from, to)
      OBVIOUS
    <3>5. \E i \in DOMAIN journal' : journal'[i] = e
      BY <3>2, <3>3, <3>4, Journaled
    <3>6. e.key = Key(c) /\ e.id = id /\ e.revision = revision /\ Digest(e) = Digest(c)
      BY <3>4, EntryFacts
    <3>7. answer' = Answer(c, "done", Result(c, id, revision))
      BY <3>3 DEF Record
    <3>8. PICK a : a = answer'
      OBVIOUS
    <3>9. a.command = c /\ a.outcome = "done" /\ a.result = Result(c, id, revision)
      BY <2>0, <3>7, <3>8
    <3>10. Owned(a, c)
      BY <3>5, <3>6, <3>9
    <3> QED BY <2>1, <3>8, <3>9, <3>10
  <2>7. CASE Next
    BY <2>3, <2>4, <2>5, <2>6, <2>7 DEF Next, Begin, Acquire, Claim, Abort, End
  <2> QED BY <2>2, <2>7
<1> QED BY <1>1, <1>2, CommandsInvariant, PTL DEF Spec

-----------------------------------------------------------------------------
(* Access to Channels and Threads *)

\* A commit leaves nobody in a Channel or Thread he has no place in.
LEMMA NobodyLeftBehind ==
    ASSUME CommandsInv, NoLeftoverAccess, NEW t \in Transactions, Commit(t)
    PROVE  NoLeftoverAccess'
<1> DEFINE Joint(r, chs, ths) ==
        /\ \A i \in DOMAIN chs : \A u \in chs[i] : r[u] # "none"
        /\ \A i \in DOMAIN ths : ths[i].members \subseteq chs[ths[i].channel]
<1>0. PICK c : c = tx[t].command
  OBVIOUS
<1>1. Shapes /\ Good(c) /\ Runs(t) /\ tx[t].todo = <<>>
  BY <1>0, CommitFacts DEF CommandsInv
<1>2. /\ Sequence(channels) /\ Sequence(threads) /\ DOMAIN role = Users
      /\ \A i \in DOMAIN channels : channels[i] \subseteq Users
      /\ \A i \in DOMAIN threads : threads[i].channel \in DOMAIN channels
  BY <1>1 DEF Shapes
<1>3. c.kind # "workspace.owner.transfer" => Admitted(c)
  BY <1>0, <1>1, EntitledAtEnd DEF CommandsInv
<1>4. Joint(role, channels, threads)
  BY DEF NoLeftoverAccess
<1>5. CASE role' = role /\ channels' = channels /\ threads' = threads
  BY <1>5 DEF NoLeftoverAccess
<1>6. CASE SetProjectMember(c)
  <2>1. /\ role' = [role EXCEPT ![c.target] = c.payload] /\ channels' = channels /\ threads' = threads
        /\ c.kind = "project.member.set"
    BY <1>6 DEF SetProjectMember, talk
  <2>2. c.payload # "none"
    BY <1>1, <2>1 DEF Good, WellFormed
  <2>3. \A u \in Users : role[u] # "none" => role'[u] # "none"
    BY <1>2, <2>1, <2>2
  <2> QED BY <1>2, <1>4, <2>1, <2>3 DEF NoLeftoverAccess
<1>7. CASE RemoveProjectMember(c)
  <2>1. role' = [role EXCEPT ![c.target] = "none"] /\ Dismiss(c.target, DOMAIN channels)
    BY <1>7 DEF RemoveProjectMember
  <2>2. PICK rooms : rooms = DOMAIN channels
    OBVIOUS
  <2>3. Dismiss(c.target, rooms)
    BY <2>1, <2>2
  <2>4. DOMAIN channels' = DOMAIN channels /\ DOMAIN threads' = DOMAIN threads
    BY <1>1, <2>3, Dismissed
  <2>5. \A i \in DOMAIN channels : channels'[i] = channels[i] \ {c.target}
    BY <1>1, <2>2, <2>3, Dismissed
  <2>6. \A i \in DOMAIN threads : threads'[i].channel = threads[i].channel
    BY <1>1, <2>3, Dismissed
  <2>7. \A i \in DOMAIN threads : threads'[i].members = threads[i].members \ {c.target}
    BY <1>1, <1>2, <2>2, <2>3, Dismissed
  <2>8. \A u \in Users : u # c.target => role'[u] = role[u]
    BY <1>2, <2>1
  <2> QED BY <1>2, <1>4, <2>2, <2>4, <2>5, <2>6, <2>7, <2>8 DEF NoLeftoverAccess
<1>8. CASE SetChannelMember(c)
  <2>1. c.kind \in ChannelMemberKinds /\ role' = role
    BY <1>8 DEF SetChannelMember
  <2>2. RoomOf(c) \in DOMAIN channels
    BY <1>1, <2>1, TargetedFacts DEF Good
  <2>3. CASE c.kind = "channel.member.remove"
    <3>1. Dismiss(Subject(c), {RoomOf(c)})
      BY <1>8, <2>3 DEF SetChannelMember
    <3>0. PICK rooms, gone : rooms = {RoomOf(c)} /\ gone = Subject(c)
      OBVIOUS
    <3>2. DOMAIN channels' = DOMAIN channels /\ DOMAIN threads' = DOMAIN threads
      BY <1>1, <3>0, <3>1, Dismissed
    <3>3. \A i \in DOMAIN channels :
              /\ i \in rooms => channels'[i] = channels[i] \ {gone}
              /\ i \notin rooms => channels'[i] = channels[i]
      BY <1>1, <3>0, <3>1, Dismissed
    <3>4. \A i \in DOMAIN threads : threads'[i].channel = threads[i].channel
      BY <1>1, <3>0, <3>1, Dismissed
    <3>5. \A i \in DOMAIN threads :
              /\ threads[i].channel \in rooms => threads'[i].members = threads[i].members \ {gone}
              /\ threads[i].channel \notin rooms => threads'[i].members = threads[i].members
      BY <1>1, <3>0, <3>1, Dismissed
    <3> QED BY <1>2, <1>4, <2>1, <3>2, <3>3, <3>4, <3>5 DEF NoLeftoverAccess
  <2>4. CASE c.kind = "channel.member.add"
    <3> DEFINE room == RoomOf(c)
               joiner == Subject(c)
    <3>1. channels' = [channels EXCEPT ![room] = @ \cup {joiner}] /\ threads' = threads
      BY <1>8, <2>4 DEF SetChannelMember
    <3>2. role[joiner] # "none"
      BY <1>1, <2>1, <2>4, ValidFacts DEF Good, MemberValid
    <3>3. /\ DOMAIN channels' = DOMAIN channels /\ channels'[room] = channels[room] \cup {joiner}
          /\ \A i \in DOMAIN channels : i # room => channels'[i] = channels[i]
      BY <2>2, <3>1
    <3> HIDE DEF room, joiner
    <3> QED BY <1>2, <1>4, <2>1, <3>1, <3>2, <3>3 DEF NoLeftoverAccess
  <2> QED BY <2>1, <2>3, <2>4 DEF ChannelMemberKinds
<1>9. CASE CreateChannel(c)
  <2> DEFINE elect == {c.payload[i] : i \in DOMAIN c.payload}
  <2>1. channels' = Append(channels, elect) /\ threads' = threads /\ role' = role /\ c.kind = "channel.create"
    BY <1>9 DEF CreateChannel
  <2>2. \A u \in elect : role[u] # "none"
    BY <1>1, <2>1, ValidFacts DEF Good
  <2> HIDE DEF elect
  <2>3. /\ DOMAIN channels' = DOMAIN channels \cup {Len(channels) + 1}
        /\ \A i \in DOMAIN channels : channels'[i] = channels[i]
        /\ channels'[Len(channels) + 1] = elect
    BY <1>2, <2>1, Appended
  <2> QED BY <1>2, <1>4, <2>1, <2>2, <2>3 DEF NoLeftoverAccess
<1>10. CASE StartThreadFromMessage(c)
  <2> DEFINE new == [channel |-> RoomOf(c), members |-> {c.actor}]
  <2>1. threads' = Append(threads, new) /\ channels' = channels /\ role' = role /\ c.kind = "thread.start"
    BY <1>10 DEF StartThreadFromMessage
  <2>2. c.actor \in channels[RoomOf(c)]
    BY <1>3, <2>1 DEF Admitted, Permitted, RepositoryKinds, AuthorizationKinds, ProjectMemberKinds,
                      ChannelMemberKinds
  <2>3. new.members \subseteq channels[new.channel]
    BY <2>2
  <2> HIDE DEF new
  <2>4. /\ DOMAIN threads' = DOMAIN threads \cup {Len(threads) + 1}
        /\ \A i \in DOMAIN threads : threads'[i] = threads[i]
        /\ threads'[Len(threads) + 1] = new
    BY <1>2, <2>1, Appended
  <2> QED BY <1>4, <2>1, <2>3, <2>4 DEF NoLeftoverAccess
<1>11. \/ role' = role
       \/ SetProjectMember(c) \/ RemoveProjectMember(c)
  BY <1>1, Writers DEF Good
<1>12. \/ channels' = channels /\ threads' = threads
       \/ RemoveProjectMember(c) \/ SetChannelMember(c) \/ CreateChannel(c)
       \/ StartThreadFromMessage(c)
  BY <1>1, Writers DEF Good
<1> QED BY <1>5, <1>6, <1>7, <1>8, <1>9, <1>10, <1>11, <1>12

\* Who leaves the Project leaves its Channels and Threads, and who leaves a Channel
\* leaves its Threads, whatever else is going on.
THEOREM CommandsLeaveNoAccessBehind == Spec => []NoLeftoverAccess
<1>1. Init => NoLeftoverAccess
  <2> SUFFICES ASSUME Init PROVE NoLeftoverAccess
    OBVIOUS
  <2>1. DOMAIN channels = {1} /\ channels[1] = Users /\ threads = <<>>
    BY DEF Init
  <2>2. \A u \in Users : role[u] # "none"
    BY DEF Init
  <2> QED BY <2>1, <2>2 DEF NoLeftoverAccess
<1>2. CommandsInv /\ NoLeftoverAccess /\ [Next]_vars => NoLeftoverAccess'
  <2> SUFFICES ASSUME CommandsInv, NoLeftoverAccess, [Next]_vars PROVE NoLeftoverAccess'
    OBVIOUS
  <2>1. CASE \A t \in Transactions : ~Commit(t)
    <3>1. UNCHANGED <<role, channels, threads>>
      BY <2>1, OnlyCommitsWrite DEF entities, talk
    <3> QED BY <3>1 DEF NoLeftoverAccess
  <2> QED BY <2>1, NobodyLeftBehind
<1> QED BY <1>1, <1>2, CommandsInvariant, PTL DEF Spec

-----------------------------------------------------------------------------
(* Permission at the moment of success *)

\* Nobody is told of a success he was not allowed at that moment; only the former
\* owner of a transfer may read its receipt.
THEOREM CommandsCommitAuthorized == Spec => AuthorizedCommit
<1> DEFINE Fair ==
        Succeeded(answer') /\ (answer'.command.kind = "workspace.owner.transfer" => journal' # journal)
            => LET c == answer'.command
               IN  /\ Permitted(c)
                   /\ c.kind = "message.create" =>
                          MayRead(c.actor, messages'[answer'.result[1]].thread)
<1>1. CommandsInv /\ [Next]_vars => [Fair]_vars
  <2> SUFFICES ASSUME CommandsInv, Next, Succeeded(answer'),
                      answer'.command.kind = "workspace.owner.transfer" => journal' # journal
               PROVE  LET c == answer'.command
                      IN  /\ Permitted(c)
                          /\ c.kind = "message.create" =>
                                 MayRead(c.actor, messages'[answer'.result[1]].thread)
    OBVIOUS
  <2>0. \A x, y, z : Answer(x, y, z).command = x /\ Answer(x, y, z).outcome = y /\ Answer(x, y, z).result = z
    BY DEF Answer
  <2>1. PICK t \in Transactions : Replay(t) \/ Commit(t)
    <3>1. answer' # None /\ answer'.outcome = "done"
      BY DEF Succeeded
    <3>2. ASSUME NEW t \in Transactions PROVE ~Refuse(t) /\ ~Reject(t)
      BY <2>0, <3>1 DEF Refuse, Reject, End
    <3> QED BY <3>1, <3>2 DEF Next, Begin, Acquire, Claim, Abort, End
  <2>2. PICK c : c = tx[t].command
    OBVIOUS
  <2>3. Runs(t) /\ tx[t].todo = <<>>
    BY <2>1 DEF Replay, Commit, Runs
  <2>4. c.kind # "workspace.owner.transfer" => Permitted(c)
    BY <2>2, <2>3, EntitledAtEnd DEF CommandsInv, Admitted
  <2>5. CASE Replay(t)
    <3> DEFINE r == receipts[Key(c)]
    <3>1. answer' = Replayed(c) /\ journal' = journal /\ messages' = messages
      BY <2>2, <2>5 DEF Replay, End, entities, talk
    <3>2. Replayed(c) = IF Hidden(c, r) THEN Answer(c, "refused", None)
                        ELSE IF Digest(c) # r.digest \/ c.kind = "thread.start" THEN Answer(c, "conflict", None)
                        ELSE IF c.kind = "ticket.status.change" /\ ~Provenance(c, r) THEN Answer(c, "broken", None)
                        ELSE Answer(c, "done", Result(c, r.id, r.revision))
      BY DEF Replayed
    <3> HIDE DEF r
    <3>3. answer'.outcome = "done"
      BY DEF Succeeded
    <3>4. answer'.command = c /\ ~Hidden(c, r) /\ answer'.result = Result(c, r.id, r.revision)
      BY <2>0, <3>1, <3>2, <3>3
    <3>5. Permitted(c)
      BY <2>4, <3>1, <3>4
    <3>6. c.kind = "message.create" => MayRead(c.actor, messages[r.id].thread)
      BY <3>4 DEF Hidden
    <3>7. c.kind = "message.create" => answer'.result[1] = r.id
      BY <3>4 DEF Result, DocumentKinds
    <3> QED BY <3>1, <3>4, <3>5, <3>6, <3>7
  <2>6. CASE Commit(t)
    <3>1. Shapes /\ Good(c)
      BY <2>2, <2>6, CommitFacts DEF CommandsInv
    <3>2. PICK id, revision, from, to : Record(c, id, revision, from, to)
      BY <3>1, Writers DEF Good
    <3>3. answer'.command = c /\ answer'.result = Result(c, id, revision)
      BY <2>0, <3>2 DEF Record
    <3>4. c.kind = "workspace.owner.transfer" => Permitted(c)
      <4>1. c.kind = "workspace.owner.transfer" => member[c.actor].owner
        BY <3>1, ValidFacts DEF Good, TransferValid
      <4> QED BY <4>1 DEF Permitted, RepositoryKinds, AuthorizationKinds, ProjectMemberKinds,
                          ChannelMemberKinds
    <3>5. c.kind = "message.create" => MayRead(c.actor, messages'[answer'.result[1]].thread)
      <4> SUFFICES ASSUME c.kind = "message.create"
                   PROVE  MayRead(c.actor, messages'[answer'.result[1]].thread)
        OBVIOUS
      <4>1. CreateMessage(c) /\ MayRead(c.actor, c.base)
        BY <3>1, KindOfEffect, ValidFacts DEF Good, ReplyValid
      <4>2. id = Len(messages) + 1
        <5>1. Noted.id = Len(messages) + 1
          BY <3>1, <4>1, Noting
        <5>2. Noted.id = id
          BY <3>1, <3>2, NotedFacts
        <5> QED BY <5>1, <5>2
      <4>3. answer'.result[1] = id
        BY <3>3 DEF Result, DocumentKinds
      <4>4. messages'[Len(messages) + 1] = [channel |-> c.target, thread |-> c.base]
        BY <3>1, <4>1, Appended DEF CreateMessage, Shapes
      <4> QED BY <4>1, <4>2, <4>3, <4>4
    <3> QED BY <2>4, <3>3, <3>4, <3>5
  <2> QED BY <2>1, <2>5, <2>6
<1> QED BY <1>1, CommandsInvariant, PTL DEF Spec, AuthorizedCommit, Fair

-----------------------------------------------------------------------------
(* The chains of the journal *)

\* A commit adds its entry to those of one object and to no others.
LEMMA EntriesGrow ==
    ASSUME Shapes, NEW c, Good(c), NEW kinds, NEW id
    PROVE  /\ c.kind \in kinds /\ Noted.id = id =>
                  Entries(kinds, id)' = Entries(kinds, id) \cup {Len(journal) + 1}
           /\ c.kind \notin kinds \/ Noted.id # id => Entries(kinds, id)' = Entries(kinds, id)
           /\ \A i \in Entries(kinds, id) :
                  /\ i \in DOMAIN journal /\ journal'[i] = journal[i]
                  /\ i \in Nat /\ i < Len(journal) + 1
<1>1. /\ DOMAIN journal' = DOMAIN journal \cup {Len(journal) + 1}
      /\ journal'[Len(journal) + 1] = Noted
      /\ \A i \in DOMAIN journal : journal'[i] = journal[i]
  BY OneEntry
<1>2. Noted.kind = c.kind
  BY Noting
<1>3. /\ Len(journal) + 1 \notin DOMAIN journal
      /\ \A i \in DOMAIN journal : i \in Nat /\ i < Len(journal) + 1
  BY NextIndex
<1>4. Entries(kinds, id)' = {i \in DOMAIN journal' : journal'[i].kind \in kinds /\ journal'[i].id = id}
  BY DEF Entries
<1>5. Entries(kinds, id) = {i \in DOMAIN journal : journal[i].kind \in kinds /\ journal[i].id = id}
  BY DEF Entries
<1> QED BY <1>1, <1>2, <1>3, <1>4, <1>5

\* The status changes of one Ticket.
TicketChain(k) ==
    LET changes == Entries({"ticket.status.change"}, k)
    IN  /\ tickets[k].revision <= MaxRevision
        /\ \A i, j \in changes :
               journal[j].revision = journal[i].revision + 1 =>
                   i < j /\ journal[j].from = journal[i].to
        /\ \A r \in 2..tickets[k].revision :
               \E i \in changes : journal[i].revision = r /\ journal[i].base = r - 1
        /\ \A i \in changes :
               journal[i].revision = tickets[k].revision => journal[i].to = tickets[k].status

\* A commit extends the chain of at most one Ticket, at its end.
LEMMA TicketsChainKept ==
    ASSUME CommandsInv, TicketsChain, NEW t \in Transactions, Commit(t)
    PROVE  TicketsChain'
<1>0. PICK c : c = tx[t].command
  OBVIOUS
<1>1. Shapes /\ Good(c)
  BY <1>0, CommitFacts DEF CommandsInv
<1>2. SUFFICES ASSUME NEW k \in DOMAIN tickets' PROVE TicketChain(k)'
  BY DEF TicketsChain, TicketChain
<1>3. \A i \in DOMAIN tickets : TicketChain(i)
  BY DEF TicketsChain, TicketChain
<1> DEFINE kinds == {"ticket.status.change"}
<1>4. \A i \in Entries(kinds, k) :
          k \in DOMAIN tickets /\ journal[i].revision \in 2..tickets[k].revision
  BY DEF CommandsInv, JournalOK, Entries
<1>5. tickets'[k].revision \in 1..MaxRevision
  BY <1>1, TicketsKept
<1>6. CASE ChangeTicketStatus(c) /\ c.target = k
  <2> DEFINE n == Len(journal) + 1
             rev == tickets[k].revision
  <2>1. k \in DOMAIN tickets /\ c.kind = "ticket.status.change"
    BY <1>1, <1>6, TargetedFacts DEF Good, ChangeTicketStatus
  <2>2. /\ Noted.id = k /\ Noted.revision = c.base + 1 /\ Noted.base = c.base
        /\ Noted.from = tickets[k].status /\ Noted.to = c.payload
    BY <1>1, <1>6, Noting
  <2>3. c.base = rev
    BY <1>1, <1>6, <2>1, ValidFacts DEF Good, StatusValid
  <2>4. tickets'[k] = [status |-> c.payload, revision |-> c.base + 1]
    BY <1>6, <2>1 DEF ChangeTicketStatus
  <2>5. rev \in Nat /\ rev >= 1 /\ tickets'[k].revision = rev + 1 /\ tickets'[k].status = c.payload
    BY <1>1, <2>1, <2>3, <2>4, CommandsAssumption DEF Shapes
  <2>6. Entries(kinds, k)' = Entries(kinds, k) \cup {n}
    BY <1>1, <2>1, <2>2, EntriesGrow
  <2>7. \A i \in Entries(kinds, k) : journal'[i] = journal[i] /\ i \in Nat /\ i < n
    BY <1>1, EntriesGrow
  <2>8. journal'[n] = Noted
    BY <1>1, OneEntry
  <2>9. TicketChain(k)
    BY <1>3, <2>1
  <2>10. \A i \in Entries(kinds, k) : journal[i].revision \in Nat /\ journal[i].revision <= rev
    BY <1>4, <2>5
  <2> HIDE DEF n, rev
  <2>11. ASSUME NEW i \in Entries(kinds, k)', NEW j \in Entries(kinds, k)',
                journal'[j].revision = journal'[i].revision + 1
         PROVE  i < j /\ journal'[j].from = journal'[i].to
    <3>1. CASE i \in Entries(kinds, k) /\ j \in Entries(kinds, k)
      <4>1. journal[j].revision = journal[i].revision + 1
        BY <2>7, <2>11, <3>1
      <4> QED BY <2>7, <2>9, <3>1, <4>1 DEF TicketChain
    <3>2. CASE i \in Entries(kinds, k) /\ j = n
      <4>1. journal[i].revision = rev
        BY <2>2, <2>3, <2>5, <2>7, <2>8, <2>10, <2>11, <3>2
      <4>2. journal[i].to = tickets[k].status
        BY <2>9, <3>2, <4>1 DEF TicketChain, rev
      <4> QED BY <2>2, <2>7, <2>8, <3>2, <4>2
    <3>3. CASE i = n
      <4>1. journal'[j].revision = rev + 2
        BY <2>2, <2>3, <2>5, <2>8, <2>11, <3>3
      <4>2. journal'[j].revision <= rev + 1
        BY <2>2, <2>3, <2>5, <2>6, <2>7, <2>8, <2>10
      <4> QED BY <2>5, <4>1, <4>2
    <3> QED BY <2>6, <3>1, <3>2, <3>3
  <2>12. ASSUME NEW r \in 2..tickets'[k].revision
         PROVE  \E i \in Entries(kinds, k)' : journal'[i].revision = r /\ journal'[i].base = r - 1
    <3>1. CASE r = rev + 1
      BY <2>2, <2>3, <2>5, <2>6, <2>8, <3>1
    <3>2. CASE r # rev + 1
      <4>1. r \in 2..rev
        BY <2>5, <2>12, <3>2
      <4>2. PICK i \in Entries(kinds, k) : journal[i].revision = r /\ journal[i].base = r - 1
        BY <2>9, <4>1 DEF TicketChain, rev
      <4> QED BY <2>6, <2>7, <4>2
    <3> QED BY <3>1, <3>2
  <2>13. ASSUME NEW i \in Entries(kinds, k)', journal'[i].revision = tickets'[k].revision
         PROVE  journal'[i].to = tickets'[k].status
    <3>1. i = n
      BY <2>5, <2>6, <2>7, <2>10, <2>13
    <3> QED BY <2>2, <2>5, <2>8, <3>1
  <2> QED BY <1>5, <2>11, <2>12, <2>13 DEF TicketChain
<1>7. CASE ~(ChangeTicketStatus(c) /\ c.target = k)
  <2>1. Entries(kinds, k)' = Entries(kinds, k)
    <3>1. c.kind = "ticket.status.change" => ChangeTicketStatus(c)
      BY <1>1, KindOfEffect DEF Good
    <3>2. ChangeTicketStatus(c) => Noted.id = c.target
      BY <1>1, Noting
    <3> QED BY <1>1, <1>7, <3>1, <3>2, EntriesGrow
  <2>2. \A i \in Entries(kinds, k) : journal'[i] = journal[i]
    BY <1>1, EntriesGrow
  <2>3. CASE k \in DOMAIN tickets
    <3>1. tickets'[k] = tickets[k]
      BY <1>1, <1>7, <2>3, TicketsKept
    <3> QED BY <1>3, <2>1, <2>2, <2>3, <3>1 DEF TicketChain
  <2>4. CASE k \notin DOMAIN tickets
    <3>1. Entries(kinds, k) = {}
      BY <1>4, <2>4
    <3>2. CreateTicket(c)
      BY <1>1, <2>4, TicketsKept
    <3>3. tickets'[k].revision = 1
      <4>1. tickets' = Append(tickets, [status |-> "open", revision |-> 1]) /\ Sequence(tickets)
        BY <1>1, <3>2 DEF CreateTicket, Shapes
      <4>2. k = Len(tickets) + 1
        BY <2>4, <4>1, Appended
      <4> QED BY <4>1, <4>2, Appended
    <3> QED BY <1>5, <2>1, <3>1, <3>3 DEF TicketChain
  <2> QED BY <2>3, <2>4
<1> QED BY <1>6, <1>7

\* The revisions of one Document.
DocumentChain(d) ==
    \A r \in DOMAIN docs[d] :
        \E i \in Entries(DocumentKinds, d) :
            /\ journal[i].revision = r /\ journal[i].to = docs[d][r]
            /\ \A j \in Entries(DocumentKinds, d) : journal[j].revision = r => i = j
            /\ r > 1 => journal[i].base = r - 1
            /\ journal[i].kind = "document.restore" => docs[d][r] = docs[d][journal[i].payload]

\* A commit extends the chain of at most one Document, at its end.
LEMMA DocumentsChainKept ==
    ASSUME CommandsInv, DocumentsChain, NEW t \in Transactions, Commit(t)
    PROVE  DocumentsChain'
<1>0. PICK c : c = tx[t].command
  OBVIOUS
<1>1. Shapes /\ Good(c)
  BY <1>0, CommitFacts DEF CommandsInv
<1>2. SUFFICES ASSUME NEW d \in DOMAIN docs' PROVE DocumentChain(d)'
  BY DEF DocumentsChain, DocumentChain
<1>3. \A i \in DOMAIN docs : DocumentChain(i)
  BY DEF DocumentsChain, DocumentChain
<1> DEFINE n == Len(journal) + 1
           old == Entries(DocumentKinds, d)
<1>4. \A i \in old :
          /\ d \in DOMAIN docs /\ journal[i].revision \in 1..Len(docs[d])
          /\ journal[i].kind = "document.restore" => journal[i].payload \in 1..Len(docs[d])
  BY DEF CommandsInv, JournalOK, Entries
<1>5. \A i \in old : journal'[i] = journal[i] /\ i \in Nat /\ i < n
  BY <1>1, EntriesGrow
<1>6. journal'[n] = Noted /\ Noted.kind = c.kind /\ Noted.base = c.base /\ Noted.payload = c.payload
  BY <1>1, OneEntry, Noting
<1>7. d \in DOMAIN docs => /\ Sequence(docs[d]) /\ Len(docs[d]) \in Nat /\ Len(docs[d]) >= 1
                           /\ DOMAIN docs[d] = 1..Len(docs[d])
  BY <1>1, SequenceDomain, CommandsAssumption DEF Shapes
<1>8. CASE ReviseDocument(c) /\ c.target = d
  <2> DEFINE len == Len(docs[d])
             body == IF c.kind = "document.save" THEN c.payload ELSE docs[d][c.payload]
  <2>1. c.kind \in {"document.save", "document.restore"} /\ d \in DOMAIN docs
    BY <1>1, <1>8, TargetedFacts DEF Good, ReviseDocument
  <2>2. Noted.id = d /\ Noted.revision = len + 1 /\ Noted.to = body
    BY <1>1, <1>8, Noting
  <2>3. c.base = len /\ (c.kind = "document.restore" => c.payload \in 1..len)
    BY <1>1, <1>7, <1>8, <2>1, ValidFacts DEF Good, SaveValid
  <2>4. docs' = [docs EXCEPT ![d] = Append(@, body)]
    BY <1>8 DEF ReviseDocument
  <2>5. docs'[d] = Append(docs[d], body)
    BY <2>1, <2>4
  <2> HIDE DEF body
  <2>6. /\ DOMAIN docs'[d] = DOMAIN docs[d] \cup {len + 1}
        /\ \A r \in DOMAIN docs[d] : docs'[d][r] = docs[d][r]
        /\ docs'[d][len + 1] = body
    BY <1>7, <2>1, <2>5, Appended
  <2>7. Entries(DocumentKinds, d)' = old \cup {n}
    BY <1>1, <2>1, <2>2, EntriesGrow DEF DocumentKinds
  <2>8. len \in Nat /\ len >= 1 /\ DOMAIN docs[d] = 1..len
    BY <1>7, <2>1
  <2>9. DocumentChain(d)
    BY <1>3, <2>1
  <2>10. \A i \in old : journal'[i].revision \in 1..len
    BY <1>4, <1>5
  <2> HIDE DEF len
  <2>11. ASSUME NEW r \in DOMAIN docs'[d]
         PROVE \E i \in Entries(DocumentKinds, d)' :
                   /\ journal'[i].revision = r /\ journal'[i].to = docs'[d][r]
                   /\ \A j \in Entries(DocumentKinds, d)' : journal'[j].revision = r => i = j
                   /\ r > 1 => journal'[i].base = r - 1
                   /\ journal'[i].kind = "document.restore" => docs'[d][r] = docs'[d][journal'[i].payload]
    <3>1. CASE r = len + 1
      <4>1. journal'[n].revision = r /\ journal'[n].to = docs'[d][r]
        BY <1>6, <2>2, <2>6, <3>1
      <4>2. \A j \in Entries(DocumentKinds, d)' : journal'[j].revision = r => n = j
        BY <2>7, <2>8, <2>10, <3>1
      <4>3. journal'[n].base = r - 1
        BY <1>6, <2>3, <2>8, <3>1
      <4>4. journal'[n].kind = "document.restore" => docs'[d][r] = docs'[d][journal'[n].payload]
        <5>1. c.kind = "document.restore" => body = docs'[d][c.payload]
          BY <2>3, <2>6, <2>8 DEF body
        <5> QED BY <1>6, <2>6, <3>1, <5>1
      <4> QED BY <2>7, <4>1, <4>2, <4>3, <4>4
    <3>2. CASE r # len + 1
      <4>1. r \in 1..len
        BY <2>6, <2>8, <2>11, <3>2
      <4>2. PICK i \in old :
                /\ journal[i].revision = r /\ journal[i].to = docs[d][r]
                /\ \A j \in old : journal[j].revision = r => i = j
                /\ r > 1 => journal[i].base = r - 1
                /\ journal[i].kind = "document.restore" => docs[d][r] = docs[d][journal[i].payload]
        BY <2>8, <2>9, <4>1 DEF DocumentChain
      <4> HIDE DEF old, n
      <4>3. journal'[i].revision = r /\ journal'[i].to = docs'[d][r] /\ (r > 1 => journal'[i].base = r - 1)
        BY <1>5, <2>6, <2>8, <4>1, <4>2
      <4>4. \A j \in Entries(DocumentKinds, d)' : journal'[j].revision = r => i = j
        <5>1. journal'[n].revision = len + 1
          BY <1>6, <2>2 DEF len, n
        <5> QED BY <1>5, <2>7, <3>2, <4>2, <5>1
      <4>5. journal'[i].kind = "document.restore" => docs'[d][r] = docs'[d][journal'[i].payload]
        BY <1>4, <1>5, <2>6, <2>8, <4>1, <4>2 DEF len
      <4> QED BY <2>7, <4>2, <4>3, <4>4, <4>5
    <3> QED BY <3>1, <3>2
  <2> QED BY <2>11 DEF DocumentChain
<1>9. CASE ~(ReviseDocument(c) /\ c.target = d) /\ d \in DOMAIN docs
  <2>1. docs'[d] = docs[d]
    BY <1>1, <1>9, DocsKept
  <2>2. Entries(DocumentKinds, d)' = old
    <3>1. c.kind \in {"document.save", "document.restore"} => Noted.id # d
      BY <1>1, <1>9, KindOfEffect, Noting DEF Good
    <3>2. c.kind = "document.create" => Noted.id = Len(docs) + 1
      BY <1>1, KindOfEffect, Noting DEF Good
    <3>3. Len(docs) + 1 \notin DOMAIN docs
      BY <1>1, Appended DEF Shapes
    <3>4. c.kind \notin DocumentKinds \/ Noted.id # d
      BY <1>9, <3>1, <3>2, <3>3 DEF DocumentKinds
    <3> QED BY <1>1, <3>4, EntriesGrow
  <2>3. DocumentChain(d)
    BY <1>3, <1>9
  <2> QED BY <1>5, <2>1, <2>2, <2>3 DEF DocumentChain
<1>10. CASE d \notin DOMAIN docs
  <2>1. CreateDocument(c)
    BY <1>1, <1>10, DocsKept
  <2>2. docs' = Append(docs, <<c.payload>>) /\ Sequence(docs) /\ c.kind = "document.create"
    BY <1>1, <2>1 DEF CreateDocument, Shapes
  <2>3. d = Len(docs) + 1
    BY <1>10, <2>2, Appended
  <2>4. docs'[d] = <<c.payload>>
    BY <2>2, <2>3, Appended
  <2>5. DOMAIN docs'[d] = {1} /\ docs'[d][1] = c.payload
    BY <2>4
  <2>6. Noted.id = d /\ Noted.revision = 1 /\ Noted.to = c.payload
    BY <1>1, <2>1, <2>3, Noting
  <2>7. old = {}
    BY <1>4, <1>10
  <2>8. Entries(DocumentKinds, d)' = {n}
    BY <1>1, <2>2, <2>6, <2>7, EntriesGrow DEF DocumentKinds
  <2>9. journal'[n].kind # "document.restore"
    BY <1>6, <2>2
  <2> HIDE DEF n
  <2> QED BY <1>6, <2>5, <2>6, <2>8, <2>9 DEF DocumentChain, n
<1> QED BY <1>8, <1>9, <1>10

\* The authorizations of one user.
GrantChain(u) ==
    LET changes == Entries(AuthorizationKinds, u)
    IN  \A i \in changes :
            LET later == {j \in changes : j > i}
            IN  IF later = {} THEN journal[i].to = grants[u]
                ELSE \E j \in later :
                         /\ \A k \in later : j <= k
                         /\ journal[j].base = journal[i].to

\* A commit extends the chain of at most one user, at its end.
LEMMA GrantsChainKept ==
    ASSUME CommandsInv, GrantsChain, NEW t \in Transactions, Commit(t)
    PROVE  GrantsChain'
<1>0. PICK c : c = tx[t].command
  OBVIOUS
<1>1. Shapes /\ Good(c)
  BY <1>0, CommitFacts DEF CommandsInv
<1>2. SUFFICES ASSUME NEW u \in Users PROVE GrantChain(u)'
  BY DEF GrantsChain, GrantChain
<1>3. GrantChain(u)
  BY DEF GrantsChain, GrantChain
<1> DEFINE n == Len(journal) + 1
           old == Entries(AuthorizationKinds, u)
<1>4. \A i \in old : journal'[i] = journal[i] /\ i \in Nat /\ i < n
  BY <1>1, EntriesGrow
<1>5. n \in Nat
  BY <1>1, NextIndex
<1>6. CASE AuthorizeEnvironment(c) /\ c.target = u
  <2>1. c.kind \in AuthorizationKinds /\ c.base = grants[u]
    BY <1>1, <1>6, ValidFacts DEF Good, GrantValid, AuthorizeEnvironment
  <2>2. Noted.id = u /\ Noted.base = grants[u] /\ Noted.to = grants'[u]
    BY <1>1, <1>6, <2>1, Noting
  <2>3. Entries(AuthorizationKinds, u)' = old \cup {n} /\ journal'[n] = Noted
    BY <1>1, <2>1, <2>2, EntriesGrow, OneEntry
  <2> HIDE DEF n, old
  <2>4. ASSUME NEW i \in old \cup {n}
        PROVE  LET later == {j \in old \cup {n} : j > i}
               IN  IF later = {} THEN journal'[i].to = grants'[u]
                   ELSE \E j \in later :
                            /\ \A k \in later : j <= k
                            /\ journal'[j].base = journal'[i].to
    <3> DEFINE before == {j \in old : j > i}
               later == {j \in old \cup {n} : j > i}
    <3>1. CASE i = n
      <4>1. later = {}
        BY <1>4, <1>5, <3>1
      <4> QED BY <2>2, <2>3, <3>1, <4>1
    <3>2. CASE i # n /\ before = {}
      <4>1. i \in old /\ i < n
        BY <1>4, <2>4, <3>2
      <4>2. later = {n}
        BY <3>2, <4>1
      <4>3. journal[i].to = grants[u]
        BY <1>3, <3>2, <4>1 DEF GrantChain, old
      <4>4. journal'[n].base = journal'[i].to
        BY <1>4, <2>2, <2>3, <4>1, <4>3
      <4>5. n <= n
        BY <1>5
      <4> HIDE DEF later
      <4> QED BY <4>2, <4>4, <4>5 DEF later
    <3>3. CASE i # n /\ before # {}
      <4>1. i \in old /\ i < n
        BY <1>4, <2>4, <3>3
      <4>2. later = before \cup {n}
        BY <4>1
      <4>3. PICK j \in before : (\A k \in before : j <= k) /\ journal[j].base = journal[i].to
        BY <1>3, <3>3, <4>1 DEF GrantChain, old
      <4>4. j <= n /\ journal'[j].base = journal'[i].to
        BY <1>4, <1>5, <4>1, <4>3
      <4> HIDE DEF later, before
      <4>5. j \in later /\ \A k \in later : j <= k
        BY <4>2, <4>3, <4>4
      <4> QED BY <4>4, <4>5 DEF later
    <3> QED BY <3>1, <3>2, <3>3
  <2> QED BY <2>3, <2>4 DEF GrantChain
<1>7. CASE ~(AuthorizeEnvironment(c) /\ c.target = u)
  <2>1. Entries(AuthorizationKinds, u)' = old
    <3>1. c.kind \in AuthorizationKinds => AuthorizeEnvironment(c)
      BY <1>1, KindOfEffect DEF Good
    <3>2. AuthorizeEnvironment(c) => Noted.id = c.target
      BY <1>1, Noting
    <3> QED BY <1>1, <1>7, <3>1, <3>2, EntriesGrow
  <2>2. grants'[u] = grants[u]
    BY <1>1, <1>7, GrantsKept, KindOfEffect DEF Good
  <2> QED BY <1>3, <1>4, <2>1, <2>2 DEF GrantChain
<1> QED BY <1>6, <1>7

\* The acceptance of one Decision and the Tickets created from it.
DecisionChain(d) ==
    LET accepts == Entries({"decision.accept"}, d)
    IN  /\ \A i, j \in accepts : i = j
        /\ {journal[i].payload : i \in accepts} = {decisions[d].outcome} \ {None}
        /\ \A k \in DOMAIN journal :
               journal[k].kind = "ticket.create" /\ journal[k].key[3] = d =>
                   \E i \in accepts : i < k

\* A Decision is accepted once, and Tickets follow only then.
LEMMA DecisionsChainKept ==
    ASSUME CommandsInv, DecisionsChain, NEW t \in Transactions, Commit(t)
    PROVE  DecisionsChain'
<1>0. PICK c : c = tx[t].command
  OBVIOUS
<1>1. Shapes /\ Good(c) /\ Runs(t) /\ tx[t].todo = <<>>
  BY <1>0, CommitFacts DEF CommandsInv
<1>2. SUFFICES ASSUME NEW d \in DOMAIN decisions' PROVE DecisionChain(d)'
  BY DEF DecisionsChain, DecisionChain
<1>3. \A i \in DOMAIN decisions : DecisionChain(i)
  BY DEF DecisionsChain, DecisionChain
<1> DEFINE kinds == {"decision.accept"}
           n == Len(journal) + 1
           old == Entries(kinds, d)
<1>4. \A i \in old : d \in DOMAIN decisions /\ journal'[i] = journal[i] /\ i \in Nat /\ i < n
  <2>1. \A i \in old : d \in DOMAIN decisions
    BY DEF CommandsInv, JournalOK, Entries
  <2> QED BY <1>1, <2>1, EntriesGrow
<1>5. /\ DOMAIN journal' = DOMAIN journal \cup {n} /\ journal'[n] = Noted
      /\ \A k \in DOMAIN journal : journal'[k] = journal[k]
      /\ Noted.kind = c.kind /\ Noted.key = Key(c) /\ Noted.payload = c.payload
  BY <1>1, OneEntry, Noting
<1>6. ASSUME NEW k \in DOMAIN journal', journal'[k].kind = "ticket.create", journal'[k].key[3] = d
      PROVE  d \in DOMAIN decisions /\ \E i \in old : i < k
  <2>1. CASE k \in DOMAIN journal
    <3>1. d \in DOMAIN decisions
      BY <1>5, <1>6, <2>1 DEF CommandsInv, JournalOK
    <3> QED BY <1>3, <1>5, <1>6, <2>1, <3>1 DEF DecisionChain
  <2>2. CASE k = n
    <3>1. c.kind = "ticket.create" /\ d = c.target
      BY <1>5, <1>6, <2>2 DEF Key
    <3>2. d \in DOMAIN decisions
      BY <1>1, <3>1, TargetedFacts DEF Good
    <3>3. decisions[d].status = "accepted"
      BY <1>0, <1>1, <3>1, EntitledAtEnd DEF CommandsInv, Admitted
    <3>4. decisions[d].outcome # None
      BY <1>1, <3>2, <3>3 DEF Shapes
    <3>5. {journal[i].payload : i \in old} = {decisions[d].outcome} \ {None}
      BY <1>3, <3>2 DEF DecisionChain
    <3>6. \E i \in old : TRUE
      BY <3>4, <3>5
    <3> QED BY <1>4, <2>2, <3>2, <3>6
  <2> QED BY <1>5, <1>6, <2>1, <2>2
<1>7. CASE AcceptDecision(c) /\ c.target = d
  <2>1. c.kind = "decision.accept" /\ d \in DOMAIN decisions /\ c.payload # None
    BY <1>1, <1>7, TargetedFacts DEF Good, AcceptDecision, WellFormed
  <2>2. decisions[d].status = "proposed" /\ decisions[d].outcome = None
    BY <1>1, <1>7, <2>1, ValidFacts DEF Good, AcceptValid, Shapes
  <2>3. old = {}
    <3>1. {journal[i].payload : i \in old} = {}
      BY <1>3, <2>1, <2>2 DEF DecisionChain
    <3> QED BY <3>1
  <2>4. Entries(kinds, d)' = {n}
    <3>1. Noted.id = d
      BY <1>1, <1>7, Noting
    <3> QED BY <1>1, <2>1, <2>3, <3>1, EntriesGrow
  <2>5. decisions'[d].outcome = c.payload
    BY <1>7, <2>1 DEF AcceptDecision
  <2>6. {journal'[i].payload : i \in Entries(kinds, d)'} = {decisions'[d].outcome} \ {None}
    BY <1>5, <2>1, <2>4, <2>5
  <2> QED BY <1>6, <2>3, <2>4, <2>6 DEF DecisionChain
<1>8. CASE ~(AcceptDecision(c) /\ c.target = d)
  <2>1. Entries(kinds, d)' = old
    <3>1. c.kind = "decision.accept" => AcceptDecision(c) /\ Noted.id = c.target
      BY <1>1, KindOfEffect, Noting DEF Good
    <3> QED BY <1>1, <1>8, <3>1, EntriesGrow
  <2>2. {journal'[i].payload : i \in old} = {journal[i].payload : i \in old}
    BY <1>4
  <2>3. /\ \A i, j \in old : i = j
        /\ {journal[i].payload : i \in old} = {decisions'[d].outcome} \ {None}
    <3>1. CASE d \in DOMAIN decisions
      <4>1. decisions'[d] = decisions[d]
        <5>1. CASE decisions' = decisions
          BY <5>1
        <5>2. CASE ProposeDecision(c)
          BY <1>1, <3>1, <5>2, Appended DEF ProposeDecision, Shapes
        <5>3. CASE AcceptDecision(c)
          BY <1>8, <3>1, <5>3 DEF AcceptDecision
        <5> QED BY <1>1, <5>1, <5>2, <5>3, Writers DEF Good
      <4> QED BY <1>3, <3>1, <4>1 DEF DecisionChain
    <3>2. CASE d \notin DOMAIN decisions
      <4>1. old = {}
        BY <1>4, <3>2
      <4>2. decisions'[d].outcome = None
        <5>1. ProposeDecision(c)
          BY <1>1, <3>2, Writers DEF Good, AcceptDecision
        <5>2. decisions' = Append(decisions, [status |-> "proposed", outcome |-> None]) /\ Sequence(decisions)
          BY <1>1, <5>1 DEF ProposeDecision, Shapes
        <5>3. d = Len(decisions) + 1
          BY <3>2, <5>2, Appended
        <5> QED BY <5>2, <5>3, Appended
      <4> QED BY <4>1, <4>2
    <3> QED BY <3>1, <3>2
  <2> QED BY <1>6, <2>1, <2>2, <2>3 DEF DecisionChain
<1> QED BY <1>7, <1>8

\* No lost update: Document revisions, Ticket statuses, authorizations and accepted
\* Decisions form chains in the journal, each link made by a command that had seen
\* the one before.
THEOREM CommandsChain == Spec => []RevisionsChain
<1>1. Init => RevisionsChain
  <2> SUFFICES ASSUME Init PROVE RevisionsChain
    OBVIOUS
  <2>1. \A kinds, id : Entries(kinds, id) = {}
    BY DEF Init, Entries
  <2>2. DocumentsChain
    BY DEF Init, DocumentsChain
  <2>3. TicketsChain
    <3>1. DOMAIN tickets = {1} /\ tickets[1].revision = 1
      BY DEF Init
    <3>2. 1 <= MaxRevision /\ 2..1 = {}
      BY CommandsAssumption
    <3> QED BY <2>1, <3>1, <3>2 DEF TicketsChain
  <2>4. GrantsChain
    BY <2>1 DEF GrantsChain
  <2>5. DecisionsChain
    <3>1. DOMAIN decisions = {1} /\ decisions[1].outcome = None /\ DOMAIN journal = {}
      BY DEF Init
    <3> QED BY <2>1, <3>1 DEF DecisionsChain
  <2> QED BY <2>2, <2>3, <2>4, <2>5 DEF RevisionsChain
<1>2. CommandsInv /\ RevisionsChain /\ [Next]_vars => RevisionsChain'
  <2> SUFFICES ASSUME CommandsInv, RevisionsChain, [Next]_vars PROVE RevisionsChain'
    OBVIOUS
  <2>1. CASE \A t \in Transactions : ~Commit(t)
    <3>1. UNCHANGED <<docs, tickets, grants, decisions, journal>>
      BY <2>1, OnlyCommitsWrite DEF entities, delivery
    <3>2. \A kinds, id : Entries(kinds, id)' = Entries(kinds, id)
      BY <3>1 DEF Entries
    <3>3. DocumentsChain'
      BY <3>1, <3>2 DEF RevisionsChain, DocumentsChain
    <3>4. TicketsChain'
      BY <3>1, <3>2 DEF RevisionsChain, TicketsChain
    <3>5. GrantsChain'
      BY <3>1, <3>2 DEF RevisionsChain, GrantsChain
    <3>6. DecisionsChain'
      <4>1. SUFFICES ASSUME NEW d \in DOMAIN decisions' PROVE DecisionChain(d)'
        BY DEF DecisionsChain, DecisionChain
      <4>2. DecisionChain(d)
        BY <3>1 DEF RevisionsChain, DecisionsChain, DecisionChain
      <4>3. Entries({"decision.accept"}, d)' = Entries({"decision.accept"}, d)
        BY <3>2
      <4> QED BY <3>1, <4>2, <4>3 DEF DecisionChain
    <3> QED BY <3>3, <3>4, <3>5, <3>6 DEF RevisionsChain
  <2>2. ASSUME NEW t \in Transactions, Commit(t) PROVE RevisionsChain'
    BY <2>2, DocumentsChainKept, TicketsChainKept, GrantsChainKept, DecisionsChainKept DEF RevisionsChain
  <2> QED BY <2>1, <2>2
<1> QED BY <1>1, <1>2, CommandsInvariant, PTL DEF Spec

-----------------------------------------------------------------------------
(* Circles of waiting transactions *)

\* A number that separates the memberships locked before the Project from those
\* locked after it, where that matters.
Between(k) ==
    Offers(menu, {"workspace.owner.transfer"}) /\ Offers(menu, MemberKinds) =>
        \A c \in menu : (\A u \in LockedFirst(c) : u < k) /\ (\A u \in LockedLater(c) : k <= u)

\* The rows of a Project's members, which only holders of the Project lock.
Quiet(row) == row[1] \in {"role", "room"}

\* Rows that two commands of the menu can want in modes that conflict.
Contested(row) ==
    /\ ~Quiet(row)
    /\ row[1] = "membership" => Offers(menu, {"workspace.owner.transfer"})
    /\ row[1] = "project" => Offers(menu, MemberKinds)

\* The order in which contested rows are locked, for users up to n. A Component comes
\* before the Workspace, or after it if Repositories are linked. A transaction that
\* waits for the claim of another stands at Peak + 5.
Peak(n, k) == n + k + 10
Rank(n, k, row) ==
    CASE row[1] = "membership" -> IF row[2] < k THEN row[2] + 1 ELSE row[2] + 2
      [] row[1] = "project" -> k + 1
      [] row[1] \in {"document", "ticket", "environment"} -> Peak(n, k)
      [] row[1] = "authorization" -> Peak(n, k) + 1
      [] row[1] = "component" -> Peak(n, k) + IF Offers(menu, RepositoryKinds) THEN 7 ELSE 2
      [] row[1] = "link" -> Peak(n, k) + IF Offers(menu, RepositoryKinds) THEN 8 ELSE 3
      [] row[1] = "workspace" -> Peak(n, k) + 6
      [] OTHER -> 0

\* The next lock never blocks, because of what is held, or its row is above all that
\* are held. A lock on a quiet row is covered by one on the Project.
Backed(held, l) ==
    \E b \in held : b.row = <<"project">> /\ (l.mode = "update" => b.mode = "update")
Had(held, l) == \E h \in held : h.row = l.row /\ (h.mode = "update" \/ l.mode # "update")
Below(n, k, p, q) == Contested(p) /\ Contested(q) => Rank(n, k, p) < Rank(n, k, q)
Ahead(n, k, held, r) ==
    /\ Quiet(r.row) => Backed(held, r)
    /\ Had(held, r) \/ \A l \in held : Below(n, k, l.row, r.row)

\* All locks still to be taken are like that.
Upto(s, i) == {s[j] : j \in {x \in DOMAIN s : x < i}}
InOrder(n, k, held, todo) ==
    \A i \in DOMAIN todo : Ahead(n, k, held \cup Upto(todo, i), todo[i])

\* The only locks for update on memberships and on the Project.
Proper(c, l) ==
    /\ l.row[1] = "membership" => l.row[2] \in Users
    /\ l.mode = "update" =>
           /\ l.row[1] = "membership" => c.kind = "workspace.owner.transfer"
           /\ l.row[1] = "project" => c.kind \in MemberKinds

\* How far a transaction is along its plan.
InCourse(c, held, todo, claimed) ==
    IF c.kind = "workspace.owner.transfer" THEN claimed => todo = <<>>
    ELSE IF claimed
    THEN Elements(Before(c)) \subseteq held /\ Elements(todo) \subseteq Elements(After(c))
    ELSE held \cup Elements(todo) = Elements(Before(c))

Climbing(n, k, c, held, todo, claimed) ==
    /\ \A l \in held : Quiet(l.row) => Backed(held, l)
    /\ InOrder(n, k, held, todo)
    /\ \A l \in held \cup Elements(todo) : Proper(c, l)
    /\ InCourse(c, held, todo, claimed)

\* The users are numbered up to n, and the commands of the menu are orderly about k.
Setting(n, k) ==
    n \in Nat /\ k \in Nat /\ Users \subseteq 0..n /\ menu \in Menus /\ Orderly(menu) /\ Between(k)

\* Then every transaction climbs.
RanksOK(n, k) ==
    Setting(n, k) =>
        \A t \in Transactions : Runs(t) =>
            Climbing(n, k, tx[t].command, tx[t].held, tx[t].todo, tx[t].claimed)

-----------------------------------------------------------------------------
(* Plans in order *)

\* Nothing is in order,
LEMMA EmptyInOrder == \A n, k, held : InOrder(n, k, held, <<>>)
BY DEF InOrder

\* a sequence is if its first step is ahead and the others are after it,
LEMMA FirstInOrder ==
    ASSUME NEW n, NEW k, NEW held, NEW s, Sequence(s), s # <<>>
    PROVE  InOrder(n, k, held, s) <=>
               /\ Ahead(n, k, held, Head(s))
               /\ InOrder(n, k, held \cup {Head(s)}, Tail(s))
<1> DEFINE r == Tail(s)
<1>1. /\ Len(s) \in Nat \ {0} /\ DOMAIN s = 1..Len(s) /\ DOMAIN r = 1..(Len(s) - 1)
      /\ Head(s) = s[1] /\ \A i \in 1..(Len(s) - 1) : r[i] = s[i + 1]
  BY Shortened, SequenceDomain
<1> HIDE DEF r
<1>2. PICK m \in Nat \ {0} : m = Len(s)
  <2>1. Len(s) \in Nat \ {0}
    BY <1>1
  <2> QED BY <2>1
<1>3. DOMAIN s = 1..m /\ DOMAIN r = 1..(m - 1) /\ \A i \in 1..(m - 1) : r[i] = s[i + 1]
  BY <1>1, <1>2
<1>4. Upto(s, 1) = {}
  BY <1>3 DEF Upto
<1>5. ASSUME NEW i \in 1..(m - 1) PROVE Upto(s, i + 1) = {s[1]} \cup Upto(r, i)
  <2>1. ASSUME NEW j \in 1..m, j < i + 1 PROVE s[j] \in {s[1]} \cup Upto(r, i)
    <3>1. CASE j = 1
      BY <3>1
    <3>2. CASE j # 1
      <4>1. j - 1 \in 1..(m - 1) /\ j - 1 < i /\ r[j - 1] = s[j]
        BY <1>3, <2>1, <3>2
      <4> QED BY <1>3, <4>1 DEF Upto
    <3> QED BY <3>1, <3>2
  <2>2. ASSUME NEW j \in 1..(m - 1), j < i PROVE r[j] \in Upto(s, i + 1)
    <3>1. j + 1 \in 1..m /\ j + 1 < i + 1 /\ s[j + 1] = r[j]
      BY <1>3, <2>2
    <3> QED BY <1>3, <3>1 DEF Upto
  <2>3. s[1] \in Upto(s, i + 1)
    <3>1. 1 \in DOMAIN s /\ 1 < i + 1
      BY <1>3
    <3> QED BY <3>1 DEF Upto
  <2> QED BY <1>3, <2>1, <2>2, <2>3 DEF Upto
<1>6. \A i \in 1..(m - 1) :
          Ahead(n, k, held \cup Upto(s, i + 1), s[i + 1]) <=>
              Ahead(n, k, (held \cup {Head(s)}) \cup Upto(r, i), r[i])
  <2> TAKE i \in 1..(m - 1)
  <2>1. held \cup Upto(s, i + 1) = (held \cup {Head(s)}) \cup Upto(r, i)
    BY <1>1, <1>5
  <2> QED BY <1>3, <2>1
<1>7. Ahead(n, k, held \cup Upto(s, 1), s[1]) <=> Ahead(n, k, held, Head(s))
  <2>1. held \cup Upto(s, 1) = held
    BY <1>4
  <2> QED BY <1>1, <2>1
<1>8. \A i \in 1..m : i = 1 \/ \E j \in 1..(m - 1) : i = j + 1
  <2> TAKE i \in 1..m
  <2>1. i # 1 => i - 1 \in 1..(m - 1) /\ i = (i - 1) + 1
    OBVIOUS
  <2> QED BY <2>1
<1>9. 1 \in 1..m /\ \A j \in 1..(m - 1) : j + 1 \in 1..m
  OBVIOUS
<1> QED BY <1>3, <1>6, <1>7, <1>8, <1>9 DEF InOrder, r

\* and two sequences are, one after the other.
LEMMA JoinedInOrder ==
    ASSUME NEW n, NEW k, NEW held, NEW s, NEW r, Sequence(s), Sequence(r),
           InOrder(n, k, held, s), InOrder(n, k, held \cup Elements(s), r)
    PROVE  InOrder(n, k, held, s \o r)
<1> DEFINE long == s \o r
<1>1. Len(s) \in Nat /\ Len(r) \in Nat
  BY SequenceDomain
<1>2. PICK a \in Nat, b \in Nat : a = Len(s) /\ b = Len(r)
  BY <1>1
<1>3. DOMAIN s = 1..a /\ DOMAIN r = 1..b
  BY <1>2, SequenceDomain
<1>4. /\ Sequence(long) /\ Len(long) = Len(s) + Len(r)
      /\ \A i \in DOMAIN s : i \in DOMAIN long /\ long[i] = s[i]
      /\ \A i \in DOMAIN r : Len(s) + i \in DOMAIN long /\ long[Len(s) + i] = r[i]
  BY Joined
<1> HIDE DEF long
<1>5. DOMAIN long = 1..(a + b) /\ (\A i \in 1..a : long[i] = s[i]) /\ \A i \in 1..b : long[a + i] = r[i]
  <2>1. DOMAIN long = 1..Len(long) /\ Len(long) = a + b
    BY <1>2, <1>4, SequenceDomain
  <2> QED BY <1>2, <1>3, <1>4, <2>1
<1>6. ASSUME NEW i \in 1..a PROVE Ahead(n, k, held \cup Upto(long, i), long[i])
  <2>1. Upto(long, i) = Upto(s, i)
    BY <1>3, <1>5 DEF Upto
  <2>2. Ahead(n, k, held \cup Upto(s, i), s[i])
    BY <1>3 DEF InOrder
  <2> QED BY <1>5, <2>1, <2>2
<1>7. ASSUME NEW i \in 1..b PROVE Ahead(n, k, held \cup Upto(long, a + i), long[a + i])
  <2>1. Upto(long, a + i) = Elements(s) \cup Upto(r, i)
    <3>1. ASSUME NEW j \in 1..(a + b), j < a + i PROVE long[j] \in Elements(s) \cup Upto(r, i)
      <4>1. CASE j <= a
        BY <1>3, <1>5, <4>1 DEF Elements
      <4>2. CASE ~(j <= a)
        <5>1. j - a \in 1..b /\ j - a < i /\ a + (j - a) = j
          BY <3>1, <4>2
        <5>2. long[j] = r[j - a]
          BY <1>5, <5>1
        <5> QED BY <1>3, <5>1, <5>2 DEF Upto
      <4> QED BY <4>1, <4>2
    <3>2. ASSUME NEW j \in 1..a PROVE s[j] \in Upto(long, a + i)
      <4>1. j \in DOMAIN long /\ j < a + i /\ long[j] = s[j]
        BY <1>5
      <4> QED BY <4>1 DEF Upto
    <3>3. ASSUME NEW j \in 1..b, j < i PROVE r[j] \in Upto(long, a + i)
      <4>1. a + j \in DOMAIN long /\ a + j < a + i /\ long[a + j] = r[j]
        BY <1>5, <3>3
      <4> QED BY <4>1 DEF Upto
    <3> QED BY <1>3, <1>5, <3>1, <3>2, <3>3 DEF Upto, Elements
  <2>2. Ahead(n, k, (held \cup Elements(s)) \cup Upto(r, i), r[i])
    BY <1>3 DEF InOrder
  <2>3. held \cup Upto(long, a + i) = (held \cup Elements(s)) \cup Upto(r, i)
    BY <2>1
  <2> QED BY <1>5, <2>2, <2>3
<1>8. \A i \in 1..(a + b) : i \in 1..a \/ \E j \in 1..b : i = a + j
  <2> TAKE i \in 1..(a + b)
  <2>1. ~(i <= a) => i - a \in 1..b /\ i = a + (i - a)
    OBVIOUS
  <2> QED BY <2>1
<1>9. InOrder(n, k, held, long)
  BY <1>5, <1>6, <1>7, <1>8 DEF InOrder
<1> QED BY <1>9 DEF long

\* Tuples are in order step by step,
LEMMA TuplesInOrder ==
    ASSUME NEW n, NEW k, NEW H
    PROVE  /\ \A a : Ahead(n, k, H, a) => InOrder(n, k, H, <<a>>)
           /\ \A a, b : Ahead(n, k, H, a) /\ Ahead(n, k, H \cup {a}, b) => InOrder(n, k, H, <<a, b>>)
           /\ \A a, b, c :
                  Ahead(n, k, H, a) /\ Ahead(n, k, H \cup {a}, b) /\ Ahead(n, k, H \cup {a, b}, c) =>
                      InOrder(n, k, H, <<a, b, c>>)
<1>1. ASSUME NEW a, Ahead(n, k, H, a) PROVE InOrder(n, k, H, <<a>>)
  <2> DEFINE s == <<a>>
  <2>1. DOMAIN s = {1} /\ s[1] = a
    OBVIOUS
  <2> HIDE DEF s
  <2>2. H \cup Upto(s, 1) = H
    BY <2>1 DEF Upto
  <2>3. InOrder(n, k, H, s)
    BY <1>1, <2>1, <2>2 DEF InOrder
  <2> QED BY <2>3 DEF s
<1>2. ASSUME NEW a, NEW b, Ahead(n, k, H, a), Ahead(n, k, H \cup {a}, b)
      PROVE  InOrder(n, k, H, <<a, b>>)
  <2> DEFINE s == <<a, b>>
  <2>1. DOMAIN s = {1, 2} /\ s[1] = a /\ s[2] = b
    OBVIOUS
  <2> HIDE DEF s
  <2>2. H \cup Upto(s, 1) = H /\ H \cup Upto(s, 2) = H \cup {a}
    BY <2>1 DEF Upto
  <2>3. InOrder(n, k, H, s)
    BY <1>2, <2>1, <2>2 DEF InOrder
  <2> QED BY <2>3 DEF s
<1>3. ASSUME NEW a, NEW b, NEW c,
             Ahead(n, k, H, a), Ahead(n, k, H \cup {a}, b), Ahead(n, k, H \cup {a, b}, c)
      PROVE  InOrder(n, k, H, <<a, b, c>>)
  <2> DEFINE s == <<a, b, c>>
  <2>1. DOMAIN s = {1, 2, 3} /\ s[1] = a /\ s[2] = b /\ s[3] = c
    OBVIOUS
  <2> HIDE DEF s
  <2>2. H \cup Upto(s, 1) = H /\ H \cup Upto(s, 2) = H \cup {a} /\ H \cup Upto(s, 3) = H \cup {a, b}
    BY <2>1 DEF Upto
  <2>3. InOrder(n, k, H, s)
    BY <1>3, <2>1, <2>2 DEF InOrder
  <2> QED BY <2>3 DEF s
<1> QED BY <1>1, <1>2, <1>3

-----------------------------------------------------------------------------
(* Rows in order *)

\* How high the rows are: members,
LEMMA MemberHeights ==
    ASSUME NEW n \in Nat, NEW k \in Nat, NEW u \in 0..n
    PROVE  /\ Rank(n, k, <<"membership", u>>) \in 1..(n + 2)
           /\ u < k => Rank(n, k, <<"membership", u>>) = u + 1
           /\ k <= u => Rank(n, k, <<"membership", u>>) = u + 2
<1>1. Rank(n, k, <<"membership", u>>) = IF u < k THEN u + 1 ELSE u + 2
  BY DEF Rank
<1>2. CASE u < k
  BY <1>1, <1>2
<1>3. CASE ~(u < k)
  BY <1>1, <1>3
<1> QED BY <1>2, <1>3

\* and all others.
LEMMA Heights ==
    ASSUME NEW n, NEW k
    PROVE  /\ Rank(n, k, <<"project">>) = k + 1
           /\ Rank(n, k, <<"environment">>) = Peak(n, k)
           /\ Rank(n, k, <<"workspace">>) = Peak(n, k) + 6
           /\ \A x : /\ Rank(n, k, <<"document", x>>) = Peak(n, k)
                     /\ Rank(n, k, <<"ticket", x>>) = Peak(n, k)
                     /\ Rank(n, k, <<"authorization", x>>) = Peak(n, k) + 1
                     /\ Rank(n, k, <<"decision", x>>) = 0
           /\ Offers(menu, RepositoryKinds) =>
                  \A x : /\ Rank(n, k, <<"component", x>>) = Peak(n, k) + 7
                         /\ Rank(n, k, <<"link", x>>) = Peak(n, k) + 8
           /\ ~Offers(menu, RepositoryKinds) =>
                  \A x : /\ Rank(n, k, <<"component", x>>) = Peak(n, k) + 2
                         /\ Rank(n, k, <<"link", x>>) = Peak(n, k) + 3
BY DEF Rank

\* Which rows are below which: members,
LEMMA MembersBelow ==
    ASSUME NEW n, NEW k, Setting(n, k), NEW u \in Users
    PROVE  /\ \A c \in menu : /\ u \in LockedFirst(c) => Below(n, k, <<"membership", u>>, <<"project">>)
                              /\ u \in LockedLater(c) => Below(n, k, <<"project">>, <<"membership", u>>)
           /\ \A v \in Users : u < v => Below(n, k, <<"membership", u>>, <<"membership", v>>)
           /\ \A x : /\ Below(n, k, <<"decision", x>>, <<"membership", u>>)
                     /\ Below(n, k, <<"membership", u>>, <<"document", x>>)
                     /\ Below(n, k, <<"membership", u>>, <<"ticket", x>>)
                     /\ Below(n, k, <<"membership", u>>, <<"authorization", x>>)
                     /\ Below(n, k, <<"membership", u>>, <<"component", x>>)
                     /\ Below(n, k, <<"membership", u>>, <<"link", x>>)
           /\ Below(n, k, <<"membership", u>>, <<"environment">>)
           /\ Below(n, k, <<"membership", u>>, <<"workspace">>)
<1>1. n \in Nat /\ k \in Nat /\ \A v \in Users : v \in 0..n
  BY DEF Setting
<1> DEFINE h == Rank(n, k, <<"membership", u>>)
           b == Peak(n, k)
<1>2. h \in 1..(n + 2) /\ (u < k => h = u + 1) /\ (k <= u => h = u + 2)
  BY <1>1, MemberHeights
<1>3. b \in Nat /\ n + 2 < b
  BY <1>1 DEF Peak
<1>4. /\ Rank(n, k, <<"project">>) = k + 1
      /\ Rank(n, k, <<"environment">>) = b /\ Rank(n, k, <<"workspace">>) = b + 6
  BY Heights
<1>5. ASSUME NEW x
      PROVE  /\ Rank(n, k, <<"document", x>>) = b /\ Rank(n, k, <<"ticket", x>>) = b
             /\ Rank(n, k, <<"authorization", x>>) = b + 1 /\ Rank(n, k, <<"decision", x>>) = 0
             /\ Rank(n, k, <<"component", x>>) \in {b + 2, b + 7}
             /\ Rank(n, k, <<"link", x>>) \in {b + 3, b + 8}
  BY Heights
<1> HIDE DEF b
<1>6. ASSUME NEW c \in menu, u \in LockedFirst(c)
      PROVE  Below(n, k, <<"membership", u>>, <<"project">>)
  <2>1. ASSUME Contested(<<"membership", u>>), Contested(<<"project">>) PROVE u < k
    BY <1>6, <2>1 DEF Contested, Setting, Between
  <2>2. u < k => h < k + 1
    BY <1>1, <1>2
  <2> QED BY <1>4, <2>1, <2>2 DEF Below
<1>7. ASSUME NEW c \in menu, u \in LockedLater(c)
      PROVE  Below(n, k, <<"project">>, <<"membership", u>>)
  <2>1. ASSUME Contested(<<"membership", u>>), Contested(<<"project">>) PROVE k <= u
    BY <1>7, <2>1 DEF Contested, Setting, Between
  <2>2. k <= u => k + 1 < h
    BY <1>1, <1>2
  <2> QED BY <1>4, <2>1, <2>2 DEF Below
<1>8. ASSUME NEW v \in Users, u < v PROVE Below(n, k, <<"membership", u>>, <<"membership", v>>)
  <2> DEFINE g == Rank(n, k, <<"membership", v>>)
  <2>1. (v < k => g = v + 1) /\ (k <= v => g = v + 2)
    BY <1>1, MemberHeights
  <2>2. h < g
    <3> HIDE DEF h, g
    <3> QED BY <1>1, <1>2, <1>8, <2>1
  <2> QED BY <2>2 DEF Below
<1> HIDE DEF h
<1>9. h \in Nat /\ 0 < h /\ h < b /\ h < b + 1 /\ h < b + 2 /\ h < b + 3 /\ h < b + 6 /\ h < b + 7 /\ h < b + 8
  BY <1>1, <1>2, <1>3
<1>10. ASSUME NEW x
       PROVE  /\ Below(n, k, <<"decision", x>>, <<"membership", u>>)
              /\ Below(n, k, <<"membership", u>>, <<"document", x>>)
              /\ Below(n, k, <<"membership", u>>, <<"ticket", x>>)
              /\ Below(n, k, <<"membership", u>>, <<"authorization", x>>)
              /\ Below(n, k, <<"membership", u>>, <<"component", x>>)
              /\ Below(n, k, <<"membership", u>>, <<"link", x>>)
  BY <1>5, <1>9 DEF Below, h
<1>11. Below(n, k, <<"membership", u>>, <<"environment">>) /\ Below(n, k, <<"membership", u>>, <<"workspace">>)
  BY <1>4, <1>9 DEF Below, h
<1> QED BY <1>6, <1>7, <1>8, <1>10, <1>11

\* and all others.
LEMMA RowsBelow ==
    ASSUME NEW n, NEW k, Setting(n, k)
    PROVE  /\ \A x : /\ Below(n, k, <<"decision", x>>, <<"project">>)
                     /\ Below(n, k, <<"project">>, <<"document", x>>)
                     /\ Below(n, k, <<"project">>, <<"ticket", x>>)
                     /\ Below(n, k, <<"project">>, <<"component", x>>)
                     /\ Below(n, k, <<"project">>, <<"link", x>>)
                     /\ Below(n, k, <<"environment">>, <<"authorization", x>>)
           /\ \A x, y : /\ Below(n, k, <<"ticket", x>>, <<"component", y>>)
                        /\ Below(n, k, <<"ticket", x>>, <<"link", y>>)
                        /\ Below(n, k, <<"component", x>>, <<"link", y>>)
           /\ Offers(menu, RepositoryKinds) =>
                  \A x : /\ Below(n, k, <<"workspace">>, <<"component", x>>)
                         /\ Below(n, k, <<"workspace">>, <<"link", x>>)
           /\ \A p, q : Quiet(p) \/ Quiet(q) => Below(n, k, p, q)
<1> DEFINE b == Peak(n, k)
<1>1. b \in Nat /\ k \in Nat /\ k + 1 < b
  BY DEF Peak, Setting
<1>2. /\ Rank(n, k, <<"project">>) = k + 1
      /\ Rank(n, k, <<"environment">>) = b /\ Rank(n, k, <<"workspace">>) = b + 6
  BY Heights
<1>3. ASSUME NEW x
      PROVE  /\ Rank(n, k, <<"document", x>>) = b /\ Rank(n, k, <<"ticket", x>>) = b
             /\ Rank(n, k, <<"authorization", x>>) = b + 1 /\ Rank(n, k, <<"decision", x>>) = 0
             /\ Offers(menu, RepositoryKinds) => /\ Rank(n, k, <<"component", x>>) = b + 7
                                                 /\ Rank(n, k, <<"link", x>>) = b + 8
             /\ ~Offers(menu, RepositoryKinds) => /\ Rank(n, k, <<"component", x>>) = b + 2
                                                  /\ Rank(n, k, <<"link", x>>) = b + 3
  BY Heights
<1> HIDE DEF b
<1>4. ASSUME NEW x
      PROVE  /\ Below(n, k, <<"decision", x>>, <<"project">>)
             /\ Below(n, k, <<"project">>, <<"document", x>>)
             /\ Below(n, k, <<"project">>, <<"ticket", x>>)
             /\ Below(n, k, <<"project">>, <<"component", x>>)
             /\ Below(n, k, <<"project">>, <<"link", x>>)
             /\ Below(n, k, <<"environment">>, <<"authorization", x>>)
             /\ Offers(menu, RepositoryKinds) => /\ Below(n, k, <<"workspace">>, <<"component", x>>)
                                                 /\ Below(n, k, <<"workspace">>, <<"link", x>>)
  <2>1. /\ 0 < k + 1 /\ k + 1 < b + 2 /\ k + 1 < b + 7 /\ k + 1 < b + 3 /\ k + 1 < b + 8
        /\ b < b + 1 /\ b + 6 < b + 7 /\ b + 6 < b + 8
    BY <1>1
  <2>2. CASE Offers(menu, RepositoryKinds)
    BY <1>1, <1>2, <1>3, <2>1, <2>2 DEF Below
  <2>3. CASE ~Offers(menu, RepositoryKinds)
    BY <1>1, <1>2, <1>3, <2>1, <2>3 DEF Below
  <2> QED BY <2>2, <2>3
<1>5. ASSUME NEW x, NEW y
      PROVE  /\ Below(n, k, <<"ticket", x>>, <<"component", y>>)
             /\ Below(n, k, <<"ticket", x>>, <<"link", y>>)
             /\ Below(n, k, <<"component", x>>, <<"link", y>>)
  <2>1. b < b + 2 /\ b < b + 3 /\ b + 2 < b + 3 /\ b < b + 7 /\ b < b + 8 /\ b + 7 < b + 8
    BY <1>1
  <2>2. CASE Offers(menu, RepositoryKinds)
    BY <1>3, <2>1, <2>2 DEF Below
  <2>3. CASE ~Offers(menu, RepositoryKinds)
    BY <1>3, <2>1, <2>3 DEF Below
  <2> QED BY <2>2, <2>3
<1>6. \A p, q : Quiet(p) \/ Quiet(q) => Below(n, k, p, q)
  BY DEF Below, Contested
<1> QED BY <1>4, <1>5, <1>6

-----------------------------------------------------------------------------
(* The plans of the commands are in order *)

\* What a step of a plan is like: below the place where one waits for a claim, unless
\* it is the Workspace that is locked before.
Step(n, k, c, l) ==
    /\ Proper(c, l)
    /\ c.kind \notin RepositoryKinds \cup {"workspace.owner.transfer"} =>
           (Contested(l.row) => Rank(n, k, l.row) < Peak(n, k) + 5)
Planned(n, k, c, held, plan) ==
    Sequence(plan) /\ InOrder(n, k, held, plan) /\ \A l \in Elements(plan) : Step(n, k, c, l)

\* The parts of a step,
LEMMA StepParts ==
    \A r, m : /\ Lock(r, m).row = r /\ Lock(r, m).mode = m
              /\ Checked(r, m).row = r /\ Checked(r, m).mode = m
BY DEF Lock, Checked

\* the steps that occur,
LEMMA Steps ==
    ASSUME NEW n, NEW k, Setting(n, k), NEW c \in menu
    PROVE  /\ \A l : \A u \in Users :
                  l.row = <<"membership", u>> /\ (l.mode # "update" \/ c.kind = "workspace.owner.transfer") =>
                      Step(n, k, c, l)
           /\ \A l : l.row = <<"project">> /\ (l.mode # "update" \/ c.kind \in MemberKinds) =>
                  Step(n, k, c, l)
           /\ \A l, x : l.row \in {<<"environment">>, <<"decision", x>>, <<"document", x>>, <<"ticket", x>>,
                                   <<"authorization", x>>} => Step(n, k, c, l)
           /\ \A l : Quiet(l.row) => Step(n, k, c, l)
           /\ \A l, x : c.kind \in TicketComponentKinds /\ l.row \in {<<"component", x>>, <<"link", x>>} =>
                  Step(n, k, c, l)
           /\ \A l, x : c.kind \in RepositoryKinds \cup {"workspace.owner.transfer"} /\
                  l.row \in {<<"component", x>>, <<"link", x>>, <<"workspace">>} => Step(n, k, c, l)
<1> DEFINE b == Peak(n, k)
<1>1. b \in Nat /\ k \in Nat /\ k + 1 < b
  BY DEF Peak, Setting
<1>2. Rank(n, k, <<"project">>) = k + 1 /\ Rank(n, k, <<"environment">>) = b
  BY Heights
<1>3. ASSUME NEW x
      PROVE  /\ Rank(n, k, <<"document", x>>) = b /\ Rank(n, k, <<"ticket", x>>) = b
             /\ Rank(n, k, <<"authorization", x>>) = b + 1 /\ Rank(n, k, <<"decision", x>>) = 0
             /\ ~Offers(menu, RepositoryKinds) => /\ Rank(n, k, <<"component", x>>) = b + 2
                                                  /\ Rank(n, k, <<"link", x>>) = b + 3
  BY Heights
<1>4. c.kind \in TicketComponentKinds => ~Offers(menu, RepositoryKinds)
  BY DEF Setting, Orderly, Offers
<1>5. ASSUME NEW l, NEW u \in Users, l.row = <<"membership", u>>,
             l.mode # "update" \/ c.kind = "workspace.owner.transfer"
      PROVE  Step(n, k, c, l)
  <2>1. Rank(n, k, <<"membership", u>>) \in 1..(n + 2) /\ n \in Nat /\ n + 2 < b
    <3>1. u \in 0..n /\ n \in Nat
      BY DEF Setting
    <3> QED BY <1>1, <3>1, MemberHeights DEF Peak
  <2>2. Rank(n, k, <<"membership", u>>) < b + 5
    BY <1>1, <2>1
  <2>3. Proper(c, l)
    BY <1>5 DEF Proper
  <2> QED BY <1>5, <2>2, <2>3 DEF Step
<1> HIDE DEF b
<1>6. 0 < b + 5 /\ k + 1 < b + 5 /\ b < b + 5 /\ b + 1 < b + 5 /\ b + 2 < b + 5 /\ b + 3 < b + 5
  BY <1>1
<1>7. ASSUME NEW l, l.row = <<"project">>, l.mode # "update" \/ c.kind \in MemberKinds
      PROVE  Step(n, k, c, l)
  BY <1>2, <1>6, <1>7 DEF Step, Proper, b
<1>8. ASSUME NEW l, NEW x, l.row \in {<<"environment">>, <<"decision", x>>, <<"document", x>>, <<"ticket", x>>,
                                      <<"authorization", x>>}
      PROVE  Step(n, k, c, l)
  <2>1. Rank(n, k, l.row) \in {b, b + 1, 0}
    BY <1>2, <1>3, <1>8
  <2>2. Rank(n, k, l.row) < b + 5
    BY <1>6, <2>1
  <2>3. l.row[1] \in {"environment", "decision", "document", "ticket", "authorization"}
    BY <1>8
  <2>4. Proper(c, l)
    BY <2>3 DEF Proper
  <2> QED BY <2>2, <2>4 DEF Step, b
<1>9. ASSUME NEW l, Quiet(l.row) PROVE Step(n, k, c, l)
  BY <1>9 DEF Step, Proper, Contested, Quiet
<1>10. ASSUME NEW l, NEW x, l.row \in {<<"component", x>>, <<"link", x>>}, c.kind \in TicketComponentKinds
       PROVE  Step(n, k, c, l)
  <2>1. Rank(n, k, l.row) \in {b + 2, b + 3}
    BY <1>3, <1>4, <1>10
  <2>2. Rank(n, k, l.row) < b + 5
    BY <1>6, <2>1
  <2>3. l.row[1] \in {"component", "link"}
    BY <1>10
  <2>4. Proper(c, l)
    BY <2>3 DEF Proper
  <2> QED BY <2>2, <2>4 DEF Step, b
<1>11. ASSUME NEW l, NEW x, c.kind \in RepositoryKinds \cup {"workspace.owner.transfer"},
              l.row \in {<<"component", x>>, <<"link", x>>, <<"workspace">>}
       PROVE  Step(n, k, c, l)
  BY <1>11 DEF Step, Proper
<1> QED BY <1>5, <1>7, <1>8, <1>9, <1>10, <1>11

\* plans of up to three,
LEMMA TuplesPlanned ==
    ASSUME NEW n, NEW k, NEW c, NEW H
    PROVE  /\ Planned(n, k, c, H, <<>>)
           /\ \A x : Ahead(n, k, H, x) /\ Step(n, k, c, x) => Planned(n, k, c, H, <<x>>)
           /\ \A x, y :
                  (/\ Ahead(n, k, H, x) /\ Step(n, k, c, x)
                   /\ Ahead(n, k, H \cup {x}, y) /\ Step(n, k, c, y)) => Planned(n, k, c, H, <<x, y>>)
           /\ \A x, y, z :
                  (/\ Ahead(n, k, H, x) /\ Step(n, k, c, x)
                   /\ Ahead(n, k, H \cup {x}, y) /\ Step(n, k, c, y)
                   /\ Ahead(n, k, H \cup {x, y}, z) /\ Step(n, k, c, z)) => Planned(n, k, c, H, <<x, y, z>>)
<1>1. Planned(n, k, c, H, <<>>)
  BY Listing, EmptyInOrder DEF Planned
<1>2. ASSUME NEW x, Ahead(n, k, H, x), Step(n, k, c, x) PROVE Planned(n, k, c, H, <<x>>)
  <2>1. Sequence(<<x>>) /\ Elements(<<x>>) = {x} /\ InOrder(n, k, H, <<x>>)
    BY <1>2, Listing, TuplesInOrder
  <2> QED BY <1>2, <2>1 DEF Planned
<1>3. ASSUME NEW x, NEW y, Ahead(n, k, H, x), Step(n, k, c, x), Ahead(n, k, H \cup {x}, y), Step(n, k, c, y)
      PROVE  Planned(n, k, c, H, <<x, y>>)
  <2>1. Sequence(<<x, y>>) /\ Elements(<<x, y>>) = {x, y} /\ InOrder(n, k, H, <<x, y>>)
    BY <1>3, Listing, TuplesInOrder
  <2> QED BY <1>3, <2>1 DEF Planned
<1>4. ASSUME NEW x, NEW y, NEW z, Ahead(n, k, H, x), Step(n, k, c, x), Ahead(n, k, H \cup {x}, y),
             Step(n, k, c, y), Ahead(n, k, H \cup {x, y}, z), Step(n, k, c, z)
      PROVE  Planned(n, k, c, H, <<x, y, z>>)
  <2>1. Sequence(<<x, y, z>>) /\ Elements(<<x, y, z>>) = {x, y, z} /\ InOrder(n, k, H, <<x, y, z>>)
    BY <1>4, Listing, TuplesInOrder
  <2> QED BY <1>4, <2>1 DEF Planned
<1> QED BY <1>1, <1>2, <1>3, <1>4

\* and two plans in a row.
LEMMA JoinedPlanned ==
    ASSUME NEW n, NEW k, NEW c, NEW H, NEW s, NEW r,
           Planned(n, k, c, H, s), Planned(n, k, c, H \cup Elements(s), r)
    PROVE  Planned(n, k, c, H, s \o r)
<1>1. Sequence(s) /\ Sequence(r) /\ InOrder(n, k, H, s) /\ InOrder(n, k, H \cup Elements(s), r)
  BY DEF Planned
<1>2. InOrder(n, k, H, s \o r)
  BY <1>1, JoinedInOrder
<1>3. Sequence(s \o r) /\ Elements(s \o r) = Elements(s) \cup Elements(r)
  BY <1>1, ElementsJoined
<1> QED BY <1>2, <1>3 DEF Planned

\* A step is ahead if its row is not quiet and above those held, or is covered.
LEMMA AheadOf ==
    ASSUME NEW n, NEW k, NEW H, NEW l
    PROVE  /\ ~Quiet(l.row) /\ (\A h \in H : Below(n, k, h.row, l.row)) => Ahead(n, k, H, l)
           /\ ~Quiet(l.row) /\ Had(H, l) => Ahead(n, k, H, l)
           /\ Quiet(l.row) /\ Backed(H, l) => Ahead(n, k, H, l)
BY DEF Ahead, Below, Contested

\* The membership first,
LEMMA FirstPlans ==
    ASSUME NEW n, NEW k, Setting(n, k), NEW c \in menu, c.actor \in Users, c.actor \in LockedFirst(c)
    PROVE  /\ Planned(n, k, c, {}, ActorThenAccess(c.actor))
           /\ Elements(ActorThenAccess(c.actor)) = {Lock(<<"membership", c.actor>>, "share"),
                  Lock(<<"project">>, "share"), Checked(<<"role", c.actor>>, "share")}
           /\ c.kind \in MemberKinds => Planned(n, k, c, {}, MemberPlan(c))
<1>1. ASSUME NEW m, NEW p, NEW r, m.row = <<"membership", c.actor>>, m.mode = "share",
             p.row = <<"project">>, p.mode # "update" \/ c.kind \in MemberKinds,
             r.row = <<"role", c.actor>>, r.mode = "share"
      PROVE  Planned(n, k, c, {}, <<m, p, r>>)
  <2>1. Step(n, k, c, m) /\ Step(n, k, c, p)
    BY <1>1, Steps
  <2>2. Quiet(r.row) /\ ~Quiet(m.row) /\ ~Quiet(p.row)
    BY <1>1 DEF Quiet
  <2>3. Step(n, k, c, r)
    BY <2>2, Steps
  <2>4. Ahead(n, k, {}, m)
    BY <2>2, AheadOf
  <2>5. Ahead(n, k, {} \cup {m}, p)
    <3>1. Below(n, k, m.row, p.row)
      BY <1>1, MembersBelow
    <3> QED BY <2>2, <3>1, AheadOf
  <2>6. Ahead(n, k, {} \cup {m, p}, r)
    <3>1. Backed({} \cup {m, p}, r)
      BY <1>1 DEF Backed
    <3> QED BY <2>2, <3>1, AheadOf
  <2> QED BY <2>1, <2>3, <2>4, <2>5, <2>6, TuplesPlanned
<1>2. Planned(n, k, c, {}, ActorThenAccess(c.actor))
  BY <1>1, StepParts DEF ActorThenAccess
<1>3. Elements(ActorThenAccess(c.actor)) = {Lock(<<"membership", c.actor>>, "share"),
          Lock(<<"project">>, "share"), Checked(<<"role", c.actor>>, "share")}
  BY Listing DEF ActorThenAccess
<1>4. ASSUME c.kind \in MemberKinds PROVE Planned(n, k, c, {}, MemberPlan(c))
  BY <1>1, <1>4, StepParts DEF MemberPlan
<1> QED BY <1>2, <1>3, <1>4

\* the Project first,
LEMMA LaterPlans ==
    ASSUME NEW n, NEW k, Setting(n, k), NEW c \in menu, c.actor \in Users, c.actor \in LockedLater(c),
           NEW H, \A h \in H : \E x : h.row = <<"decision", x>>
    PROVE  Planned(n, k, c, H, Access(c.actor))
<1>1. ASSUME NEW m, NEW p, NEW r, m.row = <<"membership", c.actor>>, m.mode = "share",
             p.row = <<"project">>, p.mode = "share", r.row = <<"role", c.actor>>, r.mode = "share"
      PROVE  Planned(n, k, c, H, <<p, m, r>>)
  <2>1. Step(n, k, c, m) /\ Step(n, k, c, p)
    BY <1>1, Steps
  <2>2. Quiet(r.row) /\ ~Quiet(m.row) /\ ~Quiet(p.row)
    BY <1>1 DEF Quiet
  <2>3. Step(n, k, c, r)
    BY <2>2, Steps
  <2>4. ASSUME NEW h \in H PROVE Below(n, k, h.row, p.row) /\ Below(n, k, h.row, m.row)
    <3>1. PICK x : h.row = <<"decision", x>>
      OBVIOUS
    <3>2. Below(n, k, <<"decision", x>>, <<"project">>)
      BY RowsBelow
    <3>3. Below(n, k, <<"decision", x>>, <<"membership", c.actor>>)
      BY MembersBelow
    <3> QED BY <1>1, <3>1, <3>2, <3>3
  <2>5. Ahead(n, k, H, p)
    BY <2>2, <2>4, AheadOf
  <2>6. Ahead(n, k, H \cup {p}, m)
    <3>1. Below(n, k, p.row, m.row)
      BY <1>1, MembersBelow
    <3>2. \A h \in H \cup {p} : Below(n, k, h.row, m.row)
      BY <2>4, <3>1
    <3> QED BY <2>2, <3>2, AheadOf
  <2>7. Ahead(n, k, H \cup {p, m}, r)
    <3>1. Backed(H \cup {p, m}, r)
      BY <1>1 DEF Backed
    <3> QED BY <2>2, <3>1, AheadOf
  <2> QED BY <2>1, <2>3, <2>5, <2>6, <2>7, TuplesPlanned
<1> QED BY <1>1, StepParts DEF Access

\* One more step at the end of a plan.
LEMMA AppendedPlanned ==
    ASSUME NEW n, NEW k, NEW c, NEW H, NEW s, Planned(n, k, c, H, s),
           NEW x, Step(n, k, c, x), Ahead(n, k, H \cup Elements(s), x)
    PROVE  Planned(n, k, c, H, Append(s, x))
<1>1. Append(s, x) = s \o <<x>>
  <2> DEFINE S == Elements(s) \cup {x}
  <2>1. s \in Seq(S) /\ x \in S
    BY SequenceDomain DEF Planned, Sequence
  <2> HIDE DEF S
  <2> QED BY <2>1, AppendIsConcat
<1>2. Planned(n, k, c, H \cup Elements(s), <<x>>)
  BY TuplesPlanned
<1> QED BY <1>1, <1>2, JoinedPlanned

\* What the setting says of each command.
LEMMA InSetting ==
    ASSUME NEW n, NEW k, Setting(n, k), NEW c \in menu
    PROVE  /\ WellFormed(c) /\ c.actor \in Users
           /\ c.kind \in TicketComponentKinds => ~Offers(menu, RepositoryKinds)
           /\ c.kind \in RepositoryKinds => Offers(menu, RepositoryKinds)
<1>1. WellFormed(c)
  BY CommandsAssumption DEF Setting
<1> QED BY <1>1 DEF WellFormed, Setting, Orderly, Offers

\* The plan of each kind.
LEMMA Plans ==
    ASSUME NEW c
    PROVE  /\ c.kind = "document.create" => Before(c) = ActorThenAccess(c.actor)
           /\ c.kind \in {"document.save", "document.restore"} =>
                  Before(c) = Append(ActorThenAccess(c.actor), Lock(<<"document", c.target>>, "update"))
           /\ c.kind = "ticket.status.change" =>
                  Before(c) = Append(ActorThenAccess(c.actor), Lock(<<"ticket", c.target>>, "update"))
           /\ c.kind = "decision.propose" => Before(c) = Access(c.actor)
           /\ c.kind = "decision.accept" =>
                  Before(c) = <<Lock(<<"decision", c.target>>, "update")>> \o Access(c.actor)
           /\ c.kind = "ticket.create" =>
                  Before(c) = <<Lock(<<"decision", c.target>>, "share")>> \o Access(c.actor)
           /\ c.kind \in TicketComponentKinds => Before(c) = TicketComponentPlan(c)
           /\ c.kind \in RepositoryKinds => Before(c) = RepositoryPlan(c)
           /\ c.kind \in {"message.create", "thread.start"} => Before(c) = RoomPlan(c)
           /\ c.kind \in ProjectMemberKinds \cup {"channel.create"} => Before(c) = MemberPlan(c)
           /\ c.kind \in ChannelMemberKinds => Before(c) = ChannelMemberPlan(c)
           /\ c.kind = "workspace.owner.transfer" => Before(c) = TransferPlan(c)
           /\ c.kind \in AuthorizationKinds => Before(c) = AuthorizationPlan(c)
           /\ c.kind = "deployment.record" => Before(c) = DeploymentPlan(c)
<1> USE DEF RepositoryKinds, AuthorizationKinds, ChannelMemberKinds, ProjectMemberKinds, TicketComponentKinds
<1>1. c.kind = "document.create" => Before(c) = ActorThenAccess(c.actor)
  BY DEF Before
<1>2. c.kind \in {"document.save", "document.restore"} =>
          Before(c) = Append(ActorThenAccess(c.actor), Lock(<<"document", c.target>>, "update"))
  <2>1. c.kind = "document.save" =>
            Before(c) = Append(ActorThenAccess(c.actor), Lock(<<"document", c.target>>, "update"))
    BY DEF Before
  <2>2. c.kind = "document.restore" =>
            Before(c) = Append(ActorThenAccess(c.actor), Lock(<<"document", c.target>>, "update"))
    BY DEF Before
  <2> QED BY <2>1, <2>2
<1>3. c.kind = "ticket.status.change" =>
          Before(c) = Append(ActorThenAccess(c.actor), Lock(<<"ticket", c.target>>, "update"))
  BY DEF Before
<1>4. c.kind = "decision.propose" => Before(c) = Access(c.actor)
  BY DEF Before
<1>5. c.kind = "decision.accept" => Before(c) = <<Lock(<<"decision", c.target>>, "update")>> \o Access(c.actor)
  BY DEF Before
<1>6. c.kind = "ticket.create" => Before(c) = <<Lock(<<"decision", c.target>>, "share")>> \o Access(c.actor)
  BY DEF Before
<1>7. c.kind \in TicketComponentKinds => Before(c) = TicketComponentPlan(c)
  BY DEF Before
<1>8. c.kind \in RepositoryKinds => Before(c) = RepositoryPlan(c)
  BY DEF Before
<1>9. c.kind \in {"message.create", "thread.start"} => Before(c) = RoomPlan(c)
  BY DEF Before
<1>10. c.kind \in ProjectMemberKinds \cup {"channel.create"} => Before(c) = MemberPlan(c)
  BY DEF Before
<1>11. c.kind \in ChannelMemberKinds => Before(c) = ChannelMemberPlan(c)
  BY DEF Before
<1>12. c.kind = "workspace.owner.transfer" => Before(c) = TransferPlan(c)
  BY DEF Before
<1>13. c.kind \in AuthorizationKinds => Before(c) = AuthorizationPlan(c)
  BY DEF Before
<1>14. c.kind = "deployment.record" => Before(c) = DeploymentPlan(c)
  BY DEF Before
<1> QED BY <1>1, <1>2, <1>3, <1>4, <1>5, <1>6, <1>7, <1>8, <1>9, <1>10, <1>11, <1>12, <1>13, <1>14

\* Documents and the status of Tickets: the object last.
LEMMA DocumentPlans ==
    ASSUME NEW n, NEW k, Setting(n, k), NEW c \in menu,
           c.kind \in DocumentKinds \cup {"ticket.status.change"}
    PROVE  Planned(n, k, c, {}, Before(c))
<1> DEFINE plan == ActorThenAccess(c.actor)
           m == Lock(<<"membership", c.actor>>, "share")
           p == Lock(<<"project">>, "share")
           r == Checked(<<"role", c.actor>>, "share")
<1>1. c.actor \in Users /\ c.actor \in LockedFirst(c)
  BY InSetting DEF LockedFirst
<1>2. Planned(n, k, c, {}, plan) /\ Elements(plan) = {m, p, r}
  BY <1>1, FirstPlans
<1>3. CASE c.kind = "document.create"
  BY <1>2, <1>3, Plans
<1>4. CASE c.kind # "document.create"
  <2>1. PICK x, z : x.row \in {<<"document", z>>, <<"ticket", z>>} /\ Before(c) = Append(plan, x)
    <3>1. CASE c.kind = "ticket.status.change"
      <4>1. Before(c) = Append(plan, Lock(<<"ticket", c.target>>, "update"))
        BY <3>1, Plans
      <4> QED BY <4>1, StepParts
    <3>2. CASE c.kind \in {"document.save", "document.restore"}
      <4>1. Before(c) = Append(plan, Lock(<<"document", c.target>>, "update"))
        BY <3>2, Plans
      <4> QED BY <4>1, StepParts
    <3> QED BY <1>4, <3>1, <3>2 DEF DocumentKinds
  <2>2. m.row = <<"membership", c.actor>> /\ p.row = <<"project">> /\ Quiet(r.row)
    BY StepParts DEF Quiet
  <2> HIDE DEF m, p, r, plan
  <2>3. ~Quiet(x.row) /\ Step(n, k, c, x)
    <3>1. Step(n, k, c, x)
      BY <2>1, Steps
    <3> QED BY <2>1, <3>1 DEF Quiet
  <2>4. Below(n, k, m.row, x.row)
    BY <1>1, <2>1, <2>2, MembersBelow
  <2>5. Below(n, k, p.row, x.row) /\ Below(n, k, r.row, x.row)
    BY <2>1, <2>2, RowsBelow
  <2>6. Ahead(n, k, {} \cup Elements(plan), x)
    BY <1>2, <2>3, <2>4, <2>5, AheadOf
  <2>7. Planned(n, k, c, {}, Append(plan, x))
    BY <1>2, <2>3, <2>6, AppendedPlanned
  <2> QED BY <2>1, <2>7 DEF plan
<1> QED BY <1>3, <1>4

\* Decisions: the Decision before the Project.
LEMMA DecisionPlans ==
    ASSUME NEW n, NEW k, Setting(n, k), NEW c \in menu,
           c.kind \in {"decision.propose", "decision.accept", "ticket.create"}
    PROVE  Planned(n, k, c, {}, Before(c))
<1>1. c.actor \in Users /\ c.actor \in LockedLater(c)
  BY InSetting DEF LockedLater
<1>2. CASE c.kind = "decision.propose"
  <2>1. Planned(n, k, c, {}, Access(c.actor))
    BY <1>1, LaterPlans
  <2> QED BY <1>2, <2>1, Plans
<1>3. CASE c.kind # "decision.propose"
  <2>1. PICK d : d.row = <<"decision", c.target>> /\ Before(c) = <<d>> \o Access(c.actor)
    <3>1. CASE c.kind = "decision.accept"
      <4>1. Before(c) = <<Lock(<<"decision", c.target>>, "update")>> \o Access(c.actor)
        BY <3>1, Plans
      <4> QED BY <4>1, StepParts
    <3>2. CASE c.kind = "ticket.create"
      <4>1. Before(c) = <<Lock(<<"decision", c.target>>, "share")>> \o Access(c.actor)
        BY <3>2, Plans
      <4> QED BY <4>1, StepParts
    <3> QED BY <1>3, <3>1, <3>2
  <2>2. Step(n, k, c, d) /\ ~Quiet(d.row)
    <3>1. d.row \in {<<"environment">>, <<"decision", c.target>>, <<"document", c.target>>,
                     <<"ticket", c.target>>, <<"authorization", c.target>>}
      BY <2>1
    <3>2. Step(n, k, c, d)
      BY <3>1, Steps
    <3> QED BY <2>1, <3>2 DEF Quiet
  <2>3. Ahead(n, k, {}, d)
    BY <2>2, AheadOf
  <2>4. Planned(n, k, c, {}, <<d>>)
    BY <2>2, <2>3, TuplesPlanned
  <2>5. {} \cup Elements(<<d>>) = {d}
    BY Listing
  <2>6. \A h \in {d} : \E x : h.row = <<"decision", x>>
    BY <2>1
  <2>7. Planned(n, k, c, {d}, Access(c.actor))
    BY <1>1, <2>6, LaterPlans
  <2> QED BY <2>1, <2>4, <2>5, <2>7, JoinedPlanned
<1> QED BY <1>2, <1>3

\* Messages, Threads and the members of Channels: the place in the Channel last.
LEMMA RoomsPlanned ==
    ASSUME NEW n, NEW k, Setting(n, k), NEW c \in menu,
           c.kind \in ChannelMemberKinds \cup {"message.create", "thread.start"}
    PROVE  Planned(n, k, c, {}, Before(c))
<1>1. c.actor \in Users
  BY InSetting
<1>2. ASSUME NEW x, NEW y, NEW r, NEW q, NEW b \in {x, y}, b.row = <<"project">>,
             Quiet(r.row), r.mode = "share", Quiet(q.row), q.mode = "share",
             Step(n, k, c, x), Step(n, k, c, y), ~Quiet(x.row), ~Quiet(y.row), Below(n, k, x.row, y.row)
      PROVE  Planned(n, k, c, {}, <<x, y, r, q>>)
  <2>1. Step(n, k, c, r) /\ Step(n, k, c, q)
    BY <1>2, Steps
  <2>2. Ahead(n, k, {}, x) /\ Ahead(n, k, {} \cup {x}, y)
    BY <1>2, AheadOf
  <2>3. Backed({} \cup {x, y}, r) /\ Backed({x, y, r}, q)
    BY <1>2 DEF Backed
  <2>4. Ahead(n, k, {} \cup {x, y}, r) /\ Ahead(n, k, {x, y, r}, q)
    BY <1>2, <2>3, AheadOf
  <2>5. Planned(n, k, c, {}, <<x, y, r>>)
    BY <1>2, <2>1, <2>2, <2>4, TuplesPlanned
  <2>6. {} \cup Elements(<<x, y, r>>) = {x, y, r}
    BY Listing
  <2>7. Planned(n, k, c, {x, y, r}, <<q>>)
    BY <2>1, <2>4, TuplesPlanned
  <2>8. Planned(n, k, c, {}, <<x, y, r>> \o <<q>>)
    BY <2>5, <2>6, <2>7, JoinedPlanned
  <2>9. <<x, y, r, q>> = <<x, y, r>> \o <<q>>
    OBVIOUS
  <2> QED BY <2>8, <2>9
<1> DEFINE m == Lock(<<"membership", c.actor>>, "share")
           p == Lock(<<"project">>, "share")
           w == Lock(<<"project">>, "update")
           r == Lock(<<"role", c.actor>>, "share")
           q == Checked(<<"room", RoomOf(c), c.actor>>, "share")
<1>3. /\ m.row = <<"membership", c.actor>> /\ m.mode = "share"
      /\ p.row = <<"project">> /\ p.mode = "share" /\ w.row = <<"project">>
      /\ r.mode = "share" /\ q.mode = "share" /\ Quiet(r.row) /\ Quiet(q.row)
  BY StepParts DEF Quiet
<1>4. CASE c.kind \in ChannelMemberKinds
  <2>1. Before(c) = <<m, w, r, q>>
    BY <1>4, Plans DEF ChannelMemberPlan
  <2>2. c.actor \in LockedFirst(c) /\ c.kind \in MemberKinds
    BY <1>4 DEF LockedFirst, MemberKinds
  <2> HIDE DEF m, p, w, r, q
  <2>3. Step(n, k, c, m) /\ Step(n, k, c, w) /\ Below(n, k, m.row, w.row)
    BY <1>1, <1>3, <2>2, Steps, MembersBelow
  <2>4. ~Quiet(m.row) /\ ~Quiet(w.row)
    BY <1>3 DEF Quiet
  <2> QED BY <1>2, <1>3, <2>1, <2>3, <2>4
<1>5. CASE c.kind \in {"message.create", "thread.start"}
  <2>1. Before(c) = <<p, m, r, q>>
    BY <1>5, Plans DEF RoomPlan
  <2>2. c.actor \in LockedLater(c)
    BY <1>5 DEF LockedLater
  <2> HIDE DEF m, p, w, r, q
  <2>3. Step(n, k, c, m) /\ Step(n, k, c, p) /\ Below(n, k, p.row, m.row)
    BY <1>1, <1>3, <2>2, Steps, MembersBelow
  <2>4. ~Quiet(m.row) /\ ~Quiet(p.row)
    BY <1>3 DEF Quiet
  <2> QED BY <1>2, <1>3, <2>1, <2>3, <2>4
<1> QED BY <1>4, <1>5

\* Components and Tickets: Project, Ticket, Component, link.
LEMMA TicketComponentsPlanned ==
    ASSUME NEW n, NEW k, Setting(n, k), NEW c \in menu, c.kind \in TicketComponentKinds
    PROVE  Planned(n, k, c, {}, Before(c))
<1>1. c.actor \in Users /\ c.actor \in LockedFirst(c)
  BY InSetting DEF LockedFirst
<1> DEFINE m == Lock(<<"membership", c.actor>>, "share")
           p == Lock(<<"project">>, "share")
           r == Lock(<<"role", c.actor>>, "share")
           t == Lock(<<"ticket", c.target>>, "share")
           o == Checked(<<"component", ComponentOf(c)>>, "update")
           w == Lock(<<"link", c.payload>>, "update")
<1>2. /\ m.row = <<"membership", c.actor>> /\ m.mode = "share" /\ p.row = <<"project">> /\ p.mode = "share"
      /\ r.row = <<"role", c.actor>> /\ r.mode = "share" /\ t.row = <<"ticket", c.target>>
      /\ o.row = <<"component", ComponentOf(c)>> /\ w.row = <<"link", c.payload>>
  BY StepParts
<1>3. Before(c) = <<m, p, r, t, o>> \o LinkRow(c) /\ LinkRow(c) \in {<<>>, <<w>>}
  BY Plans DEF TicketComponentPlan, LinkRow
<1> HIDE DEF m, p, r, t, o, w
<1>4. Quiet(r.row) /\ ~Quiet(m.row) /\ ~Quiet(p.row) /\ ~Quiet(t.row) /\ ~Quiet(o.row) /\ ~Quiet(w.row)
  BY <1>2 DEF Quiet
<1>5. Step(n, k, c, m) /\ Step(n, k, c, p) /\ Step(n, k, c, r)
  BY <1>1, <1>2, <1>4, Steps
<1>6. Step(n, k, c, t)
  <2>1. t.row \in {<<"environment">>, <<"decision", c.target>>, <<"document", c.target>>,
                   <<"ticket", c.target>>, <<"authorization", c.target>>}
    BY <1>2
  <2> QED BY <2>1, Steps
<1>7. Step(n, k, c, o) /\ Step(n, k, c, w)
  BY <1>2, Steps
<1>8. Below(n, k, m.row, p.row) /\ Below(n, k, m.row, t.row) /\ Below(n, k, m.row, o.row) /\ Below(n, k, m.row, w.row)
  BY <1>1, <1>2, MembersBelow
<1>9. /\ Below(n, k, p.row, t.row) /\ Below(n, k, p.row, o.row) /\ Below(n, k, p.row, w.row)
      /\ Below(n, k, t.row, o.row) /\ Below(n, k, t.row, w.row) /\ Below(n, k, o.row, w.row)
  BY <1>2, RowsBelow
<1>10. \A q : Below(n, k, r.row, q)
  BY <1>4, RowsBelow
<1>11. Planned(n, k, c, {}, <<m, p, r>>)
  <2>1. Ahead(n, k, {}, m) /\ Ahead(n, k, {} \cup {m}, p)
    BY <1>4, <1>8, AheadOf
  <2>2. Backed({} \cup {m, p}, r)
    BY <1>2 DEF Backed
  <2>3. Ahead(n, k, {} \cup {m, p}, r)
    BY <1>4, <2>2, AheadOf
  <2> QED BY <1>5, <2>1, <2>3, TuplesPlanned
<1>12. Planned(n, k, c, {m, p, r}, <<t, o>>)
  <2>1. Ahead(n, k, {m, p, r}, t)
    BY <1>4, <1>8, <1>9, <1>10, AheadOf
  <2>2. Ahead(n, k, {m, p, r} \cup {t}, o)
    BY <1>4, <1>8, <1>9, <1>10, AheadOf
  <2> QED BY <1>6, <1>7, <2>1, <2>2, TuplesPlanned
<1>13. Planned(n, k, c, {m, p, r, t, o}, LinkRow(c))
  <2>1. Ahead(n, k, {m, p, r, t, o}, w)
    BY <1>4, <1>8, <1>9, <1>10, AheadOf
  <2>2. Planned(n, k, c, {m, p, r, t, o}, <<w>>) /\ Planned(n, k, c, {m, p, r, t, o}, <<>>)
    BY <1>7, <2>1, TuplesPlanned
  <2> QED BY <1>3, <2>2
<1>14. Planned(n, k, c, {}, <<m, p, r, t, o>>)
  <2>1. {} \cup Elements(<<m, p, r>>) = {m, p, r}
    BY Listing
  <2>2. Planned(n, k, c, {}, <<m, p, r>> \o <<t, o>>)
    BY <1>11, <1>12, <2>1, JoinedPlanned
  <2>3. <<m, p, r, t, o>> = <<m, p, r>> \o <<t, o>>
    OBVIOUS
  <2> QED BY <2>2, <2>3
<1>15. {} \cup Elements(<<m, p, r, t, o>>) = {m, p, r, t, o}
  BY DEF Elements
<1> QED BY <1>3, <1>13, <1>14, <1>15, JoinedPlanned

\* Components and Repositories: Workspace, Component, link.
LEMMA RepositoriesPlanned ==
    ASSUME NEW n, NEW k, Setting(n, k), NEW c \in menu, c.kind \in RepositoryKinds
    PROVE  Planned(n, k, c, {}, Before(c))
<1>1. c.actor \in Users /\ Offers(menu, RepositoryKinds)
  BY InSetting
<1> DEFINE m == Lock(<<"membership", c.actor>>, "share")
           p == Lock(<<"workspace">>, "update")
           o == Checked(<<"component", ComponentOf(c)>>, "update")
           w == Lock(<<"link", c.payload>>, "update")
<1>2. /\ m.row = <<"membership", c.actor>> /\ m.mode = "share" /\ p.row = <<"workspace">>
      /\ o.row = <<"component", ComponentOf(c)>> /\ w.row = <<"link", c.payload>>
  BY StepParts
<1>3. Before(c) = <<m, p, o>> \o LinkRow(c) /\ LinkRow(c) \in {<<>>, <<w>>}
  BY Plans DEF RepositoryPlan, LinkRow
<1> HIDE DEF m, p, o, w
<1>4. ~Quiet(m.row) /\ ~Quiet(p.row) /\ ~Quiet(o.row) /\ ~Quiet(w.row)
  BY <1>2 DEF Quiet
<1>5. Step(n, k, c, m) /\ Step(n, k, c, p) /\ Step(n, k, c, o) /\ Step(n, k, c, w)
  BY <1>1, <1>2, Steps
<1>6. Below(n, k, m.row, p.row) /\ Below(n, k, m.row, o.row) /\ Below(n, k, m.row, w.row)
  BY <1>1, <1>2, MembersBelow
<1>7. Below(n, k, p.row, o.row) /\ Below(n, k, p.row, w.row) /\ Below(n, k, o.row, w.row)
  BY <1>1, <1>2, RowsBelow
<1>8. Planned(n, k, c, {}, <<m, p, o>>)
  <2>1. Ahead(n, k, {}, m) /\ Ahead(n, k, {} \cup {m}, p) /\ Ahead(n, k, {} \cup {m, p}, o)
    BY <1>4, <1>6, <1>7, AheadOf
  <2> QED BY <1>5, <2>1, TuplesPlanned
<1>9. Planned(n, k, c, {m, p, o}, LinkRow(c))
  <2>1. Ahead(n, k, {m, p, o}, w)
    BY <1>4, <1>6, <1>7, AheadOf
  <2>2. Planned(n, k, c, {m, p, o}, <<w>>) /\ Planned(n, k, c, {m, p, o}, <<>>)
    BY <1>5, <2>1, TuplesPlanned
  <2> QED BY <1>3, <2>2
<1>10. {} \cup Elements(<<m, p, o>>) = {m, p, o}
  BY Listing
<1> QED BY <1>3, <1>8, <1>9, <1>10, JoinedPlanned

\* The hand-over, and authorizations: memberships in order.
LEMMA PairsPlanned ==
    ASSUME NEW n, NEW k, Setting(n, k), NEW c \in menu,
           c.kind \in AuthorizationKinds \cup {"workspace.owner.transfer"}
    PROVE  Planned(n, k, c, {}, Before(c))
<1>0. /\ c.actor \in Users /\ Users \subseteq Nat /\ WellFormed(c)
  BY InSetting, CommandsAssumption
<1>1. ASSUME NEW u \in Users, NEW v \in Users, NEW x, NEW y, NEW z,
             x.row = <<"membership", Low(u, v)>>, y.row = <<"membership", High(u, v)>>, x.mode = y.mode,
             x.mode # "update" \/ c.kind = "workspace.owner.transfer",
             z.row \in {<<"environment">>, <<"workspace">>}, Step(n, k, c, z)
      PROVE  Planned(n, k, c, {}, <<x, y, z>>)
  <2>1. Low(u, v) \in Users /\ High(u, v) \in Users
    BY DEF Low, High
  <2>2. Step(n, k, c, x) /\ Step(n, k, c, y)
    BY <1>1, <2>1, Steps
  <2>3. ~Quiet(x.row) /\ ~Quiet(y.row) /\ ~Quiet(z.row)
    BY <1>1 DEF Quiet
  <2>4. Ahead(n, k, {}, x)
    BY <2>3, AheadOf
  <2>5. Ahead(n, k, {} \cup {x}, y)
    <3>1. CASE Low(u, v) = High(u, v)
      <4>1. Had({} \cup {x}, y)
        BY <1>1, <3>1 DEF Had
      <4> QED BY <2>3, <4>1, AheadOf
    <3>2. CASE Low(u, v) # High(u, v)
      <4>1. Low(u, v) < High(u, v)
        BY <1>0, <3>2 DEF Low, High
      <4>2. Below(n, k, x.row, y.row)
        BY <1>1, <2>1, <4>1, MembersBelow
      <4> QED BY <2>3, <4>2, AheadOf
    <3> QED BY <3>1, <3>2
  <2>6. Below(n, k, x.row, z.row) /\ Below(n, k, y.row, z.row)
    BY <1>1, <2>1, MembersBelow
  <2>7. Ahead(n, k, {} \cup {x, y}, z)
    BY <2>3, <2>6, AheadOf
  <2> QED BY <1>1, <2>2, <2>4, <2>5, <2>7, TuplesPlanned
<1>2. CASE c.kind \in AuthorizationKinds
  <2>1. c.target \in Users /\ Before(c) = AuthorizationPlan(c)
    BY <1>0, <1>2, Plans DEF WellFormed
  <2> DEFINE x == Lock(<<"membership", Low(c.actor, c.target)>>, "share")
             y == Lock(<<"membership", High(c.actor, c.target)>>, "share")
             z == Checked(<<"environment">>, "update")
  <2>2. /\ x.row = <<"membership", Low(c.actor, c.target)>> /\ x.mode = "share"
        /\ y.row = <<"membership", High(c.actor, c.target)>> /\ y.mode = "share"
        /\ z.row = <<"environment">>
    BY StepParts
  <2>3. Before(c) = <<x, y, z>>
    BY <2>1 DEF AuthorizationPlan
  <2> HIDE DEF x, y, z
  <2>4. Step(n, k, c, z)
    <3>1. z.row \in {<<"environment">>, <<"decision", 0>>, <<"document", 0>>, <<"ticket", 0>>,
                     <<"authorization", 0>>}
      BY <2>2
    <3> QED BY <3>1, Steps
  <2>5. Planned(n, k, c, {}, <<x, y, z>>)
    BY <1>0, <1>1, <2>1, <2>2, <2>4
  <2> QED BY <2>3, <2>5
<1>3. CASE c.kind = "workspace.owner.transfer"
  <2>1. c.payload \in Users /\ Before(c) = TransferPlan(c)
    BY <1>0, <1>3, Plans DEF WellFormed
  <2>2. ASSUME NEW z, z.row = <<"workspace">> PROVE Step(n, k, c, z)
    <3>1. z.row \in {<<"component", 0>>, <<"link", 0>>, <<"workspace">>}
      BY <2>2
    <3> QED BY <1>3, <3>1, Steps
  <2>3. ASSUME NEW x, x.row = <<"membership", c.actor>> PROVE Planned(n, k, c, {}, <<x>>)
    <3>1. Step(n, k, c, x) /\ ~Quiet(x.row)
      <4>1. Step(n, k, c, x)
        BY <1>0, <1>3, <2>3, Steps
      <4> QED BY <2>3, <4>1 DEF Quiet
    <3>2. Ahead(n, k, {}, x)
      BY <3>1, AheadOf
    <3> QED BY <3>1, <3>2, TuplesPlanned
  <2>4. CASE Key(c) \in DOMAIN receipts
    BY <2>1, <2>3, <2>4, StepParts DEF TransferPlan
  <2>5. CASE Key(c) \notin DOMAIN receipts
    <3> DEFINE x == Lock(<<"membership", Low(c.actor, c.payload)>>, "update")
               y == Lock(<<"membership", High(c.actor, c.payload)>>, "update")
               z == Lock(<<"workspace">>, "update")
    <3>1. /\ x.row = <<"membership", Low(c.actor, c.payload)>> /\ x.mode = "update"
          /\ y.row = <<"membership", High(c.actor, c.payload)>> /\ y.mode = "update"
          /\ z.row = <<"workspace">>
      BY StepParts
    <3>2. Before(c) = <<x, y, z>>
      BY <2>1, <2>5 DEF TransferPlan
    <3> HIDE DEF x, y, z
    <3>3. Step(n, k, c, z)
      BY <2>2, <3>1
    <3>4. Planned(n, k, c, {}, <<x, y, z>>)
      BY <1>0, <1>1, <1>3, <2>1, <3>1, <3>3
    <3> QED BY <3>2, <3>4
  <2> QED BY <2>4, <2>5
<1> QED BY <1>2, <1>3

\* Deployments: Environment, authorization.
LEMMA DeploymentsPlanned ==
    ASSUME NEW n, NEW k, Setting(n, k), NEW c \in menu, c.kind = "deployment.record"
    PROVE  Planned(n, k, c, {}, Before(c))
<1>1. c.actor \in Users
  BY InSetting
<1>2. ASSUME NEW m, NEW e, NEW a, m.row = <<"membership", c.actor>>, m.mode = "share",
             e.row = <<"environment">>, a.row = <<"authorization", c.actor>>
      PROVE  Planned(n, k, c, {}, <<m, e, a>>)
  <2>1. ~Quiet(m.row) /\ ~Quiet(e.row) /\ ~Quiet(a.row)
    BY <1>2 DEF Quiet
  <2>2. Step(n, k, c, m)
    BY <1>1, <1>2, Steps
  <2>3. ASSUME NEW z \in {e, a} PROVE Step(n, k, c, z)
    <3>1. z.row \in {<<"environment">>, <<"decision", c.actor>>, <<"document", c.actor>>,
                     <<"ticket", c.actor>>, <<"authorization", c.actor>>}
      BY <1>2
    <3> QED BY <3>1, Steps
  <2>4. Below(n, k, m.row, e.row) /\ Below(n, k, m.row, a.row)
    BY <1>1, <1>2, MembersBelow
  <2>5. Below(n, k, e.row, a.row)
    BY <1>2, RowsBelow
  <2>6. Ahead(n, k, {}, m) /\ Ahead(n, k, {} \cup {m}, e) /\ Ahead(n, k, {} \cup {m, e}, a)
    BY <2>1, <2>4, <2>5, AheadOf
  <2> QED BY <2>2, <2>3, <2>6, TuplesPlanned
<1> DEFINE m == Lock(<<"membership", c.actor>>, "share")
           e == Lock(<<"environment">>, "share")
           a == Checked(<<"authorization", c.actor>>, "share")
<1>3. /\ m.row = <<"membership", c.actor>> /\ m.mode = "share"
      /\ e.row = <<"environment">> /\ a.row = <<"authorization", c.actor>>
  BY StepParts
<1>4. Before(c) = <<m, e, a>>
  BY Plans DEF DeploymentPlan
<1> HIDE DEF m, e, a
<1>5. Planned(n, k, c, {}, <<m, e, a>>)
  BY <1>2, <1>3
<1> QED BY <1>4, <1>5

\* Every plan is in order up to the claim.
LEMMA BeforePlanned ==
    ASSUME NEW n, NEW k, Setting(n, k), NEW c \in menu
    PROVE  Planned(n, k, c, {}, Before(c))
<1>1. WellFormed(c) /\ c.actor \in Users
  BY InSetting
<1>2. CASE c.kind \in ProjectMemberKinds \cup {"channel.create"}
  <2>1. c.actor \in LockedFirst(c) /\ c.kind \in MemberKinds
    BY <1>2 DEF LockedFirst, MemberKinds
  <2> QED BY <1>1, <1>2, <2>1, FirstPlans, Plans
<1> QED BY <1>1, <1>2, DocumentPlans, DecisionPlans, RoomsPlanned, TicketComponentsPlanned,
           RepositoriesPlanned, PairsPlanned, DeploymentsPlanned
        DEF WellFormed, Kinds, DocumentKinds

\* How high a row can be.
LEMMA RankBounds ==
    ASSUME NEW n, NEW k, Setting(n, k), NEW c, NEW l, Proper(c, l)
    PROVE  Peak(n, k) \in Nat /\ Rank(n, k, l.row) \in 0..(Peak(n, k) + 8)
<1> DEFINE b == Peak(n, k)
           row == l.row
<1>1. n \in Nat /\ k \in Nat /\ b = n + k + 10 /\ b \in Nat
  BY DEF Setting, Peak
<1>2. CASE row[1] = "membership"
  <2>1. row[2] \in 0..n
    BY <1>2 DEF Proper, Setting
  <2>2. Rank(n, k, row) = IF row[2] < k THEN row[2] + 1 ELSE row[2] + 2
    BY <1>2 DEF Rank
  <2>3. PICK u \in 0..n : u = row[2]
    BY <2>1
  <2>4. Rank(n, k, row) \in {u + 1, u + 2}
    BY <2>2, <2>3
  <2>5. u + 1 \in 0..(b + 8) /\ u + 2 \in 0..(b + 8)
    BY <1>1
  <2> QED BY <1>1, <2>4, <2>5
<1>3. CASE row[1] # "membership"
  <2>1. Rank(n, k, row) \in {k + 1, b, b + 1, b + 2, b + 3, b + 6, b + 7, b + 8, 0}
    BY <1>3 DEF Rank
  <2>2. {k + 1, b, b + 1, b + 2, b + 3, b + 6, b + 7, b + 8, 0} \subseteq 0..(b + 8)
    BY <1>1
  <2> QED BY <1>1, <2>1, <2>2
<1> QED BY <1>2, <1>3

-----------------------------------------------------------------------------
(* What is locked after the claim *)

LEMMA Remainders ==
    ASSUME NEW c
    PROVE  LET w == Lock(<<"workspace">>, "key")
           IN  /\ c.kind = "workspace.owner.transfer" => After(c) = <<>>
               /\ c.kind = "project.member.set" =>
                      After(c) = <<Checked(<<"role", c.target>>, "update"),
                                   Lock(<<"membership", c.target>>, "share"), w>>
               /\ c.kind = "project.member.remove" =>
                      After(c) = <<Checked(<<"role", c.target>>, "update"), w>>
               /\ c.kind = "channel.create" => After(c) = Append(ElectLocks(c.payload), w)
               /\ c.kind = "channel.member.add" =>
                      After(c) = <<Lock(<<"role", Subject(c)>>, "update"),
                                   Checked(<<"room", RoomOf(c), Subject(c)>>, "update"),
                                   Lock(<<"membership", Subject(c)>>, "share"), w>>
               /\ c.kind = "channel.member.remove" =>
                      After(c) = <<Lock(<<"role", Subject(c)>>, "update"),
                                   Checked(<<"room", RoomOf(c), Subject(c)>>, "update"), w>>
               /\ c.kind \in AuthorizationKinds =>
                      After(c) = <<Checked(<<"authorization", c.target>>, "update"), w>>
               /\ c.kind \notin MemberKinds \cup AuthorizationKinds \cup {"workspace.owner.transfer"} =>
                      After(c) = <<w>>
<1> USE DEF AuthorizationKinds, MemberKinds, ProjectMemberKinds, ChannelMemberKinds, After
<1> DEFINE w == Lock(<<"workspace">>, "key")
<1>1. c.kind = "workspace.owner.transfer" => After(c) = <<>>
  OBVIOUS
<1>2. c.kind = "project.member.set" =>
          After(c) = <<Checked(<<"role", c.target>>, "update"), Lock(<<"membership", c.target>>, "share"), w>>
  OBVIOUS
<1>3. c.kind = "project.member.remove" => After(c) = <<Checked(<<"role", c.target>>, "update"), w>>
  OBVIOUS
<1>4. c.kind = "channel.create" => After(c) = Append(ElectLocks(c.payload), w)
  OBVIOUS
<1>5. c.kind = "channel.member.add" =>
          After(c) = <<Lock(<<"role", Subject(c)>>, "update"),
                       Checked(<<"room", RoomOf(c), Subject(c)>>, "update"),
                       Lock(<<"membership", Subject(c)>>, "share"), w>>
  OBVIOUS
<1>6. c.kind = "channel.member.remove" =>
          After(c) = <<Lock(<<"role", Subject(c)>>, "update"),
                       Checked(<<"room", RoomOf(c), Subject(c)>>, "update"), w>>
  OBVIOUS
<1>7. c.kind \in AuthorizationKinds => After(c) = <<Checked(<<"authorization", c.target>>, "update"), w>>
  OBVIOUS
<1>8. c.kind \notin MemberKinds \cup AuthorizationKinds \cup {"workspace.owner.transfer"} => After(c) = <<w>>
  OBVIOUS
<1> QED BY <1>1, <1>2, <1>3, <1>4, <1>5, <1>6, <1>7, <1>8

\* The Workspace is above all that is locked before, unless it is locked already.
LEMMA LastPlanned ==
    ASSUME NEW n, NEW k, Setting(n, k), NEW c \in menu, c.kind # "workspace.owner.transfer",
           NEW front, Planned(n, k, c, Elements(Before(c)), front),
           c.kind \in RepositoryKinds => front = <<>>,
           NEW w, w.row = <<"workspace">>, w.mode = "key"
    PROVE  /\ InOrder(n, k, Elements(Before(c)), front \o <<w>>)
           /\ \A l \in Elements(front \o <<w>>) : Proper(c, l)
<1> DEFINE H == Elements(Before(c))
<1>1. /\ \A l \in H : Step(n, k, c, l)
      /\ Sequence(front) /\ InOrder(n, k, H, front) /\ \A l \in Elements(front) : Step(n, k, c, l)
  BY BeforePlanned DEF Planned
<1>2. ~Quiet(w.row) /\ Proper(c, w)
  BY DEF Quiet, Proper
<1>5. ASSUME Ahead(n, k, H \cup Elements(front), w)
      PROVE  /\ InOrder(n, k, H, front \o <<w>>)
             /\ \A l \in Elements(front \o <<w>>) : Proper(c, l)
  <2>1. InOrder(n, k, H \cup Elements(front), <<w>>)
    BY <1>5, TuplesInOrder
  <2>2. Sequence(<<w>>) /\ Elements(<<w>>) = {w}
    BY Listing
  <2>3. InOrder(n, k, H, front \o <<w>>)
    BY <1>1, <2>1, <2>2, JoinedInOrder
  <2>4. Elements(front \o <<w>>) = Elements(front) \cup {w}
    BY <1>1, <2>2, ElementsJoined
  <2> QED BY <1>1, <1>2, <2>3, <2>4 DEF Step
<1>3. CASE c.kind \in RepositoryKinds
  <2>1. Before(c) = RepositoryPlan(c) /\ Elements(front) = {}
    BY <1>3, Plans, Listing
  <2> DEFINE x == Lock(<<"membership", c.actor>>, "share")
             y == Lock(<<"workspace">>, "update")
             z == Checked(<<"component", ComponentOf(c)>>, "update")
  <2>2. Before(c) = <<x, y, z>> \o LinkRow(c) /\ y.row = <<"workspace">> /\ y.mode = "update"
    BY <2>1, StepParts DEF RepositoryPlan
  <2> HIDE DEF x, y, z
  <2>3. y \in H
    <3>1. Sequence(<<x, y, z>>) /\ Sequence(LinkRow(c)) /\ y \in Elements(<<x, y, z>>)
      BY Listing, LinkRows
    <3> QED BY <2>2, <3>1, ElementsJoined
  <2>4. Had(H \cup Elements(front), w)
    BY <2>2, <2>3 DEF Had
  <2>5. Ahead(n, k, H \cup Elements(front), w)
    BY <1>2, <2>4, AheadOf
  <2> QED BY <1>5, <2>5
<1>4. CASE c.kind \notin RepositoryKinds
  <2>1. ASSUME NEW l, Step(n, k, c, l) PROVE Below(n, k, l.row, w.row)
    <3>1. Rank(n, k, <<"workspace">>) = Peak(n, k) + 6
      BY Heights
    <3>2. Peak(n, k) \in Nat /\ Rank(n, k, l.row) \in 0..(Peak(n, k) + 8)
      BY <2>1, RankBounds DEF Step
    <3>3. Contested(l.row) => Rank(n, k, l.row) < Peak(n, k) + 5
      BY <1>4, <2>1 DEF Step
    <3>4. Contested(l.row) => Rank(n, k, l.row) < Peak(n, k) + 6
      BY <3>2, <3>3
    <3> QED BY <3>1, <3>4 DEF Below
  <2>2. Ahead(n, k, H \cup Elements(front), w)
    BY <1>1, <1>2, <2>1, AheadOf
  <2> QED BY <1>5, <2>2
<1> QED BY <1>3, <1>4

\* Commands about members hold the Project for update and their own membership.
LEMMA MembersHold ==
    ASSUME NEW n, NEW k, Setting(n, k), NEW c \in menu, c.kind \in MemberKinds
    PROVE  LET H == Elements(Before(c))
           IN  /\ \E h \in H : h.row = <<"project">> /\ h.mode = "update"
               /\ \E h \in H : h.row = <<"membership", c.actor>>
               /\ \A h \in H : \/ h.row \in {<<"project">>, <<"membership", c.actor>>}
                               \/ Quiet(h.row)
               /\ \A G, r : Quiet(r.row) => Ahead(n, k, H \cup G, r)
               /\ \A G, y : \A v \in Users :
                      (/\ y.row = <<"membership", v>> /\ y.mode = "share"
                       /\ v = c.actor \/ v \in LockedLater(c)
                       /\ \A g \in G : Below(n, k, g.row, y.row)) => Ahead(n, k, H \cup G, y)
<1> DEFINE H == Elements(Before(c))
           m == Lock(<<"membership", c.actor>>, "share")
           p == Lock(<<"project">>, "update")
           r == Lock(<<"role", c.actor>>, "share")
           a == Checked(<<"role", c.actor>>, "share")
           q == Checked(<<"room", RoomOf(c), c.actor>>, "share")
<1>1. H = {m, p, a} \/ H = {m, p, r, q}
  <2>1. CASE c.kind \in ChannelMemberKinds
    <3>1. Before(c) = <<m, p, r, q>>
      BY <2>1, Plans DEF ChannelMemberPlan
    <3>2. Elements(<<m, p, r, q>>) = {m, p, r, q}
      BY DEF Elements
    <3> QED BY <3>1, <3>2
  <2>2. CASE c.kind \notin ChannelMemberKinds
    <3>1. Before(c) = <<m, p, a>>
      BY <2>2, Plans DEF MemberPlan, MemberKinds
    <3>2. Elements(<<m, p, a>>) = {m, p, a}
      BY Listing
    <3> QED BY <3>1, <3>2
  <2> QED BY <2>1, <2>2
<1>2. /\ m.row = <<"membership", c.actor>> /\ p.row = <<"project">> /\ p.mode = "update"
      /\ Quiet(r.row) /\ Quiet(a.row) /\ Quiet(q.row)
  BY StepParts DEF Quiet
<1> HIDE DEF m, p, r, a, q
<1>3. m \in H /\ p \in H
  BY <1>1
<1>4. \A h \in H : h.row \in {<<"project">>, <<"membership", c.actor>>} \/ Quiet(h.row)
  BY <1>1, <1>2
<1> HIDE DEF H
<1>5. ASSUME NEW G, NEW z, Quiet(z.row) PROVE Ahead(n, k, H \cup G, z)
  <2>1. Backed(H \cup G, z)
    BY <1>2, <1>3 DEF Backed
  <2> QED BY <1>5, <2>1, AheadOf
<1>6. ASSUME NEW G, NEW y, NEW v \in Users, y.row = <<"membership", v>>, y.mode = "share",
             v = c.actor \/ v \in LockedLater(c), \A g \in G : Below(n, k, g.row, y.row)
      PROVE  Ahead(n, k, H \cup G, y)
  <2>0. ~Quiet(y.row)
    BY <1>6 DEF Quiet
  <2>1. CASE v = c.actor
    <3>1. Had(H \cup G, y)
      BY <1>2, <1>3, <1>6, <2>1 DEF Had
    <3> QED BY <2>0, <3>1, AheadOf
  <2>2. CASE v \in LockedLater(c)
    <3>1. Below(n, k, <<"project">>, y.row)
      BY <1>6, <2>2, MembersBelow
    <3>2. Below(n, k, <<"membership", c.actor>>, y.row)
      <4>1. c.actor \in Users /\ c.actor \in LockedFirst(c)
        BY InSetting DEF LockedFirst
      <4>2. Contested(y.row) => c.actor < v
        BY <1>6, <2>2, <4>1 DEF Contested, Setting, Orderly, Offers
      <4>3. c.actor < v => Below(n, k, <<"membership", c.actor>>, y.row)
        BY <1>6, <4>1, MembersBelow
      <4> QED BY <4>2, <4>3 DEF Below
    <3>3. \A h \in H : Below(n, k, h.row, y.row)
      BY <1>4, <3>1, <3>2, RowsBelow
    <3> QED BY <1>6, <2>0, <3>3, AheadOf
  <2> QED BY <1>6, <2>1, <2>2
<1> QED BY <1>2, <1>3, <1>4, <1>5, <1>6 DEF H

\* The members of a new Channel are locked in order.
LEMMA ElectPlanned ==
    ASSUME NEW n, NEW k, Setting(n, k), NEW c \in menu, c.kind = "channel.create"
    PROVE  Planned(n, k, c, Elements(Before(c)), ElectLocks(c.payload))
<1> DEFINE H == Elements(Before(c))
           e == ElectLocks(c.payload)
           p == c.payload
<1>1. /\ c.actor \in Users /\ p \in Seq(Users)
      /\ \A i, j \in DOMAIN p : i < j => p[i] < p[j]
  BY InSetting DEF WellFormed
<1>2. PICK m \in Nat : m = Len(p)
  BY <1>1
<1>3. DOMAIN p = 1..m /\ \A i \in 1..m : p[i] \in Users
  BY <1>1, <1>2
<1>4. /\ e = [i \in 1..(2 * m) |-> e[i]] /\ DOMAIN e = 1..(2 * m)
      /\ \A i \in 1..(2 * m) :
             e[i] = LET u == p[(i + 1) \div 2]
                    IN  IF i % 2 = 1 THEN Lock(<<"membership", u>>, "share")
                        ELSE Checked(<<"role", u>>, "share")
  BY <1>2 DEF ElectLocks
<1>5. Sequence(e)
  <2>1. 2 * m \in Nat
    BY <1>2
  <2> QED BY <1>4, <2>1, SequenceFrom
<1>6. ASSUME NEW i \in 1..(2 * m)
      PROVE  \/ Quiet(e[i].row)
             \/ \E a \in 1..m : i = 2 * a - 1 /\ e[i].row = <<"membership", p[a]>> /\ e[i].mode = "share"
  <2>1. CASE i % 2 = 1
    <3>1. PICK a \in 1..m : i = 2 * a - 1 /\ (i + 1) \div 2 = a
      <4>1. (i + 1) \div 2 \in 1..m /\ i = 2 * ((i + 1) \div 2) - 1
        BY <1>2, <2>1
      <4> QED BY <4>1
    <3>2. e[i] = Lock(<<"membership", p[a]>>, "share")
      BY <1>4, <2>1, <3>1
    <3> QED BY <3>1, <3>2, StepParts
  <2>2. CASE i % 2 # 1
    <3>1. e[i] = Checked(<<"role", p[(i + 1) \div 2]>>, "share")
      BY <1>4, <2>2
    <3> QED BY <3>1, StepParts DEF Quiet
  <2> QED BY <2>1, <2>2
<1> HIDE DEF e, p
<1>7. ASSUME NEW i \in 1..(2 * m) PROVE Ahead(n, k, H \cup Upto(e, i), e[i]) /\ Step(n, k, c, e[i])
  <2>1. CASE Quiet(e[i].row)
    BY <2>1, MembersHold, Steps DEF MemberKinds
  <2>2. CASE ~Quiet(e[i].row)
    <3>1. PICK a \in 1..m : i = 2 * a - 1 /\ e[i].row = <<"membership", p[a]>> /\ e[i].mode = "share"
      BY <1>6, <2>2
    <3>2. PICK v \in Users : v = p[a]
      BY <1>3
    <3>3. v = c.actor \/ v \in LockedLater(c)
      BY <1>3, <3>2 DEF LockedLater, p
    <3>4. ASSUME NEW g \in Upto(e, i) PROVE Below(n, k, g.row, e[i].row)
      <4>1. PICK j \in 1..(2 * m) : j < i /\ g = e[j]
        BY <1>4 DEF Upto
      <4>2. CASE Quiet(g.row)
        BY <4>2, RowsBelow
      <4>3. CASE ~Quiet(g.row)
        <5>1. PICK b \in 1..m : j = 2 * b - 1 /\ g.row = <<"membership", p[b]>>
          BY <1>6, <4>1, <4>3
        <5>2. b < a
          BY <3>1, <4>1, <5>1
        <5>3. p[b] \in Users /\ p[b] < v
          BY <1>1, <1>3, <3>2, <5>2
        <5> QED BY <3>1, <3>2, <5>1, <5>3, MembersBelow
      <4> QED BY <4>2, <4>3
    <3>5. Step(n, k, c, e[i])
      BY <3>1, <3>2, Steps
    <3>6. c.kind \in MemberKinds
      BY DEF MemberKinds
    <3>7. Ahead(n, k, H \cup Upto(e, i), e[i])
      BY <3>1, <3>2, <3>3, <3>4, <3>6, MembersHold
    <3> QED BY <3>5, <3>7
  <2> QED BY <2>1, <2>2
<1>8. InOrder(n, k, H, e) /\ \A l \in Elements(e) : Step(n, k, c, l)
  BY <1>4, <1>7 DEF InOrder, Elements
<1> QED BY <1>5, <1>8 DEF Planned, e

\* So what is locked after the claim is in order, too.
LEMMA AfterPlanned ==
    ASSUME NEW n, NEW k, Setting(n, k), NEW c \in menu
    PROVE  /\ InOrder(n, k, Elements(Before(c)), After(c))
           /\ \A l \in Elements(After(c)) : Proper(c, l)
<1> DEFINE H == Elements(Before(c))
           w == Lock(<<"workspace">>, "key")
           Fine(s) == InOrder(n, k, H, s) /\ \A l \in Elements(s) : Proper(c, l)
<1>1. w.row = <<"workspace">> /\ w.mode = "key"
  BY StepParts
<1>2. ASSUME NEW front, Planned(n, k, c, H, front), c.kind \in RepositoryKinds => front = <<>>,
             c.kind # "workspace.owner.transfer"
      PROVE  Fine(front \o <<w>>)
  <2> HIDE DEF w
  <2> QED BY <1>1, <1>2, LastPlanned
<1> HIDE DEF Fine, H
<1>3. CASE c.kind = "workspace.owner.transfer"
  <2>1. After(c) = <<>>
    BY <1>3, Remainders
  <2> QED BY <2>1, EmptyInOrder, Listing
<1>4. CASE c.kind \notin MemberKinds \cup AuthorizationKinds \cup {"workspace.owner.transfer"}
  <2>1. After(c) = <<w>>
    BY <1>4, Remainders
  <2>2. Fine(<<>> \o <<w>>)
    BY <1>2, <1>4, TuplesPlanned
  <2>3. <<>> \o <<w>> = <<w>>
    OBVIOUS
  <2> QED BY <2>1, <2>2, <2>3 DEF Fine, H
<1>5. CASE c.kind \in AuthorizationKinds
  <2> DEFINE a == Checked(<<"authorization", c.target>>, "update")
  <2>1. After(c) = <<a, w>>
    BY <1>5, Remainders
  <2>2. a.row = <<"authorization", c.target>>
    BY StepParts
  <2>3. ASSUME NEW h \in H PROVE Below(n, k, h.row, <<"authorization", c.target>>)
    <3> DEFINE x == Lock(<<"membership", Low(c.actor, c.target)>>, "share")
               y == Lock(<<"membership", High(c.actor, c.target)>>, "share")
               z == Checked(<<"environment">>, "update")
    <3>1. Before(c) = <<x, y, z>>
      BY <1>5, Plans DEF AuthorizationPlan
    <3>2. Elements(<<x, y, z>>) = {x, y, z}
      BY Listing
    <3>3. /\ x.row = <<"membership", Low(c.actor, c.target)>> /\ y.row = <<"membership", High(c.actor, c.target)>>
          /\ z.row = <<"environment">>
      BY StepParts
    <3> HIDE DEF x, y, z
    <3>4. Low(c.actor, c.target) \in Users /\ High(c.actor, c.target) \in Users
      BY <1>5, InSetting DEF WellFormed, Low, High
    <3>5. ASSUME NEW u \in Users PROVE Below(n, k, <<"membership", u>>, <<"authorization", c.target>>)
      BY MembersBelow
    <3>6. Below(n, k, <<"environment">>, <<"authorization", c.target>>)
      BY RowsBelow
    <3>7. h \in {x, y, z}
      BY <3>1, <3>2 DEF H
    <3> QED BY <3>3, <3>4, <3>5, <3>6, <3>7
  <2> HIDE DEF a, w
  <2>4. Ahead(n, k, H, a)
    <3>1. ~Quiet(a.row)
      BY <2>2 DEF Quiet
    <3> QED BY <2>2, <2>3, <3>1, AheadOf
  <2>5. Step(n, k, c, a)
    <3>1. a.row \in {<<"environment">>, <<"decision", c.target>>, <<"document", c.target>>,
                     <<"ticket", c.target>>, <<"authorization", c.target>>}
      BY <2>2
    <3> QED BY <3>1, Steps
  <2>6. Planned(n, k, c, H, <<a>>)
    BY <2>4, <2>5, TuplesPlanned
  <2>7. c.kind \notin RepositoryKinds /\ c.kind # "workspace.owner.transfer"
    BY <1>5 DEF AuthorizationKinds, RepositoryKinds
  <2>8. Fine(<<a>> \o <<w>>)
    BY <1>2, <2>6, <2>7
  <2>9. <<a, w>> = <<a>> \o <<w>>
    OBVIOUS
  <2> QED BY <2>1, <2>8, <2>9 DEF Fine, H
<1>6. CASE c.kind \in MemberKinds
  <2>1. c.kind \notin RepositoryKinds /\ c.kind # "workspace.owner.transfer"
    BY <1>6 DEF MemberKinds, RepositoryKinds, ProjectMemberKinds, ChannelMemberKinds
  <2>2. ASSUME NEW front, Planned(n, k, c, H, front) PROVE Fine(front \o <<w>>)
    BY <1>2, <2>1, <2>2
  <2>3. ASSUME NEW G, NEW r, Quiet(r.row) PROVE Ahead(n, k, H \cup G, r) /\ Step(n, k, c, r)
    BY <1>6, <2>3, MembersHold, Steps DEF H
  <2>4. ASSUME NEW G, \A g \in G : Quiet(g.row), NEW y, NEW v \in Users,
               y.row = <<"membership", v>>, y.mode = "share", v = c.actor \/ v \in LockedLater(c)
        PROVE  Ahead(n, k, H \cup G, y) /\ Step(n, k, c, y)
    <3>1. \A g \in G : Below(n, k, g.row, y.row)
      BY <2>4, RowsBelow
    <3>2. Ahead(n, k, H \cup G, y)
      BY <1>6, <2>4, <3>1, MembersHold DEF H
    <3>3. Step(n, k, c, y)
      BY <2>4, Steps
    <3> QED BY <3>2, <3>3
  <2>5. CASE c.kind = "project.member.set"
    <3> DEFINE x == Checked(<<"role", c.target>>, "update")
               y == Lock(<<"membership", c.target>>, "share")
    <3>1. After(c) = <<x, y, w>>
      BY <2>5, Remainders
    <3>2. Quiet(x.row) /\ y.row = <<"membership", c.target>> /\ y.mode = "share"
      BY StepParts DEF Quiet
    <3>3. c.target \in Users /\ (c.target = c.actor \/ c.target \in LockedLater(c))
      <4>1. Subject(c) = c.target /\ c.target \in Users
        BY <2>5, InSetting DEF Subject, ChannelMemberKinds, WellFormed, ProjectMemberKinds
      <4> QED BY <2>5, <4>1 DEF LockedLater
    <3> HIDE DEF x, y, w
    <3>4. Ahead(n, k, H \cup {}, x) /\ Step(n, k, c, x)
      BY <2>3, <3>2
    <3>5. Ahead(n, k, H \cup {x}, y) /\ Step(n, k, c, y)
      <4> DEFINE G == {x}
      <4>1. \A g \in G : Quiet(g.row)
        BY <3>2
      <4> HIDE DEF G
      <4>2. PICK v \in Users : v = c.target
        BY <3>3
      <4>3. y.row = <<"membership", v>> /\ y.mode = "share" /\ (v = c.actor \/ v \in LockedLater(c))
        BY <3>2, <3>3, <4>2
      <4>4. Ahead(n, k, H \cup G, y) /\ Step(n, k, c, y)
        BY <2>4, <4>1, <4>3
      <4> QED BY <4>4 DEF G
    <3>6. H \cup {} = H
      OBVIOUS
    <3>7. Planned(n, k, c, H, <<x, y>>)
      BY <3>4, <3>5, <3>6, TuplesPlanned
    <3>8. <<x, y, w>> = <<x, y>> \o <<w>>
      OBVIOUS
    <3> QED BY <2>2, <3>1, <3>7, <3>8 DEF Fine, H
  <2>6. CASE c.kind = "project.member.remove"
    <3> DEFINE x == Checked(<<"role", c.target>>, "update")
    <3>1. After(c) = <<x, w>>
      BY <2>6, Remainders
    <3>2. Quiet(x.row)
      BY StepParts DEF Quiet
    <3> HIDE DEF x, w
    <3>3. Ahead(n, k, H \cup {}, x) /\ Step(n, k, c, x)
      BY <2>3, <3>2
    <3>4. H \cup {} = H
      OBVIOUS
    <3>5. Planned(n, k, c, H, <<x>>)
      BY <3>3, <3>4, TuplesPlanned
    <3>6. <<x, w>> = <<x>> \o <<w>>
      OBVIOUS
    <3> QED BY <2>2, <3>1, <3>5, <3>6 DEF Fine, H
  <2>7. CASE c.kind = "channel.create"
    <3> DEFINE e == ElectLocks(c.payload)
    <3>1. After(c) = Append(e, w)
      BY <2>7, Remainders
    <3>2. Planned(n, k, c, H, e)
      BY <2>7, ElectPlanned DEF H
    <3> HIDE DEF e, w
    <3>3. Append(e, w) = e \o <<w>>
      <4> DEFINE S == Elements(e) \cup {w}
      <4>1. e \in Seq(S) /\ w \in S
        BY <3>2, SequenceDomain DEF Planned, Sequence
      <4> HIDE DEF S
      <4> QED BY <4>1, AppendIsConcat
    <3> QED BY <2>2, <3>1, <3>2, <3>3 DEF Fine, H
  <2>8. CASE c.kind \in ChannelMemberKinds
    <3> DEFINE x == Lock(<<"role", Subject(c)>>, "update")
               r == Checked(<<"room", RoomOf(c), Subject(c)>>, "update")
               y == Lock(<<"membership", Subject(c)>>, "share")
    <3>1. Quiet(x.row) /\ Quiet(r.row) /\ y.row = <<"membership", Subject(c)>> /\ y.mode = "share"
      BY StepParts DEF Quiet
    <3>2. \/ c.kind = "channel.member.add" /\ After(c) = <<x, r, y, w>>
          \/ c.kind = "channel.member.remove" /\ After(c) = <<x, r, w>>
      <4>1. c.kind = "channel.member.add" => After(c) = <<x, r, y, w>>
        BY Remainders
      <4>2. c.kind = "channel.member.remove" => After(c) = <<x, r, w>>
        BY Remainders
      <4> QED BY <2>8, <4>1, <4>2 DEF ChannelMemberKinds
    <3> HIDE DEF x, r, y, w
    <3>3. H \cup {} = H
      OBVIOUS
    <3>4. Ahead(n, k, H, x) /\ Step(n, k, c, x) /\ Ahead(n, k, H \cup {x}, r) /\ Step(n, k, c, r)
      BY <2>3, <3>1, <3>3
    <3>5. CASE c.kind = "channel.member.add"
      <4>1. Subject(c) \in Users /\ (Subject(c) = c.actor \/ Subject(c) \in LockedLater(c))
        <5>1. Subject(c) \in Users
          BY <2>8, InSetting DEF Subject, WellFormed
        <5> QED BY <3>5, <5>1 DEF LockedLater
      <4>2. Ahead(n, k, H \cup {x, r}, y) /\ Step(n, k, c, y)
        <5> DEFINE G == {x, r}
        <5>1. \A g \in G : Quiet(g.row)
          BY <3>1
        <5> HIDE DEF G
        <5>2. PICK v \in Users : v = Subject(c)
          BY <4>1
        <5>3. y.row = <<"membership", v>> /\ y.mode = "share" /\ (v = c.actor \/ v \in LockedLater(c))
          BY <3>1, <4>1, <5>2
        <5>4. Ahead(n, k, H \cup G, y) /\ Step(n, k, c, y)
          BY <2>4, <5>1, <5>3
        <5> QED BY <5>4 DEF G
      <4>3. Planned(n, k, c, H, <<x, r, y>>)
        BY <3>4, <4>2, TuplesPlanned
      <4>4. <<x, r, y, w>> = <<x, r, y>> \o <<w>>
        OBVIOUS
      <4> QED BY <2>2, <3>2, <3>5, <4>3, <4>4 DEF Fine, H
    <3>6. CASE c.kind = "channel.member.remove"
      <4>1. Planned(n, k, c, H, <<x, r>>)
        BY <3>4, TuplesPlanned
      <4>2. <<x, r, w>> = <<x, r>> \o <<w>>
        OBVIOUS
      <4> QED BY <2>2, <3>2, <3>6, <4>1, <4>2 DEF Fine, H
    <3> QED BY <3>2, <3>5, <3>6
  <2> QED BY <1>6, <2>5, <2>6, <2>7, <2>8 DEF MemberKinds, ProjectMemberKinds
<1> QED BY <1>3, <1>4, <1>5, <1>6

-----------------------------------------------------------------------------
(* Every transaction climbs *)

\* A plan does not change while its transaction runs, but for the hand-over.
LEMMA BeforeStays ==
    ASSUME Shapes, TxShapes, [Next]_vars, NEW c, Targeted(c), c.kind # "workspace.owner.transfer"
    PROVE  Before(c)' = Before(c) /\ After(c)' = After(c)
<1>1. /\ \A i \in DOMAIN links : links'[i].to = links[i].to
      /\ \A i \in DOMAIN messages : messages'[i] = messages[i]
  <2>1. CASE \A t \in Transactions : ~Commit(t)
    BY <2>1, OnlyCommitsWrite DEF entities, talk
  <2>2. ASSUME NEW t \in Transactions, Commit(t) PROVE <1>1!:
    <3> DEFINE d == tx[t].command
    <3>1. Good(d)
      BY <2>2, CommitFacts
    <3> HIDE DEF d
    <3> QED BY <3>1, LinksKept, MessagesKept
  <2> QED BY <2>1, <2>2
<1>2. RoomOf(c)' = RoomOf(c)
  <2>1. CASE c.kind = "thread.start"
    <3>1. c.target \in DOMAIN messages
      BY <2>1, TargetedFacts
    <3> QED BY <1>1, <2>1, <3>1 DEF RoomOf
  <2>2. CASE c.kind # "thread.start"
    BY <2>2 DEF RoomOf
  <2> QED BY <2>1, <2>2
<1>3. ComponentOf(c)' = ComponentOf(c)
  <2>1. CASE c.kind \in UnlinkKinds
    <3>1. c.payload \in DOMAIN links
      BY <2>1, TargetedFacts
    <3> QED BY <1>1, <3>1 DEF ComponentOf
  <2>2. CASE c.kind \notin UnlinkKinds
    BY <2>2 DEF ComponentOf
  <2> QED BY <2>1, <2>2
<1>4. RoomPlan(c)' = RoomPlan(c) /\ ChannelMemberPlan(c)' = ChannelMemberPlan(c)
  BY <1>2 DEF RoomPlan, ChannelMemberPlan
<1>5. TicketComponentPlan(c)' = TicketComponentPlan(c) /\ RepositoryPlan(c)' = RepositoryPlan(c)
  BY <1>3 DEF TicketComponentPlan, RepositoryPlan
<1>6. Before(c)' = Before(c)
  BY <1>4, <1>5 DEF Before, TicketComponentKinds, RepositoryKinds, ProjectMemberKinds,
                    ChannelMemberKinds, AuthorizationKinds
<1>7. After(c)' = After(c)
  BY <1>2 DEF After
<1> QED BY <1>6, <1>7

\* The order is that of the menu.
LEMMA OrderStays ==
    ASSUME menu' = menu, NEW n, NEW k
    PROVE  /\ Setting(n, k)' <=> Setting(n, k)
           /\ \A held, todo : InOrder(n, k, held, todo)' <=> InOrder(n, k, held, todo)
<1>1. ASSUME NEW kinds PROVE Offers(menu, kinds)' <=> Offers(menu, kinds)
  BY DEF Offers
<1>2. ASSUME NEW row PROVE (Contested(row)' <=> Contested(row)) /\ Rank(n, k, row)' = Rank(n, k, row)
  BY <1>1 DEF Contested, Rank
<1>3. ASSUME NEW p, NEW q PROVE Below(n, k, p, q)' <=> Below(n, k, p, q)
  BY <1>2 DEF Below
<1>4. ASSUME NEW held, NEW r PROVE Ahead(n, k, held, r)' <=> Ahead(n, k, held, r)
  BY <1>3 DEF Ahead
<1>5. ASSUME NEW held, NEW todo PROVE InOrder(n, k, held, todo)' <=> InOrder(n, k, held, todo)
  BY <1>4 DEF InOrder
<1>6. Orderly(menu)' <=> Orderly(menu)
  BY <1>1 DEF Orderly
<1>7. Between(k)' <=> Between(k)
  BY <1>1 DEF Between
<1> QED BY <1>5, <1>6, <1>7 DEF Setting

\* A transaction climbs while others do something,
LEMMA ClimbingStays ==
    ASSUME Shapes, TxShapes, [Next]_vars, NEW n, NEW k, NEW c, NEW h, NEW s, NEW b, Targeted(c),
           Climbing(n, k, c, h, s, b)
    PROVE  Climbing(n, k, c, h, s, b)'
<1>1. InOrder(n, k, h, s)'
  BY OneMoves, OrderStays DEF Climbing
<1>2. InCourse(c, h, s, b)'
  <2>1. CASE c.kind = "workspace.owner.transfer"
    BY <2>1 DEF InCourse, Climbing
  <2>2. CASE c.kind # "workspace.owner.transfer"
    <3>1. Before(c)' = Before(c) /\ After(c)' = After(c)
      BY <2>2, BeforeStays
    <3> QED BY <2>2, <3>1 DEF InCourse, Climbing
  <2> QED BY <2>1, <2>2
<1> QED BY <1>1, <1>2 DEF Climbing

\* when it begins,
LEMMA ClimbingStarts ==
    ASSUME NEW n, NEW k, Setting(n, k), NEW c \in menu
    PROVE  Climbing(n, k, c, {}, Before(c), FALSE)
<1>1. Planned(n, k, c, {}, Before(c))
  BY BeforePlanned
<1> QED BY <1>1 DEF Climbing, InCourse, Planned, Step

\* when it takes its next lock,
LEMMA ClimbingOn ==
    ASSUME NEW n, NEW k, NEW c, NEW h, NEW s, NEW b, Sequence(s), s # <<>>,
           Climbing(n, k, c, h, s, b)
    PROVE  Climbing(n, k, c, h \cup {Head(s)}, Tail(s), b)
<1> DEFINE l == Head(s)
           r == Tail(s)
<1>1. Elements(s) = {l} \cup Elements(r)
  BY Shortened
<1>2. Ahead(n, k, h, l) /\ InOrder(n, k, h \cup {l}, r)
  BY FirstInOrder DEF Climbing
<1> HIDE DEF l, r
<1>3. ASSUME NEW x \in h \cup {l}, Quiet(x.row) PROVE Backed(h \cup {l}, x)
  <2>1. Backed(h, x)
    BY <1>2, <1>3 DEF Climbing, Ahead
  <2> QED BY <2>1 DEF Backed
<1>4. InCourse(c, h \cup {l}, r, b)
  BY <1>1 DEF Climbing, InCourse
<1>5. \A x \in (h \cup {l}) \cup Elements(r) : Proper(c, x)
  BY <1>1 DEF Climbing
<1>6. Climbing(n, k, c, h \cup {l}, r, b)
  BY <1>2, <1>3, <1>4, <1>5 DEF Climbing
<1> QED BY <1>6 DEF l, r

\* and when it passes its claim.
LEMMA ClimbingPast ==
    ASSUME NEW n, NEW k, Setting(n, k), NEW c \in menu, NEW h, Climbing(n, k, c, h, <<>>, FALSE)
    PROVE  Climbing(n, k, c, h, After(c), TRUE)
<1>1. CASE c.kind = "workspace.owner.transfer"
  <2>1. After(c) = <<>>
    BY <1>1, Remainders
  <2> QED BY <1>1, <2>1 DEF Climbing, InCourse
<1>2. CASE c.kind # "workspace.owner.transfer"
  <2>1. h = Elements(Before(c))
    BY <1>2, Listing DEF Climbing, InCourse
  <2>2. InOrder(n, k, h, After(c)) /\ \A l \in Elements(After(c)) : Proper(c, l)
    BY <2>1, AfterPlanned
  <2> QED BY <1>2, <2>1, <2>2 DEF Climbing, InCourse
<1> QED BY <1>1, <1>2

\* So all of them always climb.
LEMMA RanksKept ==
    ASSUME CommandsInv, [Next]_vars, NEW n, NEW k, RanksOK(n, k)
    PROVE  RanksOK(n, k)'
<1> USE DEF CommandsInv
<1>0. menu' = menu /\ (Setting(n, k)' <=> Setting(n, k))
  BY OneMoves, OrderStays
<1>1. ASSUME Setting(n, k), NEW t \in Transactions, tx'[t] # None
      PROVE  Climbing(n, k, tx[t].command, tx[t].held, tx[t].todo, tx[t].claimed)'
  <2> DEFINE Climbs == Climbing(n, k, tx[t].command, tx[t].held, tx[t].todo, tx[t].claimed)
  <2>0. Runs(t) => Climbs /\ tx[t].command \in menu /\ Targeted(tx[t].command) /\ Sequence(tx[t].todo)
                   /\ tx[t].claimed \in BOOLEAN
    BY <1>1 DEF RanksOK, TxShapes
  <2>1. ASSUME NEW c \in menu, NEW h, NEW s, NEW b, Climbing(n, k, c, h, s, b), Targeted(c),
               tx'[t] = [command |-> c, held |-> h, todo |-> s, claimed |-> b]
        PROVE  Climbs'
    <3>1. Climbing(n, k, c, h, s, b)'
      BY <2>1, ClimbingStays
    <3>2. tx'[t].command = c /\ tx'[t].held = h /\ tx'[t].todo = s /\ tx'[t].claimed = b
      BY <2>1
    <3> QED BY <3>1, <3>2
  <2>2. PICK c, h, s, b : c = tx[t].command /\ h = tx[t].held /\ s = tx[t].todo /\ b = tx[t].claimed
    OBVIOUS
  <2>3. Runs(t) => /\ tx[t] = [command |-> c, held |-> h, todo |-> s, claimed |-> b]
                   /\ Climbing(n, k, c, h, s, b) /\ c \in menu /\ Targeted(c)
                   /\ Sequence(s) /\ b \in BOOLEAN
    BY <2>0, <2>2 DEF TxShapes
  <2>4. CASE Runs(t) /\ tx'[t] = tx[t]
    BY <2>1, <2>3, <2>4
  <2>5. CASE \E d \in menu : Begin(t, d) /\ tx'[t] = Begun(d)
    <3>1. PICK d \in menu : Begin(t, d) /\ tx'[t] = Begun(d)
      BY <2>5
    <3>2. PICK plan : plan = Before(d)
      OBVIOUS
    <3>3. Climbing(n, k, d, {}, plan, FALSE) /\ Targeted(d)
      BY <1>1, <3>1, <3>2, ClimbingStarts DEF Begin
    <3>4. tx'[t] = [command |-> d, held |-> {}, todo |-> plan, claimed |-> FALSE]
      BY <3>1, <3>2 DEF Begun
    <3> QED BY <2>1, <3>3, <3>4
  <2>6. CASE Runs(t) /\ Acquire(t) /\ tx'[t] = Acquired(t)
    <3>1. s # <<>>
      BY <2>2, <2>6 DEF Acquire
    <3>2. Climbing(n, k, c, h \cup {Head(s)}, Tail(s), b)
      BY <2>3, <2>6, <3>1, ClimbingOn
    <3>3. tx'[t] = [command |-> c, held |-> h \cup {Head(s)}, todo |-> Tail(s), claimed |-> b]
      BY <2>2, <2>6 DEF Acquired
    <3> QED BY <2>1, <2>3, <2>6, <3>2, <3>3
  <2>7. CASE Runs(t) /\ Claim(t) /\ tx'[t] = Claimed(t)
    <3>1. s = <<>> /\ b = FALSE
      BY <2>2, <2>3, <2>7 DEF Claim
    <3>2. PICK plan : plan = After(c)
      OBVIOUS
    <3>3. Climbing(n, k, c, h, plan, TRUE)
      BY <1>1, <2>3, <2>7, <3>1, <3>2, ClimbingPast
    <3>4. tx'[t] = [command |-> c, held |-> h, todo |-> plan, claimed |-> TRUE]
      BY <2>2, <2>7, <3>2 DEF Claimed
    <3> QED BY <2>1, <2>3, <2>7, <3>3, <3>4
  <2> QED BY <1>1, <2>4, <2>5, <2>6, <2>7, After1
<1> QED BY <1>0, <1>1 DEF RanksOK, Runs

-----------------------------------------------------------------------------
(* Who waits stands below whom he waits for *)

\* Where every transaction climbs.
Climbs(n, k) ==
    /\ CommandsInv /\ Setting(n, k)
    /\ \A t \in Transactions : Runs(t) =>
           Climbing(n, k, tx[t].command, tx[t].held, tx[t].todo, tx[t].claimed)

Waiting(t, u) == Runs(t) /\ Runs(u) /\ WaitsFor(t, u)

\* The rank a transaction has to pass next.
Need(n, k, t) ==
    IF tx[t].todo # <<>> THEN Rank(n, k, Head(tx[t].todo).row) ELSE Peak(n, k) + 5

\* The next lock of a transaction is ahead of what it holds.
LEMMA NextAhead ==
    ASSUME NEW n, NEW k, Climbs(n, k), NEW t, Runs(t), tx[t].todo # <<>>
    PROVE  /\ Ahead(n, k, tx[t].held, Head(tx[t].todo))
           /\ Proper(tx[t].command, Head(tx[t].todo)) /\ Head(tx[t].todo) \in Elements(tx[t].todo)
           /\ tx[t].command \in menu
<1>1. /\ Sequence(tx[t].todo) /\ tx[t].command \in menu
      /\ Climbing(n, k, tx[t].command, tx[t].held, tx[t].todo, tx[t].claimed)
  BY DEF Climbs, CommandsInv, TxShapes, Runs
<1>2. Head(tx[t].todo) \in Elements(tx[t].todo)
  BY <1>1, Shortened
<1>3. Ahead(n, k, tx[t].held, Head(tx[t].todo))
  BY <1>1, FirstInOrder DEF Climbing
<1> QED BY <1>1, <1>2, <1>3 DEF Climbing

\* What two transactions hold does not conflict.
LEMMA HeldApart ==
    ASSUME CommandsInv, NEW t, NEW u, Runs(t), Runs(u), t # u,
           NEW a \in tx[t].held, NEW b \in tx[u].held, a.row = b.row
    PROVE  a.mode # "update" /\ b.mode # "update"
<1>1. ~Blocks(tx[u].held, a)
  BY DEF CommandsInv, LocksOK, Runs
<1> QED BY <1>1 DEF Blocks, Conflict

\* The row one waits for is contested.
LEMMA BlockedContested ==
    ASSUME NEW n, NEW k, Climbs(n, k), NEW t, NEW u, Waiting(t, u), tx[t].todo # <<>>
    PROVE  /\ Contested(Head(tx[t].todo).row)
           /\ \E h \in tx[u].held : h.row = Head(tx[t].todo).row
           /\ ~Had(tx[t].held, Head(tx[t].todo))
<1> DEFINE l == Head(tx[t].todo)
           held == tx[u].held
           c == tx[t].command
           d == tx[u].command
<1>1. t # u /\ Runs(t) /\ Runs(u) /\ CommandsInv
  BY DEF Waiting, WaitsFor, Climbs
<1>2. PICK h \in held : h.row = l.row /\ ("update" \in {h.mode, l.mode})
  BY DEF Waiting, WaitsFor, Blocks, Conflict
<1>3. Ahead(n, k, tx[t].held, l) /\ Proper(c, l) /\ c \in menu
  BY <1>1, NextAhead
<1>4. (Quiet(h.row) => Backed(held, h)) /\ Proper(d, h) /\ d \in menu
  BY <1>1, <1>2 DEF Climbs, Climbing, Runs, CommandsInv, TxShapes
<1> HIDE DEF l, held, c, d
<1>5. ~Quiet(l.row)
  <2> SUFFICES ASSUME Quiet(l.row) PROVE FALSE
    OBVIOUS
  <2>1. PICK a \in tx[t].held : a.row = <<"project">> /\ (l.mode = "update" => a.mode = "update")
    BY <1>3 DEF Ahead, Backed
  <2>2. PICK b \in held : b.row = <<"project">> /\ (h.mode = "update" => b.mode = "update")
    BY <1>2, <1>4 DEF Backed
  <2> QED BY <1>1, <1>2, <2>1, <2>2, HeldApart DEF held
<1>6. l.row[1] = "membership" => Offers(menu, {"workspace.owner.transfer"})
  BY <1>2, <1>3, <1>4 DEF Proper, Offers
<1>7. l.row[1] = "project" => Offers(menu, MemberKinds)
  BY <1>2, <1>3, <1>4 DEF Proper, Offers
<1>8. Contested(l.row)
  BY <1>5, <1>6, <1>7 DEF Contested
<1>9. ~Had(tx[t].held, l)
  <2> SUFFICES ASSUME NEW a \in tx[t].held, a.row = l.row, a.mode = "update" \/ l.mode # "update"
               PROVE  FALSE
    BY DEF Had
  <2>1. a.row = h.row /\ (a.mode = "update" \/ h.mode = "update")
    BY <1>2
  <2> QED BY <1>1, <2>1, HeldApart DEF held
<1> QED BY <1>2, <1>8, <1>9 DEF l, held

\* Commands that write for all the same row hold it from before their claim.
Sole(c) ==
    IF c.kind \in MemberKinds THEN <<"project">>
    ELSE IF c.kind \in AuthorizationKinds THEN <<"environment">> ELSE <<"workspace">>

LEMMA Exclusive ==
    ASSUME NEW n, NEW k, Setting(n, k), NEW c \in menu,
           c.kind \in MemberKinds \cup AuthorizationKinds \cup RepositoryKinds
    PROVE  \E l \in Elements(Before(c)) : l.row = Sole(c) /\ l.mode = "update"
<1>1. CASE c.kind \in MemberKinds
  <2>1. \E l \in Elements(Before(c)) : l.row = <<"project">> /\ l.mode = "update"
    BY <1>1, MembersHold
  <2> QED BY <1>1, <2>1 DEF Sole
<1>2. CASE c.kind \in AuthorizationKinds
  <2> DEFINE x == Lock(<<"membership", Low(c.actor, c.target)>>, "share")
             y == Lock(<<"membership", High(c.actor, c.target)>>, "share")
             z == Checked(<<"environment">>, "update")
  <2>1. Before(c) = <<x, y, z>>
    BY <1>2, Plans DEF AuthorizationPlan
  <2>2. z.row = <<"environment">> /\ z.mode = "update"
    BY StepParts
  <2> HIDE DEF x, y, z
  <2>3. z \in Elements(Before(c))
    BY <2>1, Listing
  <2>4. Sole(c) = <<"environment">>
    BY <1>2 DEF Sole, MemberKinds, AuthorizationKinds, ProjectMemberKinds, ChannelMemberKinds
  <2> QED BY <2>2, <2>3, <2>4
<1>3. CASE c.kind \in RepositoryKinds
  <2> DEFINE x == Lock(<<"membership", c.actor>>, "share")
             y == Lock(<<"workspace">>, "update")
             z == Checked(<<"component", ComponentOf(c)>>, "update")
  <2>1. Before(c) = <<x, y, z>> \o LinkRow(c)
    BY <1>3, Plans DEF RepositoryPlan
  <2>2. y.row = <<"workspace">> /\ y.mode = "update"
    BY StepParts
  <2> HIDE DEF x, y, z
  <2>3. y \in Elements(Before(c))
    <3>1. Sequence(<<x, y, z>>) /\ Sequence(LinkRow(c)) /\ y \in Elements(<<x, y, z>>)
      BY Listing, LinkRows
    <3> QED BY <2>1, <3>1, ElementsJoined
  <2>4. Sole(c) = <<"workspace">>
    BY <1>3 DEF Sole, MemberKinds, AuthorizationKinds, RepositoryKinds, ProjectMemberKinds, ChannelMemberKinds
  <2> QED BY <2>2, <2>3, <2>4
<1> QED BY <1>1, <1>2, <1>3

\* So no such command waits for the claim of another.
LEMMA NoSoleClaim ==
    ASSUME NEW n, NEW k, Climbs(n, k), NEW t, NEW u, Waiting(t, u), tx[t].todo = <<>>
    PROVE  /\ tx[u].claimed /\ ~tx[t].claimed /\ tx[t].command.kind = tx[u].command.kind
           /\ tx[t].command \in menu /\ tx[u].command \in menu
           /\ tx[t].command.kind # "workspace.owner.transfer" =>
                  tx[t].held = Elements(Before(tx[t].command))
           /\ tx[t].command.kind \notin MemberKinds \cup AuthorizationKinds \cup RepositoryKinds
<1> DEFINE c == tx[t].command
           d == tx[u].command
<1>1. t # u /\ Runs(t) /\ Runs(u) /\ CommandsInv /\ Setting(n, k)
  BY DEF Waiting, WaitsFor, Climbs
<1>2. tx[u].claimed /\ ~tx[t].claimed /\ Key(d) = Key(c)
  BY DEF Waiting, WaitsFor, SameClaim
<1>3. c.kind = d.kind
  <2>1. Key(c)[2] = c.kind /\ Key(d)[2] = d.kind
    BY DEF Key
  <2> QED BY <1>2, <2>1
<1>4. c \in menu /\ d \in menu /\ InCourse(c, tx[t].held, <<>>, tx[t].claimed)
      /\ InCourse(d, tx[u].held, tx[u].todo, tx[u].claimed)
  BY <1>1 DEF Climbs, Climbing, Runs, CommandsInv, TxShapes
<1> HIDE DEF c, d
<1>5. c.kind # "workspace.owner.transfer" =>
          tx[t].held = Elements(Before(c)) /\ Elements(Before(d)) \subseteq tx[u].held
  BY <1>2, <1>3, <1>4, Listing DEF InCourse
<1>6. c.kind \notin MemberKinds \cup AuthorizationKinds \cup RepositoryKinds
  <2> SUFFICES ASSUME c.kind \in MemberKinds \cup AuthorizationKinds \cup RepositoryKinds PROVE FALSE
    OBVIOUS
  <2>1. c.kind # "workspace.owner.transfer"
    BY DEF MemberKinds, AuthorizationKinds, RepositoryKinds, ProjectMemberKinds, ChannelMemberKinds
  <2>2. PICK a \in Elements(Before(c)) : a.row = Sole(c) /\ a.mode = "update"
    BY <1>1, <1>4, Exclusive
  <2>3. PICK b \in Elements(Before(d)) : b.row = Sole(d) /\ b.mode = "update"
    BY <1>1, <1>3, <1>4, Exclusive
  <2>4. Sole(c) = Sole(d)
    BY <1>3 DEF Sole
  <2>5. a \in tx[t].held /\ b \in tx[u].held /\ a.row = b.row
    BY <1>5, <2>1, <2>2, <2>3, <2>4
  <2> QED BY <1>1, <2>2, <2>5, HeldApart
<1> QED BY <1>2, <1>3, <1>4, <1>5, <1>6 DEF c, d

\* Needs rise along waiting transactions.
LEMMA NeedsRise ==
    ASSUME NEW n, NEW k, Climbs(n, k), NEW t, NEW u, NEW v, NEW w,
           Waiting(t, u), Waiting(u, v), Waiting(v, w)
    PROVE  Need(n, k, t) < Need(n, k, u)
<1>1. Runs(t) /\ Runs(u) /\ Runs(v) /\ Setting(n, k) /\ CommandsInv
  BY DEF Waiting, Climbs
<1>2. Peak(n, k) \in Nat
  BY <1>1 DEF Peak, Setting
<1>3. \A x \in {t, u, v} : tx[x].claimed => tx[x].todo # <<>>
  BY DEF Waiting, WaitsFor, SameClaim
<1>4. CASE tx[t].todo # <<>>
  <2> DEFINE l == Head(tx[t].todo)
  <2>1. PICK h \in tx[u].held : h.row = l.row /\ Contested(h.row)
    BY <1>4, BlockedContested
  <2>2. Need(n, k, t) = Rank(n, k, h.row)
    BY <1>4, <2>1 DEF Need
  <2> HIDE DEF l
  <2>3. CASE tx[u].todo # <<>>
    <3> DEFINE g == Head(tx[u].todo)
    <3>1. Contested(g.row) /\ ~Had(tx[u].held, g)
      BY <2>3, BlockedContested
    <3>2. Ahead(n, k, tx[u].held, g)
      BY <1>1, <2>3, NextAhead
    <3>3. Need(n, k, u) = Rank(n, k, g.row)
      BY <2>3 DEF Need
    <3> HIDE DEF g
    <3> QED BY <2>1, <2>2, <3>1, <3>2, <3>3 DEF Ahead, Below
  <2>4. CASE tx[u].todo = <<>>
    <3> DEFINE c == tx[u].command
    <3>1. /\ tx[v].claimed /\ c.kind = tx[v].command.kind /\ c \in menu
          /\ c.kind # "workspace.owner.transfer" => tx[u].held = Elements(Before(c))
          /\ c.kind \notin RepositoryKinds
      BY <2>4, NoSoleClaim
    <3>2. c.kind # "workspace.owner.transfer"
      <4>1. InCourse(tx[v].command, tx[v].held, tx[v].todo, tx[v].claimed)
        BY <1>1 DEF Climbs, Climbing, Runs
      <4> QED BY <1>3, <3>1, <4>1 DEF InCourse
    <3> HIDE DEF c
    <3>3. Step(n, k, c, h)
      BY <1>1, <2>1, <3>1, <3>2, BeforePlanned DEF Planned
    <3>4. Rank(n, k, h.row) < Peak(n, k) + 5
      BY <2>1, <3>1, <3>2, <3>3 DEF Step
    <3>5. Need(n, k, u) = Peak(n, k) + 5
      BY <2>4 DEF Need
    <3> QED BY <2>2, <3>4, <3>5
  <2> QED BY <2>3, <2>4
<1>5. CASE tx[t].todo = <<>>
  <2> DEFINE d == tx[u].command
             g == Head(tx[u].todo)
  <2>1. /\ tx[u].claimed /\ d.kind = tx[t].command.kind /\ d \in menu
        /\ d.kind \notin MemberKinds \cup AuthorizationKinds \cup RepositoryKinds
    BY <1>5, NoSoleClaim
  <2>2. tx[u].todo # <<>> /\ InCourse(d, tx[u].held, tx[u].todo, tx[u].claimed)
    BY <1>1, <1>3, <2>1 DEF Climbs, Climbing, Runs
  <2>3. d.kind # "workspace.owner.transfer"
    BY <2>1, <2>2 DEF InCourse
  <2>4. g \in Elements(tx[u].todo)
    BY <1>1, <2>2, NextAhead
  <2>5. g \in Elements(After(d))
    BY <2>1, <2>2, <2>3, <2>4 DEF InCourse
  <2>6. g.row = <<"workspace">>
    <3> HIDE DEF d, g
    <3> DEFINE x == Lock(<<"workspace">>, "key")
    <3>1. After(d) = <<x>> /\ x.row = <<"workspace">>
      BY <2>1, <2>3, Remainders, StepParts
    <3> HIDE DEF x
    <3> QED BY <2>5, <3>1, Listing
  <2>7. Need(n, k, t) = Peak(n, k) + 5 /\ Need(n, k, u) = Peak(n, k) + 6
    <3>1. Need(n, k, u) = Rank(n, k, g.row) /\ Need(n, k, t) = Peak(n, k) + 5
      BY <1>5, <2>2 DEF Need
    <3>2. Rank(n, k, <<"workspace">>) = Peak(n, k) + 6
      BY Heights
    <3> QED BY <2>6, <3>1, <3>2
  <2> QED BY <1>2, <2>7
<1> QED BY <1>4, <1>5

-----------------------------------------------------------------------------
(* No circle *)

\* Only members of the Workspace are locked.
LEMMA LockedUsers ==
    ASSUME NEW c, WellFormed(c)
    PROVE  LockedFirst(c) \subseteq Users /\ LockedLater(c) \subseteq Users
<1>1. c.actor \in Users
  BY DEF WellFormed
<1>2. LockedFirst(c) \subseteq Users
  BY <1>1 DEF LockedFirst
<1>3. CASE c.kind \in {"project.member.set", "channel.member.add"}
  <2>1. Subject(c) \in Users
    BY <1>3 DEF Subject, WellFormed, ChannelMemberKinds, ProjectMemberKinds
  <2>2. LockedLater(c) = {Subject(c)} \ {c.actor}
    BY <1>3 DEF LockedLater
  <2> QED BY <1>2, <2>1, <2>2
<1>4. CASE c.kind = "channel.create"
  <2>1. LockedLater(c) = {c.payload[i] : i \in DOMAIN c.payload} \ {c.actor}
    BY <1>4 DEF LockedLater
  <2>2. c.payload \in Seq(Users)
    BY <1>4 DEF WellFormed
  <2>3. \A i \in DOMAIN c.payload : c.payload[i] \in Users
    BY <2>2
  <2> QED BY <1>2, <2>1, <2>3
<1>5. CASE c.kind \notin {"project.member.set", "channel.member.add", "channel.create"}
  BY <1>1, <1>2, <1>5 DEF LockedLater
<1> QED BY <1>3, <1>4, <1>5

\* If the menu is orderly, a number separates the memberships.
LEMMA Separated ==
    ASSUME NEW n \in Nat, Users \subseteq 0..n, menu \in Menus, Orderly(menu)
    PROVE  \E k \in Nat : Setting(n, k)
<1> DEFINE later == UNION {LockedLater(c) : c \in menu}
           Mixed == Offers(menu, {"workspace.owner.transfer"}) /\ Offers(menu, MemberKinds)
<1>1. \A c \in menu : LockedFirst(c) \subseteq Users /\ LockedLater(c) \subseteq Users
  BY CommandsAssumption, LockedUsers
<1>2. CASE ~Mixed
  <2>1. Between(0)
    BY <1>2 DEF Between
  <2> QED BY <2>1 DEF Setting
<1>3. CASE Mixed /\ later = {}
  <2>1. ASSUME NEW c \in menu PROVE (\A u \in LockedFirst(c) : u < n + 1) /\ LockedLater(c) = {}
    <3>1. \A u \in 0..n : u < n + 1
      OBVIOUS
    <3>2. \A u \in LockedFirst(c) : u \in 0..n
      BY <1>1
    <3>3. LockedLater(c) = {}
      BY <1>3
    <3> QED BY <3>1, <3>2, <3>3
  <2>2. n + 1 \in Nat /\ Between(n + 1)
    BY <2>1 DEF Between
  <2> QED BY <2>2 DEF Setting
<1>4. CASE Mixed /\ later # {}
  <2>1. ASSUME NEW v \in later PROVE v \in Nat
    <3>1. PICK c \in menu : v \in LockedLater(c)
      OBVIOUS
    <3>2. v \in 0..n
      BY <1>1, <3>1
    <3> QED BY <3>2
  <2>2. PICK k \in later : \A v \in later : k <= v
    BY <1>4, <2>1, Least
  <2>3. PICK d \in menu : k \in LockedLater(d)
    BY <2>2
  <2>4. ASSUME NEW c \in menu PROVE \A u \in LockedFirst(c) : u < k
    BY <1>4, <2>3 DEF Orderly
  <2>5. ASSUME NEW c \in menu PROVE \A v \in LockedLater(c) : k <= v
    BY <2>2
  <2>6. k \in Nat /\ Between(k)
    BY <2>1, <2>2, <2>4, <2>5 DEF Between
  <2> QED BY <2>6 DEF Setting
<1> QED BY <1>2, <1>3, <1>4

\* In a circle somebody would need most, and would wait for one who needs more.
LEMMA NoCircle ==
    ASSUME NEW n, NEW k, Climbs(n, k)
    PROVE  NoDeadlock
<1> SUFFICES ASSUME NEW S \in Deadlocked(Waits) PROVE FALSE
  BY DEF NoDeadlock
<1>1. S # {} /\ \A t \in S : \E u \in S : Waiting(t, u)
  BY DEF Deadlocked, Waits, Waiting, Running, Runs
<1>2. PICK b \in Nat : b = Peak(n, k)
  BY DEF Climbs, Setting, Peak
<1>3. ASSUME NEW t \in S PROVE Need(n, k, t) \in 0..(b + 8)
  <2>1. Runs(t) /\ Setting(n, k)
    BY <1>1 DEF Waiting, Climbs
  <2>2. CASE tx[t].todo # <<>>
    <3> DEFINE l == Head(tx[t].todo)
               c == tx[t].command
    <3>1. Proper(c, l) /\ Need(n, k, t) = Rank(n, k, l.row)
      BY <2>1, <2>2, NextAhead DEF Need
    <3> HIDE DEF l, c
    <3> QED BY <1>2, <2>1, <3>1, RankBounds
  <2>3. CASE tx[t].todo = <<>>
    <3>1. Need(n, k, t) = b + 5
      BY <1>2, <2>3 DEF Need
    <3> QED BY <1>2, <3>1
  <2> QED BY <2>2, <2>3
<1> DEFINE Left(t) == b + 8 - Need(n, k, t)
           lefts == {Left(t) : t \in S}
<1>4. \A t \in S : Left(t) \in Nat
  BY <1>2, <1>3
<1>5. lefts \subseteq Nat /\ lefts # {}
  BY <1>1, <1>4
<1>6. PICK m \in lefts : \A x \in lefts : m <= x
  BY <1>5, Least
<1>7. PICK t \in S : m = Left(t)
  BY <1>6
<1>8. PICK u \in S : Waiting(t, u)
  BY <1>1
<1>9. PICK v \in S : Waiting(u, v)
  BY <1>1
<1>10. PICK w \in S : Waiting(v, w)
  BY <1>1
<1>11. Need(n, k, t) < Need(n, k, u)
  BY <1>8, <1>9, <1>10, NeedsRise
<1>12. Left(t) <= Left(u)
  BY <1>6, <1>7
<1> QED BY <1>2, <1>3, <1>11, <1>12

\* No set of transactions waits for one another, however many of them there are, as
\* long as clients send commands whose orders of locks are compatible.
THEOREM OrderlyMenusDoNotDeadlock ==
    ASSUME NEW N \in Nat, Users \subseteq 0..N
    PROVE  Spec => [](Orderly(menu) => NoDeadlock)
<1> DEFINE Ranked == \A k \in Nat : RanksOK(N, k)
<1>1. Init => Ranked
  BY DEF Init, RanksOK, Runs
<1>2. CommandsInv /\ Ranked /\ [Next]_vars => Ranked'
  <2> SUFFICES ASSUME CommandsInv, Ranked, [Next]_vars, NEW k \in Nat PROVE RanksOK(N, k)'
    OBVIOUS
  <2> QED BY RanksKept
<1>3. CommandsInv /\ Ranked => (Orderly(menu) => NoDeadlock)
  <2> SUFFICES ASSUME CommandsInv, Ranked, Orderly(menu) PROVE NoDeadlock
    OBVIOUS
  <2>1. PICK k \in Nat : Setting(N, k)
    BY Separated DEF CommandsInv, Shapes
  <2>2. Climbs(N, k)
    BY <2>1 DEF Climbs, RanksOK
  <2> QED BY <2>2, NoCircle
<1> QED BY <1>1, <1>2, <1>3, CommandsInvariant, PTL DEF Spec

=============================================================================
