# RadishNexus, modelled in TLA+

RadishNexus is a self-hosted collaboration service for engineering teams. A Go server keeps Messages,
Decisions, Tickets, Documents and delivery records in PostgreSQL; a React client follows Channels through
server-sent events; a Jenkins pipeline delivers build results to the server through a durable worker.

The specifications in this directory cover the parts whose correctness depends on the order in which
independent actors act: goroutines, transactions, processes that crash, requests that arrive late, and
people who click at the same time. They are translated from the code, not from its documents; where the
two disagree, a run shows it where it can (see *Findings*). Line numbers in comments and below refer to the sources in
this repository.

1. [The system](#the-system)
2. [Modules](#modules)
3. [Runs](#runs)
4. [Fairness](#fairness)
5. [Proofs](#proofs)
6. [Findings](#findings)
7. [What is abstracted and what is not modelled](#what-is-abstracted-and-what-is-not-modelled)
8. [Plan](#plan)
9. [Running the checks](#running-the-checks)

## The system

### How the parts interact

    browser page --HTTP commands--> HTTP transport --> services --> PostgreSQL transactions
         ^                                                |
         |                                                v after the commit, in memory
         +----- event stream <--- stream handler <--- realtime hub

    Jenkins builds --> collector --files--> worker --HTTP--> receiver --> PostgreSQL
                           ^----------acks----'

    operator --nexus-account-recover, nexus-bootstrap, nexus-migrate,
               nexus-backup, nexus-restore--> PostgreSQL, backup directories

Four kinds of interaction carry the risk:

- **Shared rows.** Every write command is one READ COMMITTED transaction that takes explicit row locks
  (`FOR UPDATE`, `FOR SHARE`) and implicit ones (the `FOR KEY SHARE` of a foreign key). What a command may
  do is decided under these locks; two commands with different lock orders can wait for each other.
- **Shared memory.** Notifications go from a committed command through the hub to the goroutines that
  serve event streams. Nothing of it is durable.
- **Shared directories.** Collector and worker exchange files; either may end between two of them. Backups
  are directories that are put together under a temporary name.
- **Reads that age.** A login verifies a password, a callback talks to a provider, a backup runs `pg_dump`,
  all between a read without a lock and the transaction that relies on it.

### Inventory

The status says what the modules cover today: **M** modelled, **P** partly, **-** not modelled.

| Component | State it keeps | Operations | What is hard | Correct when |
|---|---|---|---|---|
| Realtime hub (`realtime/hub.go`) **M** | per Channel a position and a bounded window; subscriptions with a position and a wake token; three counters | notify, subscribe, drain, close, shutdown | slow readers and trimming; racing shutdown; slots on every way out | a reader gets an unbroken run or is told to resync, exactly when it must; counters are exact |
| Channel event stream and page follow-up (`channel_events.go`, `main.go`, `realtime.ts`, `state.ts`, `ChannelPage.tsx`) **P** | handler goroutine, response in flight, `EventSource`, reducer state | accept, drain, authorize, write, heartbeat; connect, ready, event, resync, revoke, probe | permission read before and used after; history and events racing; process restart; reconnect with an old cursor | no readable Message is lost, nothing unreadable leaves, withdrawn access and shutdown end every stream |
| Messaging (`messaging.go`, `channel_messages.go`) **P** (all but paging) | Messages, Threads, participants, operation ids | create Message, reply, start a Thread, page through history | lost acknowledgement, replay, a member removed meanwhile | one Message per operation id; no private access left behind |
| Jenkins delivery worker (`jenkins/spool*.go`, `sender.go`) **P** (all but capacity limits and damaged files) | one record and one ack per build on disk; the process's place in a tick | run, tick, import, send, settle, acknowledge, retry, cleanup, status | crash at every file step; late requests; two budgets; a pause that has to survive restarts | an ack means recorded; the budget holds across crashes; no build starves another |
| Jenkins collector (`Collector.groovy`) **P** | checkpoint with tracked, handed-off and retired builds | sweep, publish, hand off, retire, remove | crash between file and checkpoint; builds pruned by Jenkins meanwhile | each finished build is published once, and kept until acknowledged |
| CI run receiver (`jenkins_delivery.go`, `postgres/ci_run.go`) **P** | inbound receipts, CI runs, checkout links, source bindings | receive, bind a checkout, activate | duplicates and conflicts; two senders of one source | one meaning per build |
| Decisions, Tickets, receipts (`postgres/store.go`, `collaboration_receipts.go`) **M** | decisions, tickets, command receipts, domain events | propose, accept, create Ticket | retries in parallel; acceptance racing Ticket creation | one effect per command; a Ticket only from an accepted Decision |
| Ticket status and Component links (`ticket_status.go`, `ticket_component.go`) **M** | status with revision, entity links | change status, link, unlink | A-B-A retries; revision at the width of its column; lock order | no lost update; a retry is told its own effect |
| Documents (`postgres/document.go`) **P** | immutable revisions, current revision | create, save, restore; drafts in the editor page | concurrent saves on one base | revisions form one chain |
| Owner transfer (`owner_transfer.go`) **P** (all but the panel) | Workspace memberships with a role revision, receipts | transfer, read back one's own transfer | two transfers at once; invitations of a former owner; a former owner asking for the result | as many owners as before, never a half transfer |
| Login, Sessions, setup, recovery (`authn/`, `auth.go`, `limiter.go`, `nexus-account-recover`) **P** | credentials with failures and lock, Sessions, the guard's windows and slots, the audit of recoveries | log in, log out, bootstrap, inspect, recover, map legacy addresses | recovery racing logins; late failures; lost acknowledgements; two bootstraps | no Session of an old password; failures count against the password in force; one first owner |
| OIDC and invitations (`authn/oidc.go`, `authn/identity.go`, `authn/postgres/`) **M** | one-time states with a cap, invitations, external identities | invite, redeem, start, callback, link, unlink | identity looked up before its account is locked; a secret redeemed twice; lock order of admission | a secret works once; Sessions only of bound identities; an invitation ends with its inviter's term |
| Staging deployments (`deployment.go`) **P** (all but the form) | authorizations, deployments, receipts | record a result | authorization revoked meanwhile | only authorized results are recorded |
| Workspace, delivery and repository configuration (`configuration.go`, `delivery_configuration.go`, `repository_configuration.go`) **P** | Teams, Projects, Channels, members, Components, Environments, Repositories, audit | create and set commands, Channel and Project members, grant and revoke, link and unlink Repository | lock orders across commands; retries; a member removed while he joins something | one effect; no lock cycle; no access left behind |
| Relations, activity, outbox (`relations.go`, `activity.go`, `nexus_view.go`) **P** | entity links, activity projection, outbox | record, project, rebuild | rebuild racing writers | projection equals rebuild |
| Access checks (`postgres/access.go`, `authz/authz.go`) **P** (all but evidence) | none of their own | role, Channel and Thread membership reads with row locks | role withdrawn while a command waits | permission is current at the commit |
| Discovery (`discovery.go`) **-** | none | search under current permission | paging | nothing unreadable is listed |
| Migrations and readiness (`db/migrations.go`) **P** (readiness only reads) | applied migrations, the advisory lock | migrate, check | two migrators, of different builds | each migration once, in order |
| Backup and restore (`backuprestore/`, `nexus-backup`, `nexus-restore`) **M** | archive directories, the target | back up, publish, inspect, restore, migrate, verify, rebuild | checks long before the step they guard; a stop anywhere | what is published is whole; a restore brings back one moment or says it failed |
| Command-line tools (`cmd/nexus-*`) **P** | none | arguments and prompts around the operations above | | |
| Proxy and browser boundaries (`httptransport/proxy.go`, `session.go`) **-** | none | header and cookie checks | | |
| Web shell, read-only pages (`App.tsx`, `NexusView.tsx`) **-** | routing | render | | |
| Markdown projection (`markdown/`) **-** | none | convert | | |

`PROJECT.json` lists the same components with their sources, and under `hazards` every place where this
code can go wrong in a way a test would hardly reach, each with the property that watches it.

## Modules

| Module | What it is |
|---|---|
| `ChannelFeed` | abstract: what the hub promises its readers |
| `MessageHub` | the hub, one action per exported operation; implements `ChannelFeed` |
| `MessageHub_proofs` | theorems about `MessageHub` |
| `ChannelStream` | `MessageHub` composed with commands, handlers, the process, the network and the page |
| `ChannelStream_proofs` | theorems about `ChannelStream`, on top of those about the hub |
| `JenkinsHandoff` | abstract: what the durable delivery promises for each build |
| `JenkinsSpool` | worker, receiver and the collector's visible acts on shared files; implements `JenkinsHandoff` |
| `JenkinsSpool_proofs` | theorems about `JenkinsSpool` |
| `RowLocks` | PostgreSQL row locks as far as the commands use them (external) |
| `WorkspaceCommands` | the write commands of a Project as interleaved transactions over `RowLocks` |
| `WorkspaceCommands_proofs` | theorems about `WorkspaceCommands` |
| `Accounts` | local credentials: login guard, login, lockout, recovery |
| `Accounts_proofs` | theorems about `Accounts` |
| `Identities` | bootstrap, invitations, OIDC identities and hand-over as interleaved transactions over `RowLocks` |
| `Identities_proofs` | theorems about `Identities` |
| `BackupRestore` | migrations, backups, restores and the Activity projection of databases |
| `BackupRestore_proofs` | theorems about `BackupRestore` |
| `SequenceFacts` | lemmas about sequences and numbers that several of the proofs use |
| `MC...` | instances for TLC |

Operators whose names begin with `Bug` are wrong versions of a definition that follows them (a dropped
guard, an off-by-one, a swapped order). No specification uses them; substituting one must break the
property `PROJECT.json` names under `mutants`, which shows that the property depends on the code.

### MessageHub, ChannelFeed

Every method of `Hub` and `Subscription` holds `hub.mu` from beginning to end, so one action is one call.
`position` and `records` are `channelState`, `subs` the `Subscription` values with their one-token wake
channel, and the three counters those of `Hub`. `TrimToLimit`, `ReplayUnavailable`, `CanResume` and
`Unseen` are the helpers of the source. Calls that return an error change nothing; the conditions under
which they do are operators that `ChannelStream` uses to pick a handler's answer. `log`, `start` and `got`
are history: what was announced, where a subscription began and what it has drained.

`ChannelFeed` knows nothing of windows, limits and wake-ups: readers join one log at a position and are
handed contiguous runs of it. `Feed` in `MessageHub` is the refinement mapping.

### ChannelStream

One viewer follows one Channel. A connection, the goroutine serving it and its hub subscription share an
identity.

| State | Code |
|---|---|
| `command`, `committed` | `CreateMessage` between its commit and `NotifyMessageCreated` (`goldenpath/messaging.go:185`) |
| `handler` | where `channelEventsHandler` is: draining, authorizing an event, loading it, or in its `select` |
| `wire` | the request, the response frames in flight and whether the client is gone |
| `process`, `generation` | `main.go`: up, draining after a signal, down; the hub is recreated |
| `source` | the browser's `EventSource`: connecting, open, failed, closed; last event id |
| `page` | the reducer of `state.ts` and the per-epoch flags of `realtime.ts` |
| `access` | Session, membership and Channel permission, one bit that may be cleared for good |

The handler checks access at each drain, again before each Message, and a third time when
`GetChannelMessage` reads it; the model keeps these as separate steps so that access may vanish between
any two. `LoadEvent` merges the database read with the write to the socket, which follows it directly.
The page asks for history when the first `ready` arrives and merges what comes meanwhile; both halves of
the history request are steps of their own.

### JenkinsSpool, JenkinsHandoff

`input`, `record` and `ack` are the three directories, `proof` is the collector's checkpoint entry, and
`pc` says where the single worker process is within a tick, a round or a `retry`. Every file is replaced
by `atomicSpoolWrite`, so `SaveRecord` and `SaveAck` either succeed and go on, or fail with the old or the
new content in place and end the process: the code returns the error up to `main`. `Crash` ends the
process at any other point; a request that was out may then still reach the receiver (`late`), also after
a restart. `OneShot` is the other sender, `jenkins-delivery`. `SettledRecord`, `ReservedRecord` and their
siblings are the records the code writes, `Exhausted`, `Due` and `Chosen` what it reads.

`JenkinsHandoff` says: bytes are taken in once; one meaning is recorded; a confirmation needs that the
recorded meaning is that of the bytes taken in; the producer releases its copy after that, and the worker
its own after the producer. `Handoff` maps the directories to it.

### WorkspaceCommands, RowLocks

| Step | Code |
|---|---|
| `Begin` | a request arrives, its transaction begins |
| `Acquire` | the next locking statement of the command's plan gets its row |
| `Refuse` | the permission read under these locks says no |
| `Claim` | the receipt's `INSERT ... ON CONFLICT DO NOTHING` inserts; a second run of the same command waits here for the first |
| `Replay` | the receipt exists: its digest decides between the old answer and a conflict |
| `Reject` | what the command needs does not hold (base revision, status, role, duplicate link) |
| `Commit` | the writes and the commit |
| `Abort` | cancellation, lost connection, lock timeout, deadlock victim, failed statement |

`Before` and `After` list, per kind of command, the row locks taken before and after its receipt is
resolved, in the order of the code and with their modes; a `Checked` step is one after which the code
decides. Writes are a single step at the commit because no other transaction sees them earlier: all reads
of other transactions are of committed rows, and every row written is locked. Receipts keep the digest,
the object, its revision and the journal entry that proves the effect, so that what a retry is told can be
compared with what the command did. A client may repeat any command of its menu at any time, in parallel
too.

| Kinds | Code |
|---|---|
| `document.*` | `document.go`: create, save, restore on a base revision |
| `decision.*`, `ticket.create` | `store.go` |
| `ticket.status.change` | `ticket_status.go`, with the provenance a retry is checked against |
| `ticket.component.*`, `component.repository.*` | `ticket_component.go`, `repository_configuration.go` |
| `project.member.*`, `channel.create`, `channel.member.*` | `configuration.go`: a removal also takes the user out of Channels and Threads (`Dismiss`) |
| `message.create`, `thread.start` | `messaging.go`: the operation id is the key of a Message; the link from a Message to its Thread is the key of the Thread |
| `environment.authorization.*` | `delivery_configuration.go`: `grants` holds the generation of the latest authorization of each user |
| `deployment.record` | `deployment.go`: names the authorization it was recorded under |
| `workspace.owner.transfer` | `owner_transfer.go`, with the path that only reads history |

In `RowLocks`, `FOR UPDATE` conflicts with every mode and the other two modes conflict only with it;
`Deadlocked` looks for a set of transactions that all wait for one another.

### Accounts

| State | Code |
|---|---|
| `credential` | `local_credentials`: hash, when it was changed, failures, lock; whether the account has an address |
| `login` | where `authn.Service.Login` is with a request, and what `FindLocalAccount` read |
| `session` | the Session a login created |
| `window`, `slots` | `LoginGuard` of `limiter.go`: attempts per client, passwords being verified |
| `run`, `audit` | a run of `nexus-account-recover apply`, and the `identity_audit` rows of recoveries |
| `blamed` | history: the guesses counted since the last reset |

A login is `Begin` (guard), `Find`, `Decide` (the hash is verified, then the time is taken), and one
transaction: `RecordFailedLogin` or `CreateSession`. A recovery is `Inspect`, `CheckOperation`,
`ReadCandidate` (with the hashing) and `ApplyRecovery`. Both transactions lock the account first and are one
step each; everything the code reads before them is kept in `login` or `run`, since it may be stale by then.
A hash is a password and the run that salted it, so that the same password hashed twice gives two hashes.
`ApplyRecovery` has the four ways a COMMIT may end: acknowledged or not, done or not.

### Identities

| State | Code |
|---|---|
| `password`, `bound`, `member` | `local_credentials`, `external_identities`, `workspace_memberships` |
| `sessions`, `invitations`, `states` | `user_sessions`, `identity_invitations`, `oidc_transactions` |
| `tx` | per transaction its request, the locks it holds and still has to take |
| `joined` | history: which invitation admitted whom |

Each request is a transaction over `RowLocks`. `Plan` gives its locks in the order of the code, `Passes` what
is decided once a checked row is locked, `Valid` what is decided under all of them, and `Commit` writes.
`Redeem` is the part that invitations bring into four different transactions. A callback first consumes its
state in a statement of its own (`ConsumeState`), then talks to the provider, looks the identity up without a
lock (`Exchange`) and only then begins its transaction. `Purge` is the deletion of expired invitations
by `CreateInvitation`, whose rows the statement locks one after the other. `Login` and `Recover` stand for
`Accounts`; here only their effect on Sessions counts.

### BackupRestore

| State | Code |
|---|---|
| `db` | per database: applied migrations, domain events, Activity rows, Sessions |
| `lock`, `runner` | the advisory lock of `Migrate`, and where each run of it is |
| `disk`, `backup` | directories with manifest and dump; the steps of `Backup` up to `os.Rename` |
| `restore` | the steps of `Restore`: inspect, require an empty target, `pg_restore`, migrate, verify, rebuild |
| `writer` | business transactions: event, projection, commit |
| `past` | history: the sets of events the source held |

A migration is its checksum and a build the sequence of those it embeds, so that builds can be older, newer
or forked. `pg_dump` is one step because it reads one snapshot, `pg_restore` because it runs with
`--single-transaction`; nothing else is. Every process may stop after each step. `contents` is the table of
contents of the archive as far as `BuildRestoreList` distinguishes its lines. The projection is rebuilt in
three steps (table lock, read, replace), between which business transactions go on.

## Runs

State counts are distinct states; no run takes more than two minutes on two cores.

| Run | Result | Checks | Shows |
|---|---|---|---|
| `hub` | 224 k states | `DrainedIsUnbroken`, `ResyncExactlyWhenLost`, `CountersExact`, `FeedSpec` | the hub on its own, every order of calls |
| `stream` | 802 k | `CursorCoversPage`, `NoLostWakeup`, `NothingUnreadableLeaves` | safety from commit to screen, with a fault, a restart, a restricted reply and a lost acknowledgement |
| `stream_live` | 47 k | `EventuallyShown`, `WithdrawalConverges`, `ShutdownDrains` | what must happen does |
| `stream_lostack` | violation | `OnlyDelayed` | finding 1 |
| `spool_bytes` | 510 k | `AckMeansRecorded`, `BudgetHolds`, `HandoffSpec` | one build, four payloads, a manual reset, two faults |
| `spool_live` | 157 k | `NoStarvation`, `PauseStopsSource`, `DeliveredIsAcknowledged`, `UnknownIsResolved` | two builds compete for a worker that is restarted; it finishes what it began |
| `commands` | 240 k | `NoLeftoverAccess`, `NoDeadlock`, `OneEffect`, `AnswerIsOwnEffect`, `RevisionsChain`, `AuthorizedCommit` | two transactions over thirteen menus of commands that meet |
| `locks_members` | violation | `NoDeadlock` | finding 2 |
| `accounts` | 185 k | `SessionsOfThisPassword`, `FailuresAreCurrent`, `RecoveriesChain`, `AnswersAreTrue`, `Lockout` | logins and recoveries that overlap |
| `identities` | 913 k | `OneOwner`, `SpentOnce`, `SessionsOfBoundIdentities`, `OnlyAdmissionInverts`, `InvitersTermHolds`, `ActsWithItsSession` | who gets in, by any path, with two transactions at a time |
| `backup` | 524 k | `TypeOK`, `RestoredIsOneMoment`, `ActivityIsProjection`, `MigrationsAreSerial`, `PublishedIsWhole`, `NothingIsOverwritten` | migrators, backups, restores and business transactions that meet |
| `backup_race` | violation | `DriftIsFoundBeforeWriting` | finding 3 |

`CHECK_DEADLOCK FALSE` is set where the bounded environment may have nothing left to do: no more
positions, Messages, requests, faults or time. `commands` has no such state, since clients may always send
again, and TLC's own deadlock check is on; waiting transactions are found by `NoDeadlock` because `Abort` is
always possible (PostgreSQL picks a victim).

**Further configurations.** Four more configurations ask questions close to those of a run:

| Configuration | Result | About |
|---|---|---|
| `MCJenkinsSpool.cfg` | `NoStarvation`, `PauseStopsSource` and `MismatchIsPermanent` hold, 3.6 M states | two builds as in `spool_live`, with an operator's resets and without fairness |
| `MCJenkinsSpool_pause.cfg` | `PauseCanBeLifted` is violated | a `source_binding_mismatch` pause stays (see *Findings*) |
| `MCChannelStream_restart.cfg` | `OnlyDelayed` is violated | a reconnect during a restart ends the stream (see *Findings*) |
| `MCWorkspaceCommands_component.cfg` | `NoDeadlock` is violated | Component before Workspace, Workspace before Component (see *Findings*) |

### Bounds, and why they are enough

- **hub.** Two Channels and two users, so that a slot or a wake-up given to the wrong one shows; two
  subscriptions against limits of 2 (process), 1 (user) and 1 (Channel), so that each limit refuses;
  `ReplayLimit` 2 with `MaxPosition` 3, the smallest window that is neither empty nor whole and is trimmed;
  two generations, so that a cursor may be foreign. Cursors of every position, future ones included.
  Subscriptions are interchangeable, and so are the two generations, of which the process takes one; both
  symmetries are used.
- **stream.** One Channel and one viewer, because the hub run covers crossing wires and handlers of
  different viewers share only the hub. Two connection identities, because an old handler may outlive the
  client's next connection. `ReplayLimit` 1, so that one Message behind is replayable and two are not;
  one readable Message and one restricted reply; one restart, the least that changes generation; one
  fault (a lost connection or a failed read).
- **stream_live** replaces the restricted reply by a second readable Message, so that windows overflow,
  and leaves faults out: the restart already breaks every connection once.
- **spool_bytes.** One build, because acks, budget and identity are per build; two payloads of the same
  meaning, one of another and one unsupported; rounds of two requests, so that a round may time out with
  requests still out; two faults, so that a recovery is itself interrupted.
- **spool_live.** Two builds that may block one another; budgets of 2 rounds with 1 request, which a build may use
  up while the other waits; a retention of 1 on a clock that ends at 1; one fault; one payload that belongs to
  another build, so that a local `source_binding_mismatch` occurs next to those the receiver answers.
  `MCJenkinsSpool.cfg` adds resets and a clock that reaches the window's end.
- **commands.** Two transactions are the least that conflict; three users so that an admin, two owners and
  an outsider of either exist; a column width (`MaxRevision`) of 3, reached by the last save and the last
  status change of their menus. Each behaviour draws one of thirteen menus; each menu holds the commands that
  meet on the same rows, with a second operation id or a second payload where a retry may conflict.

  Two things about the menus matter for reading `NoDeadlock`: the admin has the smallest user number, and
  commands that link a Component to a Ticket are not mixed with those that link it to a Repository. The
  passing run therefore says that the lock orders of the *other* pairs agree. The two pairs left out are
  `locks_members` and `MCWorkspaceCommands_component.cfg`. `Orderly` is this condition for any menu; TLC checks that
  the thirteen menus satisfy it and the two others do not (`MeetingsOrderly`), and `OrderlyMenusDoNotDeadlock` proves
  `NoDeadlock` from it for any number of transactions, where two might not be enough.
- **accounts.** One account, since no row is shared between two, which gets its address during the run; two
  passwords, limits of 2 for failures and attempts, locks of one tick and Sessions of two on a clock that
  ends at 3. Three casts: three logins around one recovery (two that lock the account, one that races), one
  login around two recoveries (which race for one credential), three logins of two clients at a guard that
  remembers one.
- **identities.** Three users, one subject, two transactions, limits of one open invitation and one state, so
  that each limit is met at once. Six mixes say which kinds of requests meet: admission by the two paths,
  with a hand-over, with logout and expiry; linking and unlinking with expiry; external login with logout and
  recovery; admission through an external login. Each starts with the bootstrap, which two may attempt.
- **backup.** One database to back up and one to restore into. Casts: three migrators of two builds that
  forked; two backups of one name, decay, and a restore, over four tables of contents; two restores and a
  migrator (of the same or a newer build) at one target; two business transactions, with or without Activity,
  around a backup and a restore; foreign relations, unsupported servers and tools. A backup that meets a
  migrator of a newer build is the run `backup_race`.

### The properties, by hazard

- *A reader falls behind.* `ResyncExactlyWhenLost` and `DrainedIsUnbroken` together say that the trimmed
  window never hands out a run with a hole and never sends a reader away needlessly.
- *Between a drain and the `select`.* `NoLostWakeup`: a handler sleeps only while the hub owes it nothing.
- *Resuming after any fault.* `CursorCoversPage`: a live cursor never runs ahead of what the page holds or
  is about to merge. It relates the browser's last id, the hub's log, the history request and the reducer.
- *Permission read early.* `NothingUnreadableLeaves`: neither on the page nor in flight is there a
  restricted reply or anything committed after access was withdrawn.
- *Crash between request and record.* `BudgetHolds` counts real requests, not recorded rounds.
- *Crash between record and ack, other senders, late requests.* `AckMeansRecorded`.
- *One build against the others.* `NoStarvation` bounds by how many rounds of others a due build is passed
  over; `PauseStopsSource` says that a pause is a property of the files and not of a process.
  `MismatchIsPermanent`, which is proved and no part of a run, says that a pause by `source_binding_mismatch` stays with its
  build, whatever an operator tries.
- *A retry, in parallel or much later.* `OneEffect`, `AnswerIsOwnEffect`.
- *Saves, status changes, acceptances and grants on one base.* `RevisionsChain`: one chain of effects per
  object, each made by a command that had seen the state just before it.
- *A member removed while he starts a Thread, joins or creates a Channel.* `NoLeftoverAccess`.
- *Roles withdrawn while a command waits.* `AuthorizedCommit`: at every success, of a first run or of a
  retry, the actor may do it at that moment. The exception the code makes on purpose is that a former owner
  may read back the transfer they made.
- *A login that straddles a recovery.* `SessionsOfThisPassword` relates each Session in force to the
  credential in force; `FailuresAreCurrent` does the same for each counted guess. The first depends on the
  recovery revoking Sessions *and* on the condition in the `UPDATE` of a login that comes later.
- *A login that straddles the lock.* `Lockout`.
- *A lost acknowledgement of a recovery.* `AnswersAreTrue`, and `RecoveriesChain` for the order of recoveries.
- *One-time secrets.* `SpentOnce`, over the four paths that redeem an invitation.
- *An inviter whose term ended.* `InvitersTermHolds` is judged at the commit of the redemption, and the term
  is that of the role revision: an owner who handed over and was made owner again is in a new one.
- *An unlink or a recovery during a request.* `SessionsOfBoundIdentities`, `ActsWithItsSession`.
- *Lock orders of identities.* `OnlyAdmissionInverts` names the one group of requests that may close a circle
  and says that nothing else does.
- *Contenders for ownership.* `OneOwner`.
- *A stop at any step of a backup or restore.* `PublishedIsWhole`, `RestoredIsOneMoment`.
- *Checks long before the write.* `NothingIsOverwritten`; it rests on `pg_restore` creating tables in one
  transaction, not on `requireEmptyTarget`.
- *A rebuild among writers.* `ActivityIsProjection`. *Migrators that meet.* `MigrationsAreSerial`.

## Fairness

Safety properties assume none. For liveness:

- `ChannelStream`: weak fairness of announcing a committed Message (a straight line of code in one
  goroutine), of each handler, of the browser page, of its probe, and of the process ending once it drains
  and no handler is left. `WF(Restart)` is an assumption about the deployment: somebody starts the process
  again. Nothing is assumed about posting, faults, signals or withdrawals. `ShutdownDrains` does not count
  on the ten-second limit of `Server.Shutdown`: closing the hub alone has to end the handlers.
- `JenkinsSpool`, `FairSpec`: weak fairness of the running worker, whose waits are a timer, a request with a
  time limit, and local files; and `WF(Start)`, which says that the operator starts a worker that ended. The
  repository installs no supervisor and leaves that to the operator (`server/jenkins-worker.md`).
- `AttendedSpec` adds strong fairness of `StartRetry` for each build: an operator who retries whatever
  `retry` accepts. It is used to show that even then one kind of pause stays (`MCJenkinsSpool_pause.cfg`).
- `WorkspaceCommands`, `Accounts`, `Identities` and `BackupRestore` claim no liveness: a request may always
  be cancelled, a process may end, and nobody promises to try again.

## Proofs

TLAPS proves the following for every value of the constants allowed by the assumptions, in particular for
any window size, any number of builds, payloads, subscriptions and faults.

| Theorem | Statement |
|---|---|
| `HubIsCorrect` | `TypeOK`, `WindowIsNewestLog`, `DrainedIsUnbroken`, `CountersExact`, `LimitsHold` always hold |
| `ResyncIsExact` | `ResyncExactlyWhenLost` always holds |
| `ShutdownEndsDelivery` | `ShutdownIsFinal` |
| `HubImplementsFeed` | `MessageHub` implements `ChannelFeed` |
| `CountersAreExact` | `CountersExact` always holds |
| `StreamInvariant`, `StreamTypes` | the inductive invariant and `TypeOK` of `ChannelStream` |
| `WakeupsAreNotLost` | `NoLostWakeup` always holds |
| `OnlyReadableLeaves` | `NothingUnreadableLeaves` always holds |
| `PageIsCovered` | `CursorCoversPage` always holds |
| `CursorAdvances` | `CursorOnlyAdvances` |
| `SpoolInvariant`, `SpoolTypesCorrect` | the inductive invariant and `TypeOK` |
| `AcksAreRight` | `AckMeansRecorded` always holds |
| `BudgetAlwaysHolds` | `BudgetHolds` always holds |
| `IdentityTheorem` | `IdentityIsPermanent` |
| `PauseTheorem` | `PauseStopsSource` |
| `OvertakingIsBounded` | `NoStarvation` always holds |
| `MismatchIsForGood` | `MismatchIsPermanent` |
| `SpoolImplementsHandoff` | `JenkinsSpool` implements `JenkinsHandoff` |
| `CommandsInvariant`, `CommandsTypeOK` | the inductive invariant and `TypeOK` of `WorkspaceCommands` |
| `CommandsTakeEffectOnce` | `OneEffect` always holds |
| `AnswersTellOwnEffect` | `AnswerIsOwnEffect` always holds |
| `CommandsLeaveNoAccessBehind` | `NoLeftoverAccess` always holds |
| `CommandsCommitAuthorized` | `AuthorizedCommit` |
| `CommandsChain` | `RevisionsChain` always holds |
| `OrderlyMenusDoNotDeadlock` | `NoDeadlock` always holds of a menu that is `Orderly` |
| `AccountInvariant`, `GuardIsExact` | the inductive invariant; `TypeOK` and `GuardHolds` |
| `ReplacedPasswordsOpenNothing` | `SessionsOfThisPassword` always holds |
| `FailuresAreOfThisPassword` | `FailuresAreCurrent` always holds |
| `ReportsAreTrue` | `AnswersAreTrue` always holds |
| `RecoveriesFormChains` | `RecoveriesChain` always holds |
| `LockoutHolds` | `Lockout` |
| `IdentitiesInvariant`, `IdentitiesTypeOK` | the inductive invariant and `TypeOK` of `Identities` |
| `IdentitiesOneOwner` | `OneOwner` always holds |
| `IdentitiesSpentOnce` | `SpentOnce` always holds |
| `SessionsStayBound` | `SessionsOfBoundIdentities` always holds |
| `TermHolds` | `InvitersTermHolds` |
| `ActsWithSession` | `ActsWithItsSession` |
| `OnlyAdmissionsInvert` | `OnlyAdmissionInverts` always holds |
| `SerialTheorem` | `MigrationsAreSerial` always holds |
| `OverwriteTheorem` | `NothingIsOverwritten` |
| `PublishedTheorem` | `PublishedIsWhole` |
| `ProjectionTheorem` | `ActivityIsProjection` always holds |
| `MomentTheorem` | `RestoredIsOneMoment` always holds |
| `LifeTypeOK` | `TypeOK` of `BackupRestore` always holds, the order of every restore list included |

`WindowIsNewestLog`, `LimitsHold`, `ShutdownIsFinal`, `CursorOnlyAdvances`, `IdentityIsPermanent`, `MismatchIsPermanent`, `GuardHolds`, the
`TypeOK` of every module but `BackupRestore`, and the inductive invariants are proved and not part of a run.

**Assumptions.** `LimitsAssumption` is what `NewHub` enforces of its configuration; `UniverseAssumption`
says that subscriptions are finitely many and that there is a Channel and a user. `SpoolAssumption` types
the constants and asks for positive budgets and delays; `NoneAssumption` says that a missing file differs
from anything a file may hold. `AccountsAssumption` asks for positive limits, and for finitely many logins
and clients, because the guard counts both: any number of them, but a number. `StreamAssumption` repeats the limits of
`NewHub`, asks for finitely many connections and Messages, and sets the missing cursor and the missing
connection apart. `CommandsAssumption` says that each command in a menu has the fields and the kind of target its
handler decodes (`WellFormed`), that the members named for a new Channel are sorted, all different and include the
actor, as `Configure` makes sure of, and that users are numbered, because locks are taken in the order of their
ids; `IdentitiesAssumption` says the same of users and asks for positive limits. Neither limits the number of
users, transactions or commands; `OrderlyMenusDoNotDeadlock` alone asks that the users be finitely many (numbered up
to some `N`), because it looks for a number above those of all members. `BackupRestoreAssumption` types what a cast may choose and says that a build embeds a sequence of
migrations and that no temporary directory has a published name; the `NoneAssumption` of that module sets
a missing thing apart. TLC evaluates all of them in the runs.

**The hub.** `HubInv` is the conjunction of the hub's invariants; none is inductive alone. `DrainedIsUnbroken`
survives a `Drain` only because the window is the newest end of the log (`WindowIsNewestLog`): the records
above the subscriber's position are then exactly the missing run (`WindowServesTheRest`,
`DrainReturnsTheRest`), and two adjacent runs join (`RunsJoin`). That counters stay natural numbers after
`Close` needs `CountersExact`: an open subscription is counted, so there is a slot to give back
(`CloseHasSlots`). `ResyncIsExact` follows from `HubInv` without induction.

**The stream.** Every step of `ChannelStream` is, for the hub, a step of `MessageHub`, no step, or the end of the
process, which is an initial state of the next generation (`HubStep`); so `HubInv` holds here as well, and what
`Drain` returns is known (`HubDrains`, from `WindowHoldsTheRest`). `StreamInv` adds what holds along one
connection. `ConnectionOf(s)`: subscription, handler and connection live and die together, and the page has at
most one. `OrderOf(s)`: positions grow strictly from the cursor of the page over the frames on their way to the
records the handler still holds, and none is beyond the subscription. `CoverOf(s)`: while the page's history is
settled, page and frames cover the log up to each frame, page, frames and records up to each record and up to the
subscription. `CursorCoversPage` is the case of no frame and is not inductive alone: when the page takes a
frame its cursor jumps, and only the cover of that frame says that nothing was jumped over. That a reply may be
skipped is part of the cover (`OnPage`). After the end of the process nothing has to be shown: `CursorOK` says that
no cursor is of a later generation, so none is of the new one (`StopStep`). `WakeOf(s)` is `NoLostWakeup` for a
handler from the end of its drain on, not only in its `select`: a token that arrives while events are loaded has
to survive until then. `SafeOf(s)` carries *committed, not sealed, not hidden* from the load over the frames to
the page; a commit can seal only what it commits, so no older check is invalidated. `CursorAdvances` needs
`OrderOf` again: the first frame is either the page's own cursor (`ready`) or beyond it.

**The worker.** `SpoolInv` has three parts. `SpoolTypes` are the types. `BuildOK(n)` relates the files of a
build: a finished record has the receiver's receipt of its meaning, an ack stands beside a finished record
of the same bytes, a collector's proof beside an ack, and the requests made are paid for,
`spent[n] <= PaidFor(record[n])`. `ProcessOK` says what the program counter implies; its heart is

    spent[item] + (Attempts - attempt) <= Attempts * record[item].rounds

while a round is under way: the requests the round may still make are reserved on disk before the first
leaves. This is why a crash cannot evade the budget: it forgets `attempt`, but the round stays counted, and
the next one pays for itself. `BudgetHolds` alone is not inductive, since nothing in it forbids a process
about to send with all its rounds spent. Likewise `AckMeansRecorded` is inductive only with
*finished implies receipt*, which in turn needs that `settle` with `recorded` was answered after the
receiver recorded this meaning. That no build is blocked for a pausing reason during a round is part of
`ProcessOK` and gives `PauseStopsSource`.

`NoStarvation` bounds `waited[n]`, which any other build may raise. What limits it is not a variable of the model: the
turns the others may still have before `n`. A turn is a build and a number of manual resets, and it is left
(`TurnLeft`) while the build may still be picked before `n` with that number. `Overtaken(n)` says that what `n` has
waited and the turns that are left are together no more than all turns and the faults so far. A round given to another
build uses up its turn, since its next attempt is then later than that of `n`; a round cut short by a crash gives the
turn back and is paid for by the fault. The first version of the property was false, which the attempt at this
proof brought to light and TLC confirmed with three builds: a build whose own budget ran out and which was then
reset kept what it had waited before. It starts again behind the others, so `waited` does, too. `MismatchIsForGood` needs that
the retry under way is of a build it may reset (`RetryOK`), since `Retry` imports first and writes later.

**The accounts.** `AccountInv` adds to the types what the stage of a login (`LoginOK`) or of a recovery
(`RunOK`) says of what it knows: which fields are set, that a login on its way to count a failure was
wrong about the credential it read, that its time is not in the future, that only a login past
`CreateSession` has a Session. `FourWriters` then reduces every other proof to four steps: a failure that
counts, a login that is admitted, a recovery that commits, a mapping. `SessionsOfThisPassword` is inductive
on top of that; the comparison of hashes under the lock covers the admission, `RevokeAll` the recovery.
`FailuresAreCurrent` also needs that the guesses counted are those of answered logins (`BlamedOK`): else
the guess about to be counted might be in the set already and the count run ahead of it. `RecordOK` (record
and runs agree) gives `AnswersAreTrue`; its last part, that a hash made by a run is in force only after that
run committed, tells a recovery from any other step and so gives the second half of `Lockout`. For
`RecoveriesChain` the invariant names the end of each chain (`ChainEnd`): the `password_changed_at` of the
credential in force.

**The commands.** `CommandsInv` carries three arguments. *Claims*: of the transactions that run one command only
one has claimed its receipt, and a claimed receipt is not there yet (`ClaimsOK`), so a receipt stands for one
journal entry and leads to it (`ReceiptsOK`); this gives `OneEffect`, and with the facts about what a replay
compares `AnswerIsOwnEffect`. *Locks*: no two transactions hold conflicting ones (`LocksOK`). A transaction
that has passed its permission check holds locks on all the rows the check looked at (`Guards`, `PermissionOK`),
and one that writes such a row holds it for update (`EarlyRows`, `LateRows`, `WritesOK`); so what was decided still
holds at the commit, which is `AuthorizedCommit`. The owner transfer is the exception, as it decides after its last
lock. `NoLeftoverAccess` follows in the same way: who joins a Channel or Thread holds the Project that a removal needs
for update. *Versions*: what a command says it has seen is compared with the row at the commit, and the last link of
each chain is the row (`TicketChain`, `DocumentChain`, `GrantChain`, `DecisionChain`). `Moves` lists what a step can do
to its transaction; each part of the invariant is then kept by a lemma over these few forms instead of the
kinds of commands.

A fourth argument, *orders*, is about waiting (`OrderlyMenusDoNotDeadlock`). Most rows never make anybody wait: nobody
locks them for update, or only whoever holds the Project does. The others are `Contested`, and `Rank` orders them:
memberships that are locked before the Project, the Project, the memberships after it, the objects, and last the
Workspace, which is also where one waits for another's claim. Every plan climbs (`BeforePlanned`, `AfterPlanned`), so
every transaction does (`RanksOK`): its next lock never blocks, or lies above all it holds. So whoever waits waits for
one that needs a higher rank (`NeedsRise`), and in a finite set somebody needs most (`NoCircle`). The ranks exist
only if the menu is `Orderly`. There must be a place for the Workspace before or after the Component, and a
number between the memberships locked before the Project and those locked after it. The first fails in
`MCWorkspaceCommands_component.cfg`, the second in `locks_members` and in the ring of three below. The second
matters only while the Workspace can be handed over and members change: otherwise memberships, or the
Project, are never locked for update.

**The identities.** A request decides on rows it has locked and acts later. `DecisionsOK` says that what it
decided still holds: the inviter's term, the binding that a callback found, the Session it was sent with, the
empty instance. It is inductive because everything that could undo a decision needs a lock that conflicts with
one held (`LocksOK`), because the locks a request decides on are taken or still to come (`ChecksOK`), and because
what an invitation purges besides is no decision (`PurgesOK`). The properties are then read off at the commit. `SpentOnce`
needs a count: external logins and callbacks under way are no more than the states taken (`StatesOK`). The purge
of expired invitations locks them in ascending order; that such an order exists for any finite set of numbers
is `Ascending`, from `Least`.

`OnlyAdmissionInverts` cannot be shown by ranks, since redemptions take rows in every order. `CoursesOK` says
that each transaction follows its plan, and `PlanOrder` what comes where in a plan, so that a transaction that waits is
known by what it holds already (`Waiting`). Take a smallest circle: everybody in it waits and is waited for
(`WaitedFor`). Whoever waits for an account for update holds nothing yet, and whoever holds the OIDC states waits for
nothing more, so neither row is waited for in it. Suppose somebody in it neither redeems nor purges. An `invite` could only wait for a hand-over that has
shared the account it holds itself, so it is a hand-over; a hand-over in the circle lacks its second membership only,
which another hand-over holds as its first. Hand-overs take both in id order, so the higher membership grows along them,
and those above the first one are a smaller circle: a contradiction (`NoPlainCircle`).

**The databases.** `LifeInv` has one part per kind of process. `RunnerOK`: a run of `Migrate` that has read
the history holds the lock, the history is a prefix of its build, and what it has still to apply is exactly
the rest; so the next sequence number is free (`NextMigration`) and nobody collides. `BackupOK`: what the
temporary directory holds at each step; so only a whole directory is renamed. `RestoreOK`: what a restore
will write is still a dump with a history (`Readable`), which makes `pg_restore` give its target the history
of a build, and a target that was written keeps it. One lemma, `StepKept`, goes through all steps and gives
three theorems. For the projection, `ActivityInv` adds the two facts that make a rebuild miss nothing: while
it holds the table nobody is between the insert of a row and its commit (`TableOK`), so that what it has
read stays the projection of the events until it commits (`ReadOK`). A Message may commit meanwhile, as
it has no row. `MomentInv` follows a moment of the source from the snapshot to the target: what a dump holds when it
is taken is a moment in `past` (`DumpedOK`), so the digest in a manifest is that of one (`DirectoryOK`), so a dump
whose digest was compared is one (`ReadingOK`), and so is what `pg_restore` leaves in the target but for what was
committed there since (`TargetOK`). The list of a restore is compared index by index with the archive's.

**Refinement.** Steps that only rewrite what a record remembers of its attempts are stutters
(`StepKinds`, `RewriteFacts`); imports, arrivals, acks, hand-offs and cleanups each map to the
`JenkinsHandoff` action of that name.

**Only model-checked.** All liveness properties (`EventuallyShown`, `WithdrawalConverges`, `ShutdownDrains`,
`DeliveredIsAcknowledged`, `UnknownIsResolved`): the prover handles neither fairness nor `ENABLED`. Every safety and action
property of a passing run is proved, `NoDeadlock` for the menus that are `Orderly`. No recursive definition is
used, so nothing had to be left to TLC for want of induction over data.

## Findings

1. **A lost commit acknowledgement is never made good** (`stream_lostack`). The hub is notified only when
   the store returned `Created = true` (`goldenpath/messaging.go:185`). If the commit succeeds and its
   acknowledgement is lost, the author's retry finds the Message, returns `Created = false` and does not
   notify. A page in state `ready` has no other reason to read history.
   `docs/adr/0020-session-scoped-single-process-message-realtime.md:55` says lost notifications only delay.
2. **Membership locks in the order actor, target** (`locks_members`). `project.member.set` locks its
   actor's membership, the Project and the target's membership (`configuration.go:26`, `:319`);
   `channel.member.add` and `channel.create` do the same. The owner transfer locks both in id order. With an
   admin whose id is the larger, the two wait for each other. ADR-0026:62 asks for id order, ADR-0042:195 for
   no lock cycle between the two.
3. **A backup may be taken across a migration** (`backup_race`). `Backup` compares the migrations of the
   source with its build (`backuprestore.go:188`) and writes them into the manifest; the dump is taken later
   (`:243`) and nothing holds the migration lock meanwhile. When a newer build migrates in between, the backup
   is published with a manifest older than its dump. A restore by the older build writes the target before it
   finds the drift; one by the newer build refuses the manifest. ADR-0010:37 says drift fails before the
   target is written.

Three more came up in configurations that are not runs, or repeat the cause of one:

- **A reconnect during a restart ends the stream for good** (`MCChannelStream_restart.cfg`). An HTTP error
  fails an `EventSource`; `onerror` reports it and nothing opens another (`realtime.ts:119`). The page stays
  `ready`. The same sentence of ADR-0020 says restarts only delay.
- **A `source_binding_mismatch` pause cannot be lifted** (`MCJenkinsSpool_pause.cfg`). `Retry` refuses the
  record (`spool_worker.go:243`), whether the mismatch was local or the receiver's 403, and `tick` stops for
  the whole source while it exists. `docs/adr/0035-durable-jenkins-terminal-delivery.md:71` groups it with 401
  and trust errors, to be resumed explicitly after repair; `server/jenkins-worker.md:82` says otherwise.
- **Component before Workspace, Workspace before Component** (`MCWorkspaceCommands_component.cfg`).
  `ticket.component.link` locks the Component and later, through the foreign key of its receipt, the
  Workspace row (`ticket_component.go:79`); `component.repository.link` locks the Workspace first
  (`repository_configuration.go:41`, `:54`). ADR-0033:114 fixes Workspace before Component, ADR-0034:55 asks
  for the orders to be compared.

Where transactions wait for one another PostgreSQL aborts one of them; the client sees an error and may
retry, so the data stays right, as `OneEffect` and the other invariants show with `Abort`.

Further circles that no run contains:

- Three transactions: `decision.propose` locks the Project before its actor's membership,
  `project.member.set` a membership before the Project, and the owner transfer two memberships. A proposal by
  user 1 (holding the Project), a transfer from 1 to 2 (holding membership 1) and `project.member.set` by user
  2 (holding membership 2) wait in a circle. A menu with these three is not `Orderly`: membership 2 is locked before
  the Project and membership 1 after it. `OrderlyMenusDoNotDeadlock` shows that, whatever the number of transactions, a
  circle of the commands modelled needs a menu with this inversion or with that of Component and Workspace.
- `environment.create` locks the Workspace and inserts below it (`configuration.go:130`), the authorization
  commands lock the Environment and then, by foreign key, the Workspace.
- Admission: a redemption locks the invitation and then its inviter's account
  (`authn/postgres/identity.go:149`), while the inviter's own requests lock the account first.
  `OnlyAdmissionsInvert` proves that a smallest circle in `Identities` has nothing but such redemptions in it, and new
  invitations that purge expired ones.

## What is abstracted and what is not modelled

**ChannelStream.** Message history is read whole: paging, Threads and posting from the page are the subject
of the planned `ChannelPage`. Permission is one bit that is not given back. Frames are records, not text.

**JenkinsSpool.** A payload, its bytes and their digest are one value; `Meaning` is the canonical digest
`Source.Map` computes, which is what the receiver compares. Local file work takes no time. Left out: the
limits on files and bytes in a spool, damaged or foreign files (the worker stops before doing anything), a
clock set back, the cap of 100 imports per tick, and `Status`, which changes nothing. The Jenkins side of
the collector is only its visible acts on inputs, acks and checkpoint.

**WorkspaceCommands.** Left out: rows that no command here locks `FOR UPDATE` (accounts, Teams, Channels,
Threads, Messages, Sessions, CI runs), which never make anybody wait; archived objects and suspended members;
evidence visibility; runs that did not succeed; the Session and recent-authentication checks of the owner
transfer, which `Identities` has and whose refusals are subsumed by `Abort` here. The transfer's check that
the actor is owner is decided after the Workspace lock, as in the code's second read. Every Channel and
Thread is restricted, the case in which a leftover membership matters. Texts and titles are payload values,
and a request's digest is its payload and base; a retried Message is compared by its body alone, as the code
does, not by its Thread. The commands that create Teams, Projects, Components, Environments and Repositories
are left out: each is a receipt and an insert under an owner's locks.

**Accounts.** Left out: disabled accounts and credentials (nothing in the program disables one), the spelling
of names, addresses and passwords, the dummy hash for unknown accounts, the difference between the clocks of
server and database. Logging out locks no account.

**Identities.** Left out: inactive accounts and suspended members, the Workspace row that every transaction
locks last, the protocol with the provider (a subject comes back, or nothing does). Lifetimes are not
measured: what can expire may expire at any time and is judged when it is read. A password under lockout
counts as none in `unlink`; here every password counts.

**BackupRestore.** Left out: file names and connection settings, large objects and extensions (which count as
foreign relations), the removal of temporary files after an error (a crash leaves them too). A file may decay,
but not while a restore reads it; equal digests mean equal contents.

**Not modelled at all:** the components marked **-** in the inventory. Discovery, Markdown, the proxy checks
and the web shell are stateless or pure rendering and gain nothing from a state machine. Of the parts marked
**P**, the largest that is left out is on the client side: the Channel page that posts, the Document editor
and the transfer panel each keep drafts and unconfirmed commits of their own. The sweep of the Jenkins
collector, with its checkpoint and the pruning of builds, is the largest on the server side.

## Plan

Done:

1. `MessageHub` with `ChannelFeed`, proofs.
2. `ChannelStream`.
3. `JenkinsSpool` with `JenkinsHandoff`, proofs.
4. `RowLocks`, `WorkspaceCommands`: collaboration, Documents, links, members and Channels, Messages and
   Threads, deployments and their authorizations, hand-over.
5. `Accounts` and `BackupRestore` with proofs, `Identities`.
   Proofs about `WorkspaceCommands`, `Identities` and `ChannelStream`.
6. Proofs of the three properties about waiting: `NoStarvation`, `NoDeadlock`, `OnlyAdmissionInverts`.

Left, most important first:

7. `JenkinsCollector`: sweep, checkpoint, callbacks, pruned builds; a composition with `JenkinsSpool` in
   place of `Publish`, `HandOff`, `Retire` and `RemoveInput`, and checkout bindings in the receiver.
8. `ChannelPage`: posting, drafts, lost answers, older pages, Threads; composed with the reducer states of
   `ChannelStream`. The Document editor and the owner transfer panel are modelled the same way.
9. The commands that create Teams, Projects, Components, Environments and Repositories.

Abstract specifications to state: one atomic command per request, implemented by `WorkspaceCommands`; an
exactly-once collector, implemented by collector and worker together.

## Running the checks

    tlc -workers 2 -config MCMessageHub.cfg MCMessageHub.tla
    tlapm MessageHub_proofs.tla

Each run in `PROJECT.json` names its module and configuration; `MCIdentities.cfg` (the run `identities`) is the
longest with about 60 seconds. From nothing, the proof modules take up to fifteen minutes each.
