--------------------------- MODULE BackupRestore ---------------------------
(***************************************************************************)
(* The life of a database: migrations, backups, restores into an empty     *)
(* database and the Activity projection, which is derived from the domain  *)
(* events (server/db migrations.go, server/internal/backuprestore,         *)
(* goldenpath/postgres activity.go, cmd/nexus-migrate, cmd/nexus-backup,   *)
(* cmd/nexus-restore).                                                     *)
(*                                                                         *)
(* Several builds of the program may run against one database. A process   *)
(* works through its statements one by one and may stop after each, by an  *)
(* error of the database, of a tool or of the file system, or by a crash;  *)
(* in between, others run. The two tools are external: pg_dump reads one   *)
(* snapshot, pg_restore commits one transaction or none.                   *)
(*                                                                         *)
(* Left out: the spelling of files and of connection settings, large       *)
(* objects and extensions, which count as relations no build knows, and    *)
(* the deferred removal of temporary files after a failure, which a crash  *)
(* leaves out as well. A file may decay, but not while a restore reads it. *)
(***************************************************************************)
EXTENDS Naturals, Sequences, SequencesExt, FiniteSets

CONSTANTS Builds,     \* what a build embeds: the checksums of its migrations
          Databases, Source,
          Migrators,  \* runs of nexus-migrate
          Backups,    \* runs of nexus-backup, all of Source
          Restores,   \* runs of nexus-restore
          Paths,      \* output directories
          Facts,      \* domain events, each of one business transaction
          Casts,      \* who takes part
          Damage,     \* what a decayed dump holds
          None

Runners == Migrators \cup Restores
Processes == Runners \cup Backups
Checksums == UNION {Range(b) : b \in Builds}
Histories == UNION {Prefixes(b) : b \in Builds}

\* Lines of an archive's table of contents. The rows of most tables are checked
\* against those of entity_types, the registry.
Lines == {"schema", "registry", "rows", "activity", "index"}
TableData == {"registry", "rows", "activity"}

ASSUME BackupRestoreAssumption ==
    /\ Source \in Databases
    /\ Builds \subseteq Seq(Checksums) /\ \A b \in Builds : b # <<>>
    /\ Paths \cap Backups = {}
    /\ None \notin Builds \cup Databases \cup Processes \cup Paths \cup Facts
    /\ Damage \notin Facts
    /\ Casts \subseteq [processes : SUBSET Processes, build : [Processes -> Builds],
                        facts : SUBSET Facts, messages : SUBSET Facts,
                        supported : SUBSET (Processes \cup Databases),
                        foreign : SUBSET Databases,
                        history : [Databases -> Histories \cup {None}], contents : Seq(Lines),
                        events : SUBSET {"decay", "session"}]

VARIABLES cast,    \* who takes part, with which build, in which surroundings; chosen once
          db,      \* the databases
          lock,    \* who holds the advisory lock of the migrations
          runner,  \* what each run of Migrate knows
          disk,    \* backup directories; a Backup stands for its temporary one
          backup,  \* what each run of nexus-backup knows
          restore, \* what each run of nexus-restore knows
          writer,  \* the business transaction of each event
          past     \* history: the events Source held, over time

vars == <<cast, db, lock, runner, disk, backup, restore, writer, past>>

\* A database without the table of migrations is empty but for foreign relations.
Rows(history, facts) ==
    [history |-> history, facts |-> facts, activity |-> {}, sessions |-> {}]

Snapshots == [history : Histories, facts : SUBSET (Facts \cup {Damage}), activity : {{}},
              sessions : {{}}]
Manifests == [migrations : Histories, digest : Snapshots]
Directories == [manifest : Manifests \cup {None}, dump : Snapshots \cup {None}]

\* A missing thing is none of those that may be there.
ASSUME NoneAssumption ==
    None \notin Histories /\ None \notin Snapshots /\ None \notin Manifests /\ None \notin Directories

NoDirectory == [manifest |-> None, dump |-> None]
Free(path) == disk[path] = None

\* Equal digests mean equal contents.
Digest(dump) == dump
Manifest(history, dump) == [migrations |-> history, digest |-> Digest(dump)]

Supported(S) == S \subseteq cast.supported
Current(p, d) == db[d].history = cast.build[p]
Schema(d) == db[d].history \notin {None, <<>>}

-----------------------------------------------------------------------------
(* The restore list: the registry's rows come before those of all others. *)

Position(line, contents) == SelectInSeq(contents, LAMBDA l : l = line)
FirstTableData(contents) == SelectInSeq(contents, LAMBDA l : l \in TableData)

Restorable(contents) ==
    /\ "activity" \notin Range(contents)
    /\ Cardinality({i \in DOMAIN contents : contents[i] = "registry"}) = 1

\* The line is put back after the first table data.
BugBuildRestoreList(contents) ==
    InsertAt(RemoveAt(contents, Position("registry", contents)),
             FirstTableData(contents) + 1, "registry")

BuildRestoreList(contents) ==
    InsertAt(RemoveAt(contents, Position("registry", contents)),
             FirstTableData(contents), "registry")

RegistryFirst(contents) == Position("registry", contents) = FirstTableData(contents)

-----------------------------------------------------------------------------
Init ==
    /\ cast \in Casts
    /\ db = [d \in Databases |-> Rows(cast.history[d], {})]
    /\ lock = [d \in Databases |-> None]
    /\ runner = [p \in Runners |-> [at |-> "idle", on |-> None, pending |-> <<>>]]
    /\ disk = [x \in Paths \cup Backups |-> None]
    /\ backup = [b \in Backups |-> [at |-> "idle", path |-> None, history |-> None]]
    /\ restore = [r \in Restores |-> [at |-> "idle", from |-> None, on |-> None, list |-> None,
                                      wrote |-> FALSE, events |-> {}]]
    /\ writer = [f \in Facts |-> [at |-> "idle", on |-> None]]
    /\ past = {{}}

Moved(process, p, at) == [process EXCEPT ![p].at = at]

(* Business transactions: the event, its projection, the commit. Events of Messages *)
(* and Threads have no Activity.                                                    *)

Projected(events) == events \ cast.messages

Ready(f) == IF f \in cast.messages THEN "wrote" ELSE "projected"

Write(f, d) ==
    /\ f \in cast.facts
    /\ writer[f].at = "idle"
    /\ Schema(d)
    /\ writer' = [writer EXCEPT ![f] = [at |-> "wrote", on |-> d]]
    /\ UNCHANGED <<cast, db, lock, runner, disk, backup, restore, past>>

Rebuilding(d) == \E r \in Restores : restore[r].at \in {"locked", "read"} /\ restore[r].on = d
Projecting(d) == \E f \in Facts : writer[f].at = "projected" /\ writer[f].on = d

\* An insert waits for the table lock of a rebuild.
ProjectActivityDelivery(f) ==
    /\ f \notin cast.messages
    /\ writer[f].at = "wrote"
    /\ ~Rebuilding(writer[f].on)
    /\ writer' = Moved(writer, f, "projected")
    /\ UNCHANGED <<cast, db, lock, runner, disk, backup, restore, past>>

Commit(f) ==
    LET d == writer[f].on IN
    /\ writer[f].at = Ready(f)
    /\ writer' = Moved(writer, f, "committed")
    /\ db' = [db EXCEPT ![d].facts = @ \cup {f}, ![d].activity = @ \cup Projected({f})]
    /\ past' = past \cup {db'[Source].facts}
    /\ UNCHANGED <<cast, lock, runner, disk, backup, restore>>

Rollback(f) ==
    /\ writer[f].at \in {"wrote", "projected"}
    /\ writer' = Moved(writer, f, "rolled back")
    /\ UNCHANGED <<cast, db, lock, runner, disk, backup, restore, past>>

\* A login, an invitation or the start of an OIDC login.
OpenSession(d) ==
    /\ "session" \in cast.events
    /\ Schema(d)
    /\ db' = [db EXCEPT ![d].sessions = {d}]
    /\ db' # db
    /\ UNCHANGED <<cast, lock, runner, disk, backup, restore, writer, past>>

(* Migrate, run by nexus-migrate and at the end of a restore *)

MayMigrate(p, d) ==
    \/ p \in Migrators /\ runner[p].at = "idle"
    \/ /\ p \in Restores
       /\ runner[p].at = "idle"
       /\ restore[p].at = "written"
       /\ restore[p].on = d

\* The runner does not wait for the others.
BugLockFree(d) == TRUE

LockFree(d) == lock[d] = None

Acquire(p, d) ==
    /\ p \in cast.processes
    /\ MayMigrate(p, d)
    /\ LockFree(d)
    /\ lock' = [lock EXCEPT ![d] = p]
    /\ runner' = [runner EXCEPT ![p].at = "holds", ![p].on = d]
    /\ UNCHANGED <<cast, db, disk, backup, restore, writer, past>>

Unlocked(p) == [d \in Databases |-> IF lock[d] = p THEN None ELSE lock[d]]

\* validateAppliedHistory
Agrees(applied, expected) == IsPrefix(applied, expected)

\* CREATE TABLE IF NOT EXISTS, then the applied history is read and judged.
Load(p) ==
    LET d == runner[p].on
        applied == IF db[d].history = None THEN <<>> ELSE db[d].history
        build == cast.build[p]
        pending == SubSeq(build, Len(applied) + 1, Len(build))
    IN
    /\ runner[p].at = "holds"
    /\ db' = [db EXCEPT ![d].history = applied]
    /\ IF Agrees(applied, build)
       THEN /\ runner' = [runner EXCEPT ![p].at = "applying", ![p].pending = pending]
            /\ lock' = lock
       ELSE /\ runner' = Moved(runner, p, "drift")
            /\ lock' = Unlocked(p)
    /\ UNCHANGED <<cast, disk, backup, restore, writer, past>>

\* One transaction: the forward SQL and its record, whose sequence number is the key.
ApplyMigration(p) ==
    LET d == runner[p].on
        pending == runner[p].pending
        sequence == Len(cast.build[p]) - Len(pending) + 1
    IN
    /\ runner[p].at = "applying"
    /\ pending # <<>>
    /\ IF sequence \in DOMAIN db[d].history
       THEN /\ runner' = Moved(runner, p, "collided")
            /\ lock' = Unlocked(p)
            /\ db' = db
       ELSE /\ db' = [db EXCEPT ![d].history = Append(@, Head(pending))]
            /\ runner' = [runner EXCEPT ![p].pending = Tail(pending)]
            /\ lock' = lock
    /\ UNCHANGED <<cast, disk, backup, restore, writer, past>>

FinishMigrate(p) ==
    /\ runner[p].at = "applying"
    /\ runner[p].pending = <<>>
    /\ runner' = Moved(runner, p, "done")
    /\ lock' = Unlocked(p)
    /\ UNCHANGED <<cast, db, disk, backup, restore, writer, past>>

\* An error or a crash; the advisory lock goes with the connection.
StopMigrate(p) ==
    /\ runner[p].at \in {"holds", "applying"}
    /\ runner' = Moved(runner, p, "stopped")
    /\ lock' = Unlocked(p)
    /\ UNCHANGED <<cast, db, disk, backup, restore, writer, past>>

(* nexus-backup *)

\* The checks of Backup, then the temporary directory.
StartBackup(b, path) ==
    /\ b \in cast.processes
    /\ backup[b].at = "idle"
    /\ Free(path)
    /\ Supported({Source, b})
    /\ Current(b, Source)
    /\ Source \notin cast.foreign
    /\ backup' = [backup EXCEPT ![b] = [at |-> "started", path |-> path,
                                        history |-> db[Source].history]]
    /\ disk' = [disk EXCEPT ![b] = NoDirectory]
    /\ UNCHANGED <<cast, db, lock, runner, restore, writer, past>>

Dumped(d) == [history |-> d.history, facts |-> d.facts, activity |-> {}, sessions |-> {}]

\* pg_dump: one snapshot, without the rows of the excluded tables.
Dump(b) ==
    /\ backup[b].at = "started"
    /\ disk' = [disk EXCEPT ![b].dump = Dumped(db[Source])]
    /\ backup' = Moved(backup, b, "dumped")
    /\ UNCHANGED <<cast, db, lock, runner, restore, writer, past>>

\* The manifest names the history read at the start.
WriteManifest(b) ==
    /\ backup[b].at = "dumped"
    /\ disk' = [disk EXCEPT ![b].manifest = Manifest(backup[b].history, disk[b].dump)]
    /\ backup' = Moved(backup, b, "described")
    /\ UNCHANGED <<cast, db, lock, runner, restore, writer, past>>

\* The directory is published when the dump is there.
BugMayRename(b) == backup[b].at \in {"dumped", "described"} /\ Free(backup[b].path)

\* Rename fails on a directory that is not empty.
MayRename(b) == backup[b].at = "described" /\ Free(backup[b].path)

Publish(b) ==
    /\ MayRename(b)
    /\ disk' = [disk EXCEPT ![backup[b].path] = disk[b], ![b] = None]
    /\ backup' = Moved(backup, b, "published")
    /\ UNCHANGED <<cast, db, lock, runner, restore, writer, past>>

\* An error removes the temporary directory, a crash leaves it.
StopBackup(b) ==
    /\ backup[b].at \in {"started", "dumped", "described"}
    /\ backup' = Moved(backup, b, "stopped")
    /\ \/ disk' = [disk EXCEPT ![b] = None]
       \/ disk' = disk
    /\ UNCHANGED <<cast, db, lock, runner, restore, writer, past>>

Reads(r, path) == restore[r].from = path /\ restore[r].at \in {"inspected", "cleared"}

Decay(path) ==
    /\ "decay" \in cast.events
    /\ disk[path] # None
    /\ disk[path].dump # None
    /\ \A r \in Restores : ~Reads(r, path)
    /\ disk' = [disk EXCEPT ![path].dump.facts = {Damage}]
    /\ disk' # disk
    /\ UNCHANGED <<cast, db, lock, runner, backup, restore, writer, past>>

(* nexus-restore *)

\* The digest of the dump is not compared.
BugMatches(r, directory) ==
    /\ directory.manifest # None
    /\ directory.manifest.migrations = cast.build[r]

Matches(r, directory) ==
    /\ directory.manifest # None
    /\ directory.manifest.migrations = cast.build[r]
    /\ Digest(directory.dump) = directory.manifest.digest

Outcome(r, at) ==
    /\ restore' = Moved(restore, r, at)
    /\ UNCHANGED <<cast, db, lock, runner, disk, backup, writer, past>>

\* The input directory, its manifest and digest, the tool and the list of contents.
Inspect(r, path, d) ==
    LET sound == /\ Matches(r, disk[path])
                 /\ Supported({r})
                 /\ Restorable(cast.contents)
    IN
    /\ r \in cast.processes
    /\ restore[r].at = "idle"
    /\ ~Free(path)
    /\ IF sound
       THEN /\ restore' = [restore EXCEPT ![r] = [at |-> "inspected", from |-> path, on |-> d,
                                                  list |-> BuildRestoreList(cast.contents),
                                                  wrote |-> FALSE, events |-> {}]]
            /\ UNCHANGED <<cast, db, lock, runner, disk, backup, writer, past>>
       ELSE Outcome(r, "refused")

Vacant(d) == db[d].history = None
Empty(d) == Vacant(d) /\ d \notin cast.foreign

RequireEmptyTarget(r) ==
    LET d == restore[r].on IN
    /\ restore[r].at = "inspected"
    /\ Outcome(r, IF Supported({d}) /\ Empty(d) THEN "cleared" ELSE "refused")

\* Tables that exist are overwritten.
BugCreatable(d) == TRUE

\* One transaction fails when another created a table of the archive meanwhile.
Creatable(d) == Vacant(d)

PgRestore(r) ==
    LET d == restore[r].on
        path == restore[r].from
    IN
    /\ restore[r].at = "cleared"
    /\ IF ~Free(path) /\ Creatable(d) /\ RegistryFirst(restore[r].list)
       THEN /\ db' = [db EXCEPT ![d] = disk[path].dump]
            /\ restore' = [restore EXCEPT ![r].at = "written", ![r].wrote = TRUE]
            /\ UNCHANGED <<cast, lock, runner, disk, backup, writer, past>>
       ELSE Outcome(r, "refused")

\* After Migrate: the history, the relations and the empty projection are checked.
Verify(r) ==
    LET d == restore[r].on IN
    /\ restore[r].at = "written"
    /\ runner[r].at \in {"done", "drift", "collided", "stopped"}
    /\ Outcome(r, IF /\ runner[r].at = "done"
                    /\ Current(r, d)
                    /\ d \notin cast.foreign
                    /\ db[d].activity = {}
                 THEN "verified"
                 ELSE "failed")

\* The rebuild takes no lock.
BugTableFree(d) == TRUE

\* RebuildActivityProjection: the table lock, the events, then the new rows.
TableFree(d) == ~Projecting(d) /\ ~Rebuilding(d)

LockActivity(r) ==
    /\ restore[r].at = "verified"
    /\ TableFree(restore[r].on)
    /\ Outcome(r, "locked")

ReadEvents(r) ==
    /\ restore[r].at = "locked"
    /\ restore' = [restore EXCEPT ![r].at = "read", ![r].events = Projected(db[restore[r].on].facts)]
    /\ UNCHANGED <<cast, db, lock, runner, disk, backup, writer, past>>

\* The old rows are deleted and one row per event is inserted.
CommitRebuild(r) ==
    /\ restore[r].at = "read"
    /\ db' = [db EXCEPT ![restore[r].on].activity = restore[r].events]
    /\ restore' = Moved(restore, r, "completed")
    /\ UNCHANGED <<cast, lock, runner, disk, backup, writer, past>>

StopRestore(r) ==
    /\ restore[r].at \in {"inspected", "cleared", "written", "verified", "locked", "read"}
    /\ restore[r].at = "written" => runner[r].at = "idle"
    /\ Outcome(r, IF restore[r].at \in {"inspected", "cleared"} THEN "refused" ELSE "failed")

Next ==
    \/ \E f \in Facts :
          \/ \E d \in Databases : Write(f, d)
          \/ ProjectActivityDelivery(f) \/ Commit(f) \/ Rollback(f)
    \/ \E d \in Databases : OpenSession(d)
    \/ \E p \in Runners :
          \/ \E d \in Databases : Acquire(p, d)
          \/ Load(p) \/ ApplyMigration(p) \/ FinishMigrate(p) \/ StopMigrate(p)
    \/ \E b \in Backups :
          \/ \E path \in Paths : StartBackup(b, path)
          \/ Dump(b) \/ WriteManifest(b) \/ Publish(b) \/ StopBackup(b)
    \/ \E path \in Paths : Decay(path)
    \/ \E r \in Restores :
          \/ \E path \in Paths \cup Backups, d \in Databases : Inspect(r, path, d)
          \/ RequireEmptyTarget(r) \/ PgRestore(r) \/ Verify(r)
          \/ LockActivity(r) \/ ReadEvents(r) \/ CommitRebuild(r) \/ StopRestore(r)

Spec == Init /\ [][Next]_vars

-----------------------------------------------------------------------------
(* Properties *)

\* What is left of a list without its line for the registry's rows.
Others(contents) == RemoveAt(contents, Position("registry", contents))

\* The variables have the values the code gives them: a dump holds no projection
\* and no Sessions, and a restore list names the registry's rows first and the
\* other lines in the order of the archive.
TypeOK ==
    /\ cast \in Casts
    /\ \A d \in Databases :
          /\ db[d].history \in Histories \cup {None}
          /\ db[d].facts \subseteq Facts \cup {Damage}
          /\ db[d].activity \subseteq db[d].facts
          /\ db[d].sessions \subseteq Databases
          /\ lock[d] \in Runners \cup {None}
    /\ \A x \in Paths \cup Backups : disk[x] \in Directories \cup {None}
    /\ \A r \in Restores : restore[r].list # None =>
          /\ RegistryFirst(restore[r].list)
          /\ Others(restore[r].list) = Others(cast.contents)

Whole(directory) ==
    /\ directory # NoDirectory
    /\ directory.manifest # None
    /\ directory.manifest.digest = Digest(directory.dump)

\* What stands under the name an operator gave to a backup is complete from the
\* first moment, also when two backups are given the same name or one crashes, and
\* is never replaced: after that it can only decay (Backup, os.Rename at the end).
PublishedIsWhole ==
    [][\A x \in Paths : disk'[x] # disk[x] =>
          IF disk[x] = None
          THEN Whole(disk'[x])
          ELSE disk'[x] # None /\ disk'[x].manifest = disk[x].manifest]_vars

Local(d) == {f \in Facts : writer[f].on = d}

\* A restore that reports success has brought back exactly what the source held
\* at one moment, besides what was committed in the target since, with the
\* migrations of its own build; no Session came along (Restore, nexus-restore).
RestoredIsOneMoment ==
    \A r \in Restores : restore[r].at = "completed" =>
        LET d == restore[r].on IN
        /\ db[d].facts \ Local(d) \in past
        /\ IsPrefix(cast.build[r], db[d].history)
        /\ db[d].sessions \subseteq {d}

\* Whatever runs against a database, at whatever time: no applied migration and
\* no fact is lost or rewritten. Emptiness is checked long before pg_restore
\* writes, so the check alone does not give this (requireEmptyTarget).
NothingIsOverwritten ==
    [][\A d \in Databases : db[d].history # None =>
          /\ IsPrefix(db[d].history, db'[d].history)
          /\ db[d].facts \subseteq db'[d].facts]_vars

\* Every event but those of Messages has its Activity row and every row its event, except
\* between the commit of a restore and that of the rebuild, also when business
\* transactions commit around the rebuild (RebuildActivityProjection).
ActivityIsProjection ==
    \A d \in Databases :
        \/ db[d].activity = db[d].facts \ cast.messages
        \/ \E r \in Restores : restore[r].wrote /\ restore[r].on = d /\ restore[r].at # "completed"

\* Runs of Migrate that meet do not get into each other's way, and what builds that
\* differ leave behind is always the history of one build (Migrate, applyMigration).
MigrationsAreSerial ==
    /\ \A p \in Runners : runner[p].at # "collided"
    /\ \A d \in Databases : db[d].history # None =>
          \E b \in Builds : IsPrefix(db[d].history, b)

\* ADR-0010: a drift of the migrations makes a restore fail before it writes to
\* the target. The run backup_race shows that this does not hold: a migration
\* between the check of the history and pg_dump goes unnoticed in the backup.
DriftIsFoundBeforeWriting ==
    \A r \in Restores : restore[r].wrote => runner[r].at # "drift"
=============================================================================
