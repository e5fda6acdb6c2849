------------------------ MODULE BackupRestore_proofs ------------------------
(***************************************************************************)
(* Proofs about BackupRestore, for any builds, databases and paths and any *)
(* number of migrators, backups, restores and business transactions.       *)
(*                                                                         *)
(* Three invariants: `LifeInv` (types, and what each process knows at each *)
(* of its steps), `ActivityInv` (the projection) and `MomentInv` (what a   *)
(* dump, a digest and a target hold is what Source held at one moment).    *)
(***************************************************************************)
EXTENDS BackupRestore, SequenceFacts, FiniteSetTheorems

\* The builds are sequences, so their prefixes are.
LEMMA HistoryFacts ==
    /\ Builds \subseteq Seq(Checksums)
    /\ Histories \subseteq Seq(Checksums)
    /\ \A h \in Histories : \E b \in Builds : IsPrefix(h, b)
    /\ \A b \in Builds : \A h \in Seq(Checksums) : IsPrefix(h, b) => h \in Histories
<1>1. Builds \subseteq Seq(Checksums)
  BY BackupRestoreAssumption
<1>2. ASSUME NEW b \in Builds, NEW l \in 0..Len(b)
      PROVE  SubSeq(b, 1, l) \in Seq(Checksums) /\ IsPrefix(SubSeq(b, 1, l), b)
  <2>1. b \in Seq(Checksums)
    BY <1>1
  <2> HIDE DEF Checksums
  <2>2. SubSeq(b, 1, l) \in Seq(Checksums) /\ Len(SubSeq(b, 1, l)) = l
    BY <2>1
  <2> QED BY <2>1, <2>2 DEF IsPrefix
<1>3. ASSUME NEW b \in Builds, NEW h \in Seq(Checksums), IsPrefix(h, b) PROVE h \in Histories
  <2>1. b \in Seq(Checksums) /\ Len(h) \in 0..Len(b) /\ h = SubSeq(b, 1, Len(h))
    BY <1>1, <1>3 DEF IsPrefix
  <2>2. h \in Prefixes(b)
    BY <2>1 DEF Prefixes
  <2> QED BY <2>2 DEF Histories
<1>4. \A h \in Histories : \E b \in Builds : \E l \in 0..Len(b) : h = SubSeq(b, 1, l)
  BY DEF Histories, Prefixes
<1>5. \A h \in Histories : h \in Seq(Checksums) /\ \E b \in Builds : IsPrefix(h, b)
  BY <1>2, <1>4
<1> QED BY <1>1, <1>3, <1>5

-----------------------------------------------------------------------------
(* Types *)

Events == Facts \cup {Damage}
Database == [history : Histories \cup {None}, facts : SUBSET Events, activity : SUBSET Events,
             sessions : SUBSET Databases]

RunnerStates == {"idle", "holds", "applying", "drift", "collided", "done", "stopped"}
BackupStates == {"idle", "started", "dumped", "described", "published", "stopped"}
RestoreStates == {"idle", "inspected", "cleared", "refused", "written", "verified", "locked", "read",
                  "completed", "failed"}
WriterStates == {"idle", "wrote", "projected", "committed", "rolled back"}

RunnerRecord == [at : RunnerStates, on : Databases \cup {None}, pending : Seq(Checksums)]
BackupRecord == [at : BackupStates, path : Paths \cup {None}, history : Histories \cup {None}]
RestoreRecord == [at : RestoreStates, from : Paths \cup Backups \cup {None}, on : Databases \cup {None},
                  list : {None} \cup {BuildRestoreList(c.contents) : c \in Casts},
                  wrote : BOOLEAN, events : SUBSET Events]
WriterRecord == [at : WriterStates, on : Databases \cup {None}]

Types ==
    /\ cast \in Casts
    /\ db \in [Databases -> Database]
    /\ lock \in [Databases -> Runners \cup {None}]
    /\ runner \in [Runners -> RunnerRecord]
    /\ disk \in [Paths \cup Backups -> Directories \cup {None}]
    /\ backup \in [Backups -> BackupRecord]
    /\ restore \in [Restores -> RestoreRecord]
    /\ writer \in [Facts -> WriterRecord]

\* A run of Migrate that has read the history holds the lock of its database, and
\* what it has still to apply is the rest of its build.
Applying(p) ==
    LET history == db[runner[p].on].history
        build == cast.build[p]
    IN  /\ history \in Histories
        /\ IsPrefix(history, build)
        /\ runner[p].pending = SubSeq(build, Len(history) + 1, Len(build))

RunnerOK(p) ==
    /\ runner[p].at \in {"holds", "applying"} => runner[p].on \in Databases /\ lock[runner[p].on] = p
    /\ runner[p].at = "applying" => Applying(p)
    /\ runner[p].at # "collided"

\* What is in the temporary directory of a backup, and that its source has a history.
BackupOK(b) ==
    /\ backup[b].at = "idle" => disk[b] = None
    /\ backup[b].at # "idle" => backup[b].path \in Paths /\ backup[b].history \in Histories
    /\ backup[b].at # "idle" => db[Source].history # None
    /\ backup[b].at = "started" => disk[b] = NoDirectory
    /\ backup[b].at = "dumped" =>
           disk[b] \in Directories /\ disk[b].manifest = None /\ disk[b].dump \in Snapshots
    /\ backup[b].at = "described" => disk[b] \in Directories /\ Whole(disk[b])

\* A directory a restore may have inspected: it holds a dump, unless it is gone by now.
Readable(x) ==
    /\ x \in Backups => backup[x].at \in {"described", "published", "stopped"}
    /\ disk[x] = None \/ disk[x].dump \in Snapshots

\* A restore that has not written reads a dump; one that has written has given its
\* target a history.
RestoreOK(r) ==
    /\ restore[r].at \notin {"idle", "refused"} => /\ restore[r].from \in Paths \cup Backups
                                                   /\ restore[r].on \in Databases
    /\ restore[r].at \in {"idle", "refused", "inspected", "cleared"} => ~restore[r].wrote
    /\ restore[r].at \in {"inspected", "cleared"} =>
           Readable(restore[r].from)
    /\ restore[r].at \in {"written", "verified", "locked", "read", "completed"} =>
           restore[r].wrote /\ db[restore[r].on].history # None

WriterOK(f) == writer[f].at # "idle" => writer[f].on \in Databases

LifeInv ==
    /\ Types
    /\ \A p \in Runners : RunnerOK(p)
    /\ \A b \in Backups : BackupOK(b)
    /\ \A r \in Restores : RestoreOK(r)
    /\ \A f \in Facts : WriterOK(f)

\* What the choice of processes and builds guarantees.
LEMMA CastFacts ==
    ASSUME Types
    PROVE  /\ \A p \in Processes : cast.build[p] \in Builds /\ cast.build[p] \in Seq(Checksums)
           /\ cast.facts \subseteq Facts
           /\ \A d \in Databases : cast.history[d] \in Histories \cup {None}
           /\ Source \in Databases
BY BackupRestoreAssumption, HistoryFacts DEF Types

\* Before anything runs, no process knows anything and no directory is there.
LEMMA LifeInit == Init => LifeInv
<1> SUFFICES ASSUME Init PROVE LifeInv
  OBVIOUS
<1>1. cast.history \in [Databases -> Histories \cup {None}] /\ cast \in Casts
  BY BackupRestoreAssumption DEF Init
<1>2. db \in [Databases -> Database]
  BY <1>1 DEF Init, Rows, Database
<1>3. runner \in [Runners -> RunnerRecord]
  <2>1. <<>> \in Seq(Checksums)
    OBVIOUS
  <2> QED BY <2>1 DEF Init, RunnerRecord, RunnerStates
<1>4. Types
  BY <1>1, <1>2, <1>3 DEF Init, Types, BackupRecord, BackupStates, RestoreRecord, RestoreStates,
     WriterRecord, WriterStates
<1>5. \A p \in Runners : RunnerOK(p)
  BY DEF Init, RunnerOK
<1>6. \A b \in Backups : BackupOK(b)
  BY DEF Init, BackupOK
<1>7. \A r \in Restores : RestoreOK(r)
  BY DEF Init, RestoreOK
<1>8. \A f \in Facts : WriterOK(f)
  BY DEF Init, WriterOK
<1> QED BY <1>4, <1>5, <1>6, <1>7, <1>8 DEF LifeInv

-----------------------------------------------------------------------------
(* What stays as it is *)

HistoriesStay == \A d \in Databases : db[d].history # None => db'[d].history # None
DumpsStay == \A x \in Paths \cup Backups : Readable(x) => Readable(x)'

\* A backup that does not move keeps what it knows, as histories do not vanish.
LEMMA BackupStays ==
    ASSUME LifeInv, HistoriesStay, NEW b \in Backups, backup'[b] = backup[b], disk'[b] = disk[b]
    PROVE  BackupOK(b)'
<1>1. BackupOK(b) /\ Source \in Databases
  BY CastFacts DEF LifeInv
<1> QED BY <1>1 DEF BackupOK, HistoriesStay

\* A restore that does not move keeps it, as the dump it may read stays one.
LEMMA RestoreStays ==
    ASSUME LifeInv, HistoriesStay, DumpsStay, NEW r \in Restores, restore'[r] = restore[r]
    PROVE  RestoreOK(r)'
<1>1. RestoreOK(r)
  BY DEF LifeInv
<1> QED BY <1>1 DEF RestoreOK, HistoriesStay, DumpsStay

\* A runner that does not move keeps it, as nobody migrates the database it has locked.
LEMMA RunnerStays ==
    ASSUME LifeInv, NEW p \in Runners, runner'[p] = runner[p], UNCHANGED cast,
           \A d \in Databases : lock[d] = p => lock'[d] = p /\ db'[d].history = db[d].history
    PROVE  RunnerOK(p)'
<1>1. RunnerOK(p)
  BY DEF LifeInv
<1> QED BY <1>1 DEF RunnerOK, Applying

\* The three together, for steps that change none of the three components.
LEMMA ProcessesStay ==
    ASSUME LifeInv, Types', UNCHANGED <<cast, lock, runner, disk, backup, restore>>,
           \A d \in Databases : db'[d].history = db[d].history,
           \A f \in Facts : WriterOK(f)'
    PROVE  LifeInv'
<1>1. HistoriesStay /\ DumpsStay
  BY DEF HistoriesStay, DumpsStay, Readable
<1>2. \A b \in Backups : BackupOK(b)'
  BY <1>1, BackupStays
<1>3. \A r \in Restores : RestoreOK(r)'
  BY <1>1, RestoreStays
<1>4. \A p \in Runners : RunnerOK(p)'
  BY RunnerStays
<1> QED BY <1>2, <1>3, <1>4 DEF LifeInv

-----------------------------------------------------------------------------
(* Business transactions *)

\* A commit adds one event and its row to one database.
LEMMA CommitFacts ==
    ASSUME LifeInv, NEW f \in Facts, Commit(f)
    PROVE  LET d == writer[f].on
           IN  /\ d \in Databases
               /\ db' \in [Databases -> Database]
               /\ \A e \in Databases \ {d} : db'[e] = db[e]
               /\ db'[d].history = db[d].history
               /\ db'[d].facts = db[d].facts \cup {f}
               /\ db'[d].activity = db[d].activity \cup Projected({f})
               /\ db'[d].sessions = db[d].sessions
<1> DEFINE d == writer[f].on
           row == [db[d] EXCEPT !.facts = @ \cup {f}, !.activity = @ \cup Projected({f})]
<1>1. d \in Databases
  BY DEF Commit, LifeInv, WriterOK, Ready
<1>2. db[d] \in Database /\ Projected({f}) \subseteq Events /\ f \in Events
  BY <1>1 DEF LifeInv, Types, Projected, Events
<1>3. db' = [db EXCEPT ![d] = row]
  BY <1>1 DEF Commit, LifeInv, Types
<1>4. /\ row \in Database /\ row.history = db[d].history /\ row.facts = db[d].facts \cup {f}
      /\ row.activity = db[d].activity \cup Projected({f}) /\ row.sessions = db[d].sessions
  BY <1>2 DEF Database
<1> HIDE DEF row
<1> QED BY <1>1, <1>3, <1>4 DEF LifeInv, Types

\* A business transaction moves on in its own database.
LEMMA WriterTypes ==
    ASSUME LifeInv, NEW f \in Facts, NEW at \in WriterStates \ {"idle"}, writer[f].at # "idle",
           writer' = Moved(writer, f, at)
    PROVE  /\ writer' \in [Facts -> WriterRecord]
           /\ \A g \in Facts : WriterOK(g)'
           /\ writer'[f].at = at /\ writer'[f].on = writer[f].on
           /\ \A g \in Facts \ {f} : writer'[g] = writer[g]
<1>1. writer[f] \in WriterRecord
  BY DEF LifeInv, Types
<1>2. writer' = [writer EXCEPT ![f] = [writer[f] EXCEPT !.at = at]]
  BY DEF Moved
<1>3. [writer[f] EXCEPT !.at = at] \in WriterRecord
  BY <1>1 DEF WriterRecord
<1>4. writer'[f].at = at /\ writer'[f].on = writer[f].on /\ \A g \in Facts \ {f} : writer'[g] = writer[g]
  BY <1>1, <1>2 DEF LifeInv, Types, WriterRecord
<1>5. \A g \in Facts : WriterOK(g)'
  BY <1>4 DEF LifeInv, WriterOK
<1> QED BY <1>2, <1>3, <1>4, <1>5 DEF LifeInv, Types

\* The steps of a business transaction.
LEMMA BusinessKept ==
    ASSUME LifeInv, NEW f \in Facts,
           (\E d \in Databases : Write(f, d)) \/ ProjectActivityDelivery(f) \/ Commit(f) \/ Rollback(f)
    PROVE  LifeInv'
<1>1. CASE \E d \in Databases : Write(f, d)
  <2>1. PICK d \in Databases : Write(f, d)
    BY <1>1
  <2>2. writer' \in [Facts -> WriterRecord] /\ \A g \in Facts : WriterOK(g)'
    BY <2>1 DEF Write, LifeInv, Types, WriterRecord, WriterStates, WriterOK
  <2>3. Types'
    BY <2>1, <2>2 DEF Write, LifeInv, Types
  <2> QED BY <2>1, <2>2, <2>3, ProcessesStay DEF Write
<1>2. CASE ProjectActivityDelivery(f) \/ Rollback(f)
  <2>1. PICK at \in {"projected", "rolled back"} : writer' = Moved(writer, f, at)
    BY <1>2 DEF ProjectActivityDelivery, Rollback
  <2>2. at \in WriterStates \ {"idle"} /\ writer[f].at # "idle"
    BY <1>2 DEF ProjectActivityDelivery, Rollback, WriterStates
  <2>3. writer' \in [Facts -> WriterRecord] /\ \A g \in Facts : WriterOK(g)'
    BY <2>1, <2>2, WriterTypes
  <2>4. UNCHANGED <<cast, db, lock, runner, disk, backup, restore>>
    BY <1>2 DEF ProjectActivityDelivery, Rollback
  <2>5. Types'
    BY <2>3, <2>4 DEF LifeInv, Types
  <2> QED BY <2>3, <2>4, <2>5, ProcessesStay
<1>3. CASE Commit(f)
  <2>1. "committed" \in WriterStates \ {"idle"} /\ writer[f].at # "idle"
        /\ writer' = Moved(writer, f, "committed")
    BY <1>3 DEF Commit, Ready, WriterStates
  <2>2. writer' \in [Facts -> WriterRecord] /\ \A g \in Facts : WriterOK(g)'
    BY <2>1, WriterTypes
  <2>3. db' \in [Databases -> Database] /\ \A d \in Databases : db'[d].history = db[d].history
    BY <1>3, CommitFacts
  <2>4. UNCHANGED <<cast, lock, runner, disk, backup, restore>>
    BY <1>3 DEF Commit
  <2>5. Types'
    BY <2>2, <2>3, <2>4 DEF LifeInv, Types
  <2> QED BY <2>2, <2>3, <2>4, <2>5, ProcessesStay
<1> QED BY <1>1, <1>2, <1>3

\* A new Session changes nothing else.
LEMMA OpenSessionKept ==
    ASSUME LifeInv, NEW d \in Databases, OpenSession(d)
    PROVE  /\ LifeInv'
           /\ \A e \in Databases : /\ db'[e].history = db[e].history /\ db'[e].facts = db[e].facts
                                   /\ db'[e].activity = db[e].activity
<1> DEFINE row == [db[d] EXCEPT !.sessions = {d}]
<1>1. db' = [db EXCEPT ![d] = row] /\ db[d] \in Database
  BY DEF OpenSession, LifeInv, Types
<1>2. row \in Database /\ row.history = db[d].history /\ row.facts = db[d].facts
      /\ row.activity = db[d].activity
  BY <1>1 DEF Database
<1> HIDE DEF row
<1>3. /\ db' \in [Databases -> Database]
      /\ \A e \in Databases : /\ db'[e].history = db[e].history /\ db'[e].facts = db[e].facts
                              /\ db'[e].activity = db[e].activity
  BY <1>1, <1>2 DEF LifeInv, Types
<1>4. UNCHANGED <<cast, lock, runner, disk, backup, restore, writer>>
  BY DEF OpenSession
<1>5. Types' /\ \A f \in Facts : WriterOK(f)'
  BY <1>3, <1>4 DEF LifeInv, Types, WriterOK
<1> QED BY <1>3, <1>4, <1>5, ProcessesStay

-----------------------------------------------------------------------------
(* Migrate *)

\* A history extends itself.
LEMMA PrefixOfItself ==
    ASSUME NEW h \in Seq(Checksums)
    PROVE  IsPrefix(h, h)
BY DEF IsPrefix

\* A history with one more migration extends the old one.
LEMMA Extends ==
    ASSUME NEW h \in Seq(Checksums), NEW c \in Checksums
    PROVE  IsPrefix(h, Append(h, c)) /\ Append(h, c) \in Seq(Checksums)
<1> HIDE DEF Checksums
<1>1. Append(h, c) \in Seq(Checksums) /\ Len(Append(h, c)) = Len(h) + 1
  OBVIOUS
<1>2. SubSeq(h, 1, Len(h)) = h /\ SubSeq(Append(h, c), 1, Len(h)) = h
  BY <1>1
<1> QED BY <1>1, <1>2 DEF IsPrefix

\* The empty history is that of every build before its first migration.
LEMMA EmptyHistory == Builds # {} => <<>> \in Histories
<1> SUFFICES ASSUME NEW b \in Builds PROVE <<>> \in Histories
  OBVIOUS
<1>1. b \in Seq(Checksums) /\ <<>> \in Seq(Checksums)
  BY HistoryFacts
<1>2. SubSeq(b, 1, 0) = <<>>
  <2> HIDE DEF Checksums
  <2> QED BY <1>1
<1>3. IsPrefix(<<>>, b)
  BY <1>1, <1>2 DEF IsPrefix
<1> QED BY <1>1, <1>3, HistoryFacts

\* The migration applied next is the one the history lacks.
LEMMA NextMigration ==
    ASSUME NEW b \in Seq(Checksums), NEW h \in Seq(Checksums), IsPrefix(h, b),
           SubSeq(b, Len(h) + 1, Len(b)) # <<>>
    PROVE  LET pending == SubSeq(b, Len(h) + 1, Len(b))
           IN  /\ Len(b) - Len(pending) + 1 \notin DOMAIN h
               /\ Head(pending) \in Checksums
               /\ IsPrefix(Append(h, Head(pending)), b)
               /\ Tail(pending) = SubSeq(b, Len(h) + 2, Len(b))
               /\ Len(Append(h, Head(pending))) = Len(h) + 1
<1> DEFINE n == Len(h)
           m == Len(b)
           pending == SubSeq(b, n + 1, m)
           next == Append(h, Head(pending))
<1> HIDE DEF Checksums
<1>1. n \in Nat /\ m \in Nat /\ n <= m /\ \A i \in 1..n : h[i] = b[i]
  BY DEF IsPrefix
<1>2. n < m
  BY <1>1
<1>3. Len(pending) = m - n /\ Head(pending) = b[n + 1] /\ pending \in Seq(Checksums)
  BY <1>1, <1>2
<1>4. b[n + 1] \in Checksums
  BY <1>1, <1>2
<1>5. Tail(pending) = SubSeq(b, n + 2, m)
  <2>1. Tail(pending) \in Seq(Checksums) /\ Len(Tail(pending)) = m - n - 1
    BY <1>1, <1>2, <1>3
  <2>2. SubSeq(b, n + 2, m) \in Seq(Checksums) /\ Len(SubSeq(b, n + 2, m)) = m - n - 1
    BY <1>1, <1>2
  <2>3. \A i \in 1..(m - n - 1) : Tail(pending)[i] = SubSeq(b, n + 2, m)[i]
    BY <1>1, <1>2, <1>3
  <2> QED BY <2>1, <2>2, <2>3
<1>6. next \in Seq(Checksums) /\ Len(next) = n + 1 /\ next[n + 1] = b[n + 1]
      /\ \A i \in 1..n : next[i] = b[i]
  BY <1>1, <1>3, <1>4
<1>7. IsPrefix(next, b)
  <2>1. SubSeq(next, 1, n + 1) = SubSeq(b, 1, n + 1)
    BY <1>1, <1>2, <1>6
  <2> QED BY <1>1, <1>2, <1>6, <2>1 DEF IsPrefix
<1>8. m - Len(pending) + 1 \notin DOMAIN h
  <2>1. DOMAIN h = 1..n
    OBVIOUS
  <2>2. m - Len(pending) + 1 = n + 1
    <3> HIDE DEF n, m, pending
    <3> QED BY <1>1, <1>3
  <2>3. n + 1 \notin 1..n
    <3> HIDE DEF n
    <3> QED BY <1>1
  <2> HIDE DEF n, m, pending
  <2> QED BY <2>1, <2>2, <2>3
<1>9. Head(pending) \in Checksums
  BY <1>3, <1>4
<1> QED BY <1>5, <1>6, <1>7, <1>8, <1>9

\* What a step of Migrate does to the databases: it may add a history where there is
\* none, or the next migration; everything else stays.
Migrated ==
    \A d \in Databases :
        /\ db'[d].facts = db[d].facts /\ db'[d].activity = db[d].activity
        /\ db'[d].sessions = db[d].sessions
        /\ db[d].history # None => /\ db'[d].history \in Histories
                                   /\ IsPrefix(db[d].history, db'[d].history)

\* The other components after a step of the runner p that holds the lock of d.
LEMMA RunnerStep ==
    ASSUME LifeInv, NEW p \in Runners, NEW d \in Databases, Migrated,
           db' \in [Databases -> Database], lock' \in [Databases -> Runners \cup {None}],
           runner' \in [Runners -> RunnerRecord],
           UNCHANGED <<cast, disk, backup, restore, writer>>,
           \A q \in Runners \ {p} : runner'[q] = runner[q],
           lock[d] \in {p, None},
           \A e \in Databases : lock[e] \notin {p, None} => lock'[e] = lock[e],
           \A e \in Databases \ {d} : db'[e] = db[e],
           RunnerOK(p)'
    PROVE  LifeInv'
<1>1. Types'
  BY DEF LifeInv, Types
<1>2. HistoriesStay /\ DumpsStay
  BY NoneAssumption DEF HistoriesStay, DumpsStay, Readable, Migrated
<1>3. \A b \in Backups : BackupOK(b)'
  BY <1>2, BackupStays
<1>4. \A r \in Restores : RestoreOK(r)'
  BY <1>2, RestoreStays
<1>5. ASSUME NEW q \in Runners, q # p PROVE RunnerOK(q)'
  <2>1. q # None
    BY BackupRestoreAssumption DEF Processes
  <2>2. \A e \in Databases : lock[e] = q => lock'[e] = q /\ db'[e].history = db[e].history
    BY <1>5, <2>1
  <2> QED BY <1>5, <2>2, RunnerStays
<1>6. \A f \in Facts : WriterOK(f)'
  BY DEF LifeInv, WriterOK
<1> QED BY <1>1, <1>3, <1>4, <1>5, <1>6 DEF LifeInv

\* Giving up the locks of one runner leaves those of the others.
LEMMA UnlockedFacts ==
    ASSUME LifeInv, NEW p \in Runners, lock' = Unlocked(p)
    PROVE  /\ lock' \in [Databases -> Runners \cup {None}]
           /\ \A e \in Databases : lock[e] \notin {p, None} => lock'[e] = lock[e]
BY DEF Unlocked, LifeInv, Types

\* A runner that leaves Migrate, having changed nothing in this step.
LEMMA RunnerLeaves ==
    ASSUME LifeInv, NEW p \in Runners, runner[p].at \in {"holds", "applying"},
           NEW at \in {"drift", "done", "stopped"}, runner' = Moved(runner, p, at),
           lock' = Unlocked(p), Migrated, db' \in [Databases -> Database],
           \A e \in Databases \ {runner[p].on} : db'[e] = db[e],
           UNCHANGED <<cast, disk, backup, restore, writer>>
    PROVE  LifeInv'
<1> DEFINE d == runner[p].on
<1>1. runner[p] \in RunnerRecord /\ d \in Databases /\ lock[d] = p
  BY DEF LifeInv, Types, RunnerOK
<1>2. at \in RunnerStates
  BY DEF RunnerStates
<1>3. runner' = [runner EXCEPT ![p] = [runner[p] EXCEPT !.at = at]]
  BY DEF Moved
<1>4. runner' \in [Runners -> RunnerRecord] /\ \A q \in Runners \ {p} : runner'[q] = runner[q]
  <2>1. [runner[p] EXCEPT !.at = at] \in RunnerRecord
    BY <1>1, <1>2 DEF RunnerRecord
  <2> QED BY <1>3, <2>1 DEF LifeInv, Types
<1>5. runner'[p].at = at
  BY <1>1, <1>3 DEF LifeInv, Types, RunnerRecord
<1>6. RunnerOK(p)'
  BY <1>5 DEF RunnerOK
<1> QED BY <1>1, <1>4, <1>6, UnlockedFacts, RunnerStep

\* Taking the advisory lock.
LEMMA AcquireKept ==
    ASSUME LifeInv, NEW p \in Runners, NEW d \in Databases, Acquire(p, d)
    PROVE  LifeInv' /\ Migrated
<1>1. runner[p] \in RunnerRecord /\ runner[p].at = "idle"
  BY DEF Acquire, MayMigrate, LifeInv, Types
<1>2. UNCHANGED <<cast, db, disk, backup, restore, writer>> /\ lock[d] = None
      /\ lock' = [lock EXCEPT ![d] = p]
      /\ runner' = [runner EXCEPT ![p] = [runner[p] EXCEPT !.at = "holds", !.on = d]]
  BY <1>1 DEF Acquire, LockFree, LifeInv, Types
<1>3. [runner[p] EXCEPT !.at = "holds", !.on = d] \in RunnerRecord
  BY <1>1 DEF RunnerRecord, RunnerStates
<1>4. /\ runner' \in [Runners -> RunnerRecord]
      /\ \A q \in Runners \ {p} : runner'[q] = runner[q]
      /\ runner'[p].at = "holds" /\ runner'[p].on = d
  BY <1>1, <1>2, <1>3 DEF LifeInv, Types, RunnerRecord
<1>5. /\ lock' \in [Databases -> Runners \cup {None}] /\ lock'[d] = p
      /\ \A e \in Databases : lock[e] \notin {p, None} => lock'[e] = lock[e]
  BY <1>2 DEF LifeInv, Types
<1>6. RunnerOK(p)'
  BY <1>4, <1>5 DEF RunnerOK
<1>7. Migrated
  <2>1. \A e \in Databases : db[e] \in Database
    BY DEF LifeInv, Types
  <2>2. \A h \in Histories : IsPrefix(h, h)
    BY HistoryFacts, PrefixOfItself
  <2> QED BY <1>2, <2>1, <2>2 DEF Migrated, Database
<1>8. db' \in [Databases -> Database] /\ \A e \in Databases \ {d} : db'[e] = db[e]
  BY <1>2 DEF LifeInv, Types
<1> QED BY <1>2, <1>4, <1>5, <1>6, <1>7, <1>8, RunnerStep

\* A step that changes no database migrates nothing.
LEMMA NothingMigrated ==
    ASSUME LifeInv, UNCHANGED db
    PROVE  Migrated /\ db' \in [Databases -> Database]
<1>1. \A e \in Databases : db[e] \in Database
  BY DEF LifeInv, Types
<1>2. \A h \in Histories : IsPrefix(h, h)
  BY HistoryFacts, PrefixOfItself
<1> QED BY <1>1, <1>2 DEF Migrated, Database, LifeInv, Types

\* The end of a run of Migrate, or its failure.
LEMMA LeaveKept ==
    ASSUME LifeInv, NEW p \in Runners, FinishMigrate(p) \/ StopMigrate(p)
    PROVE  LifeInv' /\ Migrated
<1>1. /\ runner[p].at \in {"holds", "applying"}
      /\ \E at \in {"drift", "done", "stopped"} : runner' = Moved(runner, p, at)
      /\ lock' = Unlocked(p) /\ UNCHANGED <<cast, db, disk, backup, restore, writer>>
  BY DEF FinishMigrate, StopMigrate
<1> QED BY <1>1, NothingMigrated, RunnerLeaves

\* Reading and judging the history, which creates the table of migrations.
LEMMA LoadKept ==
    ASSUME LifeInv, NEW p \in Runners, Load(p)
    PROVE  LifeInv' /\ Migrated
<1> DEFINE d == runner[p].on
           applied == IF db[d].history = None THEN <<>> ELSE db[d].history
           build == cast.build[p]
           pending == SubSeq(build, Len(applied) + 1, Len(build))
           row == [db[d] EXCEPT !.history = applied]
<1>1. /\ runner[p].at = "holds" /\ runner[p] \in RunnerRecord
      /\ d \in Databases /\ lock[d] = p /\ db[d] \in Database
  BY DEF Load, LifeInv, Types, RunnerOK
<1>2. build \in Builds /\ build \in Seq(Checksums)
  BY CastFacts DEF Processes, LifeInv
<1>3. applied \in Histories /\ applied \in Seq(Checksums)
  BY <1>1, <1>2, EmptyHistory, HistoryFacts DEF Database
<1>4. db' = [db EXCEPT ![d] = row] /\ UNCHANGED <<cast, disk, backup, restore, writer>>
  BY <1>1 DEF Load, LifeInv, Types
<1>5. /\ row \in Database /\ row.history = applied /\ row.facts = db[d].facts
      /\ row.activity = db[d].activity /\ row.sessions = db[d].sessions
  <2> HIDE DEF applied
  <2> QED BY <1>1, <1>3 DEF Database
<1>6. /\ db' \in [Databases -> Database] /\ db'[d] = row
      /\ \A e \in Databases \ {d} : db'[e] = db[e]
  <2> HIDE DEF row
  <2> QED BY <1>1, <1>4, <1>5 DEF LifeInv, Types
<1>7. Migrated
  <2>1. \A e \in Databases : db[e] \in Database
    BY DEF LifeInv, Types
  <2>2. \A h \in Histories : IsPrefix(h, h)
    BY HistoryFacts, PrefixOfItself
  <2>3. db[d].history # None => applied = db[d].history
    OBVIOUS
  <2> HIDE DEF row, applied, d
  <2> QED BY <1>1, <1>3, <1>5, <1>6, <2>1, <2>2, <2>3 DEF Migrated, Database
<1>8. CASE ~Agrees(applied, build)
  BY <1>1, <1>4, <1>6, <1>7, <1>8, RunnerLeaves DEF Load
<1>9. CASE Agrees(applied, build)
  <2>1. runner' = [runner EXCEPT ![p].at = "applying", ![p].pending = pending] /\ lock' = lock
    BY <1>9 DEF Load
  <2>2. pending \in Seq(Checksums)
    <3> HIDE DEF build, applied, Checksums
    <3> QED BY <1>2, <1>3
  <2> HIDE DEF pending
  <2>3. runner' = [runner EXCEPT ![p] = [runner[p] EXCEPT !.at = "applying", !.pending = pending]]
    BY <1>1, <2>1 DEF LifeInv, Types
  <2>4. [runner[p] EXCEPT !.at = "applying", !.pending = pending] \in RunnerRecord
    BY <1>1, <2>2 DEF RunnerRecord, RunnerStates
  <2>5. /\ runner' \in [Runners -> RunnerRecord] /\ \A q \in Runners \ {p} : runner'[q] = runner[q]
        /\ runner'[p].at = "applying" /\ runner'[p].on = d /\ runner'[p].pending = pending
    BY <1>1, <2>3, <2>4 DEF LifeInv, Types, RunnerRecord
  <2>6. Applying(p)'
    <3>1. db'[d].history = applied /\ cast' = cast
      BY <1>4, <1>5, <1>6
    <3> HIDE DEF applied, d, row
    <3> QED BY <1>3, <1>9, <2>5, <3>1 DEF Applying, pending, build, Agrees
  <2>7. RunnerOK(p)'
    BY <1>1, <2>1, <2>5, <2>6 DEF RunnerOK
  <2>8. lock' \in [Databases -> Runners \cup {None}]
    BY <2>1 DEF LifeInv, Types
  <2> HIDE DEF row
  <2> QED BY <1>1, <1>4, <1>6, <1>7, <2>1, <2>5, <2>7, <2>8, RunnerStep
<1> QED BY <1>7, <1>8, <1>9

\* Applying a migration: under the lock the history has not moved, so the key is free.
LEMMA ApplyMigrationKept ==
    ASSUME LifeInv, NEW p \in Runners, ApplyMigration(p)
    PROVE  LifeInv' /\ Migrated
<1> DEFINE d == runner[p].on
           h == db[d].history
           build == cast.build[p]
           pending == runner[p].pending
           next == Append(h, Head(pending))
           row == [db[d] EXCEPT !.history = next]
<1>1. /\ runner[p].at = "applying" /\ runner[p] \in RunnerRecord /\ pending # <<>>
      /\ d \in Databases /\ lock[d] = p /\ db[d] \in Database /\ Applying(p)
  BY DEF ApplyMigration, LifeInv, Types, RunnerOK
<1>2. build \in Builds /\ build \in Seq(Checksums)
  BY CastFacts DEF Processes, LifeInv
<1>3. /\ h \in Histories /\ h \in Seq(Checksums) /\ IsPrefix(h, build)
      /\ pending = SubSeq(build, Len(h) + 1, Len(build))
  BY <1>1, HistoryFacts DEF Applying
<1>4. /\ Len(build) - Len(pending) + 1 \notin DOMAIN h
      /\ Head(pending) \in Checksums
      /\ IsPrefix(next, build)
      /\ Tail(pending) = SubSeq(build, Len(h) + 2, Len(build))
      /\ Len(next) = Len(h) + 1
  <2> HIDE DEF build, h
  <2> QED BY <1>1, <1>2, <1>3, NextMigration
<1>5. IsPrefix(h, next) /\ next \in Seq(Checksums) /\ next \in Histories
  <2>1. IsPrefix(h, next) /\ next \in Seq(Checksums)
    BY <1>3, <1>4, Extends
  <2> QED BY <1>2, <1>4, <2>1, HistoryFacts
<1>6. /\ db' = [db EXCEPT ![d] = row]
      /\ runner' = [runner EXCEPT ![p].pending = Tail(pending)]
      /\ lock' = lock
      /\ UNCHANGED <<cast, disk, backup, restore, writer>>
  BY <1>1, <1>4 DEF ApplyMigration, LifeInv, Types
<1>7. /\ row \in Database /\ row.history = next /\ row.facts = db[d].facts
      /\ row.activity = db[d].activity /\ row.sessions = db[d].sessions
  <2> HIDE DEF next
  <2> QED BY <1>1, <1>5 DEF Database
<1>8. /\ db' \in [Databases -> Database] /\ db'[d] = row
      /\ \A e \in Databases \ {d} : db'[e] = db[e]
  <2> HIDE DEF row
  <2> QED BY <1>1, <1>6, <1>7 DEF LifeInv, Types
<1>9. Migrated
  <2>1. \A e \in Databases : db[e] \in Database
    BY DEF LifeInv, Types
  <2>2. \A g \in Histories : IsPrefix(g, g)
    BY HistoryFacts, PrefixOfItself
  <2> HIDE DEF row, next, d
  <2> QED BY <1>1, <1>5, <1>7, <1>8, <2>1, <2>2 DEF Migrated, Database
<1>10. Tail(pending) \in Seq(Checksums)
  <2> HIDE DEF Checksums
  <2> QED BY <1>1 DEF RunnerRecord
<1>11. /\ runner' \in [Runners -> RunnerRecord] /\ \A q \in Runners \ {p} : runner'[q] = runner[q]
       /\ runner'[p].at = "applying" /\ runner'[p].on = d /\ runner'[p].pending = Tail(pending)
  <2> DEFINE rest == Tail(pending)
  <2>1. runner' = [runner EXCEPT ![p] = [runner[p] EXCEPT !.pending = rest]]
    BY <1>1, <1>6 DEF LifeInv, Types
  <2>2. rest \in Seq(Checksums)
    BY <1>10
  <2> HIDE DEF rest
  <2>3. [runner[p] EXCEPT !.pending = rest] \in RunnerRecord
    BY <1>1, <2>2 DEF RunnerRecord
  <2>4. /\ runner' \in [Runners -> RunnerRecord] /\ \A q \in Runners \ {p} : runner'[q] = runner[q]
        /\ runner'[p].at = "applying" /\ runner'[p].on = d /\ runner'[p].pending = rest
    BY <1>1, <2>1, <2>3 DEF LifeInv, Types, RunnerRecord
  <2> QED BY <2>4 DEF rest
<1>12. Applying(p)'
  <2>1. db'[d].history = next /\ cast' = cast
    BY <1>6, <1>7, <1>8
  <2>2. Len(next) + 1 = Len(h) + 2
    <3>1. Len(h) \in Nat
      BY <1>3
    <3> HIDE DEF next, h
    <3> QED BY <1>4, <3>1
  <2> HIDE DEF next, h, d, row
  <2> QED BY <1>4, <1>5, <1>11, <2>1, <2>2 DEF Applying, build
<1>13. RunnerOK(p)'
  BY <1>1, <1>6, <1>11, <1>12 DEF RunnerOK
<1>14. lock' \in [Databases -> Runners \cup {None}]
  BY <1>6 DEF LifeInv, Types
<1> HIDE DEF row, next
<1> QED BY <1>1, <1>6, <1>8, <1>9, <1>11, <1>13, <1>14, RunnerStep

-----------------------------------------------------------------------------
(* nexus-backup *)

\* An empty temporary directory is a directory.
LEMMA NoDirectoryFacts ==
    /\ NoDirectory \in Directories /\ NoDirectory.manifest = None /\ NoDirectory.dump = None
    /\ NoDirectory # None
<1>1. NoDirectory \in Directories
  BY DEF NoDirectory, Directories
<1> QED BY <1>1, NoneAssumption DEF NoDirectory

\* A directory that is whole has a dump.
LEMMA WholeFacts ==
    ASSUME NEW directory \in Directories, Whole(directory)
    PROVE  directory.dump \in Snapshots /\ directory.manifest \in Manifests
BY DEF Whole, Directories, Manifests, Digest

\* The other components after a step of the backup b.
LEMMA BackupStep ==
    ASSUME LifeInv, NEW b \in Backups,
           backup' \in [Backups -> BackupRecord],
           disk' \in [Paths \cup Backups -> Directories \cup {None}],
           UNCHANGED <<cast, db, lock, runner, restore, writer>>,
           \A c \in Backups \ {b} : backup'[c] = backup[c] /\ disk'[c] = disk[c],
           \A x \in Paths : disk'[x] = disk[x] \/ disk'[x].dump \in Snapshots,
           Readable(b) => Readable(b)',
           BackupOK(b)'
    PROVE  LifeInv'
<1>1. Types'
  BY DEF LifeInv, Types
<1>2. HistoriesStay
  BY DEF HistoriesStay
<1>3. DumpsStay
  <2> SUFFICES ASSUME NEW x \in Paths \cup Backups, Readable(x) PROVE Readable(x)'
    BY DEF DumpsStay
  <2>1. CASE x \in Paths
    BY <2>1, BackupRestoreAssumption DEF Readable
  <2>2. CASE x \in Backups /\ x # b
    BY <2>2 DEF Readable
  <2>3. CASE x = b
    BY <2>3
  <2> QED BY <2>1, <2>2, <2>3
<1>4. \A c \in Backups : BackupOK(c)'
  BY <1>2, BackupStays
<1>5. \A r \in Restores : RestoreOK(r)'
  BY <1>2, <1>3, RestoreStays
<1>6. \A p \in Runners : RunnerOK(p)'
  BY RunnerStays
<1>7. \A f \in Facts : WriterOK(f)'
  BY DEF LifeInv, WriterOK
<1> QED BY <1>1, <1>4, <1>5, <1>6, <1>7 DEF LifeInv

\* A backup that moves on keeps its path and the history it read.
LEMMA BackupMoves ==
    ASSUME LifeInv, NEW b \in Backups, NEW at \in BackupStates, backup' = Moved(backup, b, at)
    PROVE  /\ backup' \in [Backups -> BackupRecord]
           /\ backup'[b].at = at /\ backup'[b].path = backup[b].path
           /\ backup'[b].history = backup[b].history
           /\ \A c \in Backups \ {b} : backup'[c] = backup[c]
<1>1. backup[b] \in BackupRecord
  BY DEF LifeInv, Types
<1>2. backup' = [backup EXCEPT ![b] = [backup[b] EXCEPT !.at = at]]
  BY DEF Moved
<1>3. [backup[b] EXCEPT !.at = at] \in BackupRecord
  BY <1>1 DEF BackupRecord
<1>4. backup' \in [Backups -> BackupRecord]
  BY <1>2, <1>3 DEF LifeInv, Types
<1> QED BY <1>1, <1>2, <1>4 DEF LifeInv, Types, BackupRecord

\* A backup starts with an empty temporary directory.
LEMMA StartBackupKept ==
    ASSUME LifeInv, NEW b \in Backups, NEW path \in Paths, StartBackup(b, path)
    PROVE  LifeInv' /\ \A x \in Paths : disk'[x] = disk[x]
<1> DEFINE l == [at |-> "started", path |-> path, history |-> db[Source].history]
<1>1. db[Source].history \in Builds /\ db[Source].history \in Histories /\ db[Source].history # None
  <2>1. cast.build[b] \in Builds /\ db[Source].history = cast.build[b]
    BY CastFacts DEF StartBackup, Current, LifeInv, Processes
  <2>2. cast.build[b] \in Histories
    BY <2>1, HistoryFacts, PrefixOfItself
  <2> QED BY <2>1, <2>2, NoneAssumption
<1>2. l \in BackupRecord
  BY <1>1 DEF BackupRecord, BackupStates
<1>3. /\ backup' = [backup EXCEPT ![b] = l] /\ disk' = [disk EXCEPT ![b] = NoDirectory]
      /\ backup[b].at = "idle" /\ UNCHANGED <<cast, db, lock, runner, restore, writer>>
  BY DEF StartBackup
<1>4. /\ disk' \in [Paths \cup Backups -> Directories \cup {None}]
      /\ disk'[b] = NoDirectory /\ \A x \in (Paths \cup Backups) \ {b} : disk'[x] = disk[x]
  BY <1>3, NoDirectoryFacts DEF LifeInv, Types
<1>5. /\ backup' \in [Backups -> BackupRecord] /\ backup'[b] = l
      /\ \A c \in Backups \ {b} : backup'[c] = backup[c]
  <2> HIDE DEF l
  <2> QED BY <1>2, <1>3 DEF LifeInv, Types
<1>6. BackupOK(b)'
  BY <1>1, <1>3, <1>4, <1>5 DEF BackupOK
<1>7. ~Readable(b)
  BY <1>3 DEF Readable
<1>8. \A x \in Paths : disk'[x] = disk[x]
  BY <1>4, BackupRestoreAssumption
<1> HIDE DEF l
<1> QED BY <1>3, <1>4, <1>5, <1>6, <1>7, <1>8, BackupStep

\* The dump goes into the temporary directory.
LEMMA DumpKept ==
    ASSUME LifeInv, NEW b \in Backups, Dump(b)
    PROVE  LifeInv' /\ \A x \in Paths : disk'[x] = disk[x]
<1> DEFINE dump == Dumped(db[Source])
           directory == [disk[b] EXCEPT !.dump = dump]
<1>1. /\ backup[b].at = "started" /\ disk[b] = NoDirectory
      /\ backup[b].path \in Paths /\ backup[b].history \in Histories
      /\ db[Source] \in Database /\ db[Source].history # None
  BY CastFacts DEF Dump, LifeInv, BackupOK, Types
<1>2. dump \in Snapshots
  BY <1>1 DEF Dumped, Database, Snapshots, Events
<1> HIDE DEF dump
<1>3. /\ disk' = [disk EXCEPT ![b] = directory] /\ backup' = Moved(backup, b, "dumped")
      /\ UNCHANGED <<cast, db, lock, runner, restore, writer>>
  BY DEF Dump, dump, LifeInv, Types
<1>4. directory \in Directories /\ directory.manifest = None /\ directory.dump = dump
  BY <1>1, <1>2, NoDirectoryFacts DEF Directories
<1> HIDE DEF directory
<1>5. /\ disk' \in [Paths \cup Backups -> Directories \cup {None}]
      /\ disk'[b] = directory /\ \A x \in (Paths \cup Backups) \ {b} : disk'[x] = disk[x]
  BY <1>3, <1>4 DEF LifeInv, Types
<1>6. "dumped" \in BackupStates
  BY DEF BackupStates
<1>7. /\ backup' \in [Backups -> BackupRecord] /\ backup'[b].at = "dumped"
      /\ backup'[b].path = backup[b].path /\ backup'[b].history = backup[b].history
      /\ \A c \in Backups \ {b} : backup'[c] = backup[c]
  BY <1>3, <1>6, BackupMoves
<1>8. BackupOK(b)'
  BY <1>1, <1>2, <1>3, <1>4, <1>5, <1>7 DEF BackupOK
<1>9. ~Readable(b)
  BY <1>1 DEF Readable
<1>10. \A x \in Paths : disk'[x] = disk[x]
  BY <1>5, BackupRestoreAssumption
<1> QED BY <1>3, <1>5, <1>7, <1>8, <1>9, <1>10, BackupStep

\* The manifest makes the temporary directory whole.
LEMMA WriteManifestKept ==
    ASSUME LifeInv, NEW b \in Backups, WriteManifest(b)
    PROVE  LifeInv' /\ \A x \in Paths : disk'[x] = disk[x]
<1> DEFINE manifest == Manifest(backup[b].history, disk[b].dump)
           directory == [disk[b] EXCEPT !.manifest = manifest]
<1>1. /\ backup[b].at = "dumped" /\ disk[b] \in Directories /\ disk[b].dump \in Snapshots
      /\ backup[b].path \in Paths /\ backup[b].history \in Histories
      /\ db[Source].history # None
  BY DEF WriteManifest, LifeInv, BackupOK
<1>2. manifest \in Manifests /\ manifest.digest = disk[b].dump
  BY <1>1 DEF Manifest, Manifests, Digest
<1> HIDE DEF manifest
<1>3. /\ disk' = [disk EXCEPT ![b] = directory] /\ backup' = Moved(backup, b, "described")
      /\ UNCHANGED <<cast, db, lock, runner, restore, writer>>
  BY DEF WriteManifest, manifest, LifeInv, Types
<1>4. directory \in Directories /\ directory.manifest = manifest /\ directory.dump = disk[b].dump
  BY <1>1, <1>2 DEF Directories
<1> HIDE DEF directory
<1>5. /\ disk' \in [Paths \cup Backups -> Directories \cup {None}]
      /\ disk'[b] = directory /\ \A x \in (Paths \cup Backups) \ {b} : disk'[x] = disk[x]
  BY <1>3, <1>4 DEF LifeInv, Types
<1>6. "described" \in BackupStates
  BY DEF BackupStates
<1>7. /\ backup' \in [Backups -> BackupRecord] /\ backup'[b].at = "described"
      /\ backup'[b].path = backup[b].path /\ backup'[b].history = backup[b].history
      /\ \A c \in Backups \ {b} : backup'[c] = backup[c]
  BY <1>3, <1>6, BackupMoves
<1>8. Whole(directory)
  BY <1>1, <1>2, <1>4, NoneAssumption, NoDirectoryFacts DEF Whole, Digest
<1>9. BackupOK(b)'
  BY <1>1, <1>3, <1>4, <1>5, <1>7, <1>8 DEF BackupOK
<1>10. ~Readable(b)
  BY <1>1 DEF Readable
<1>11. \A x \in Paths : disk'[x] = disk[x]
  BY <1>5, BackupRestoreAssumption
<1> QED BY <1>3, <1>5, <1>7, <1>9, <1>10, <1>11, BackupStep

\* Only a whole directory is published, and only under a name that is free.
LEMMA PublishKept ==
    ASSUME LifeInv, NEW b \in Backups, Publish(b)
    PROVE  /\ LifeInv'
           /\ \A x \in Paths : disk'[x] = disk[x] \/ (disk[x] = None /\ Whole(disk'[x]))
<1> DEFINE path == backup[b].path
<1>1. /\ backup[b].at = "described" /\ disk[b] \in Directories /\ Whole(disk[b])
      /\ path \in Paths /\ backup[b].history \in Histories /\ disk[path] = None
      /\ db[Source].history # None /\ path # b
  BY BackupRestoreAssumption DEF Publish, MayRename, Free, LifeInv, BackupOK
<1>2. /\ disk' = [disk EXCEPT ![path] = disk[b], ![b] = None] /\ backup' = Moved(backup, b, "published")
      /\ UNCHANGED <<cast, db, lock, runner, restore, writer>>
  BY DEF Publish
<1>3. /\ disk' \in [Paths \cup Backups -> Directories \cup {None}]
      /\ disk'[b] = None /\ disk'[path] = disk[b]
      /\ \A x \in (Paths \cup Backups) \ {b, path} : disk'[x] = disk[x]
  BY <1>1, <1>2 DEF LifeInv, Types
<1>4. "published" \in BackupStates
  BY DEF BackupStates
<1>5. /\ backup' \in [Backups -> BackupRecord] /\ backup'[b].at = "published"
      /\ backup'[b].path = backup[b].path /\ backup'[b].history = backup[b].history
      /\ \A c \in Backups \ {b} : backup'[c] = backup[c]
  BY <1>2, <1>4, BackupMoves
<1>6. BackupOK(b)'
  BY <1>1, <1>2, <1>5 DEF BackupOK
<1>7. Readable(b)'
  BY <1>3, <1>5 DEF Readable
<1>8. \A c \in Backups \ {b} : disk'[c] = disk[c]
  BY <1>1, <1>3, BackupRestoreAssumption
<1>9. \A x \in Paths : disk'[x] = disk[x] \/ x = path
  BY <1>3, BackupRestoreAssumption
<1>10. disk'[path].dump \in Snapshots
  BY <1>1, <1>3, WholeFacts
<1>11. LifeInv'
  BY <1>2, <1>3, <1>5, <1>6, <1>7, <1>8, <1>9, <1>10, BackupStep
<1>12. disk[path] = None /\ Whole(disk'[path])
  BY <1>1, <1>3
<1>13. \A x \in Paths : disk'[x] = disk[x] \/ (disk[x] = None /\ Whole(disk'[x]))
  <2> HIDE DEF path
  <2> QED BY <1>9, <1>12
<1> QED BY <1>11, <1>13

\* A backup that stops leaves the published names alone.
LEMMA StopBackupKept ==
    ASSUME LifeInv, NEW b \in Backups, StopBackup(b)
    PROVE  LifeInv' /\ \A x \in Paths : disk'[x] = disk[x]
<1>1. /\ backup[b].at \in {"started", "dumped", "described"}
      /\ backup[b].path \in Paths /\ backup[b].history \in Histories
      /\ db[Source].history # None
  BY DEF StopBackup, LifeInv, BackupOK
<1>2. /\ disk' = [disk EXCEPT ![b] = None] \/ disk' = disk
      /\ backup' = Moved(backup, b, "stopped")
      /\ UNCHANGED <<cast, db, lock, runner, restore, writer>>
  BY DEF StopBackup
<1>3. /\ disk' \in [Paths \cup Backups -> Directories \cup {None}]
      /\ disk'[b] = None \/ disk'[b] = disk[b]
      /\ \A x \in (Paths \cup Backups) \ {b} : disk'[x] = disk[x]
  BY <1>2 DEF LifeInv, Types
<1>4. "stopped" \in BackupStates
  BY DEF BackupStates
<1>5. /\ backup' \in [Backups -> BackupRecord] /\ backup'[b].at = "stopped"
      /\ backup'[b].path = backup[b].path /\ backup'[b].history = backup[b].history
      /\ \A c \in Backups \ {b} : backup'[c] = backup[c]
  BY <1>2, <1>4, BackupMoves
<1>6. BackupOK(b)'
  BY <1>1, <1>2, <1>5 DEF BackupOK
<1>7. Readable(b) => Readable(b)'
  BY <1>3, <1>5 DEF Readable
<1>8. \A x \in Paths : disk'[x] = disk[x]
  BY <1>3, BackupRestoreAssumption
<1> QED BY <1>2, <1>3, <1>5, <1>6, <1>7, <1>8, BackupStep

\* A directory that decays keeps its manifest.
LEMMA DecayKept ==
    ASSUME LifeInv, NEW path \in Paths, Decay(path)
    PROVE  /\ LifeInv'
           /\ \A x \in Paths : \/ disk'[x] = disk[x]
                               \/ /\ disk[x] # None /\ disk'[x] # None
                                  /\ disk'[x].manifest = disk[x].manifest
<1> DEFINE dump == [disk[path].dump EXCEPT !.facts = {Damage}]
           directory == [disk[path] EXCEPT !.dump = dump]
<1>1. disk[path] \in Directories /\ disk[path].dump \in Snapshots
  <2>1. disk[path] \in Directories
    BY DEF Decay, LifeInv, Types
  <2> QED BY <2>1 DEF Decay, Directories
<1>2. dump \in Snapshots
  BY <1>1 DEF Snapshots
<1>3. disk' = [disk EXCEPT ![path] = directory]
      /\ UNCHANGED <<cast, db, lock, runner, backup, restore, writer>>
  BY <1>1 DEF Decay, LifeInv, Types, Directories
<1> HIDE DEF dump
<1>4. directory \in Directories /\ directory.manifest = disk[path].manifest /\ directory.dump = dump
  BY <1>1, <1>2 DEF Directories
<1> HIDE DEF directory
<1>5. /\ disk' \in [Paths \cup Backups -> Directories \cup {None}] /\ disk'[path] = directory
      /\ \A x \in (Paths \cup Backups) \ {path} : disk'[x] = disk[x]
  BY <1>3, <1>4 DEF LifeInv, Types
<1>6. Types' /\ HistoriesStay
  BY <1>3, <1>5 DEF LifeInv, Types, HistoriesStay
<1>7. DumpsStay
  BY <1>2, <1>3, <1>4, <1>5 DEF DumpsStay, Readable
<1>8. \A b \in Backups : BackupOK(b)'
  <2>1. \A b \in Backups : disk'[b] = disk[b]
    BY <1>5, BackupRestoreAssumption
  <2> QED BY <1>3, <1>6, <2>1, BackupStays
<1>9. \A r \in Restores : RestoreOK(r)'
  BY <1>3, <1>6, <1>7, RestoreStays
<1>10. (\A p \in Runners : RunnerOK(p)') /\ (\A f \in Facts : WriterOK(f)')
  BY <1>3, RunnerStays DEF LifeInv, WriterOK
<1>11. LifeInv'
  BY <1>6, <1>8, <1>9, <1>10 DEF LifeInv
<1> QED BY <1>1, <1>4, <1>5, <1>11, NoneAssumption

-----------------------------------------------------------------------------
(* nexus-restore *)

\* The other components after a step of the restore r that keeps every history.
LEMMA RestoreStep ==
    ASSUME LifeInv, NEW r \in Restores,
           db' \in [Databases -> Database], restore' \in [Restores -> RestoreRecord],
           UNCHANGED <<cast, lock, runner, disk, backup, writer>>,
           \A q \in Restores \ {r} : restore'[q] = restore[q],
           \A d \in Databases : db[d].history # None => db'[d].history = db[d].history,
           RestoreOK(r)'
    PROVE  LifeInv'
<1>1. Types'
  BY DEF LifeInv, Types
<1>2. HistoriesStay /\ DumpsStay
  BY DEF HistoriesStay, DumpsStay, Readable
<1>3. \A b \in Backups : BackupOK(b)'
  BY <1>2, BackupStays
<1>4. \A q \in Restores : RestoreOK(q)'
  BY <1>2, RestoreStays
<1>5. \A p \in Runners : RunnerOK(p)'
  <2> SUFFICES ASSUME NEW p \in Runners PROVE RunnerOK(p)'
    OBVIOUS
  <2>1. RunnerOK(p)
    BY DEF LifeInv
  <2>2. runner[p].at = "applying" => db[runner[p].on].history # None /\ runner[p].on \in Databases
    BY <2>1, NoneAssumption DEF RunnerOK, Applying
  <2> QED BY <2>1, <2>2 DEF RunnerOK, Applying
<1>6. \A f \in Facts : WriterOK(f)'
  BY DEF LifeInv, WriterOK
<1> QED BY <1>1, <1>3, <1>4, <1>5, <1>6 DEF LifeInv

\* A restore that moves on keeps what it knows.
LEMMA RestoreMoves ==
    ASSUME LifeInv, NEW r \in Restores, NEW at \in RestoreStates, restore' = Moved(restore, r, at)
    PROVE  /\ restore' \in [Restores -> RestoreRecord]
           /\ restore'[r].at = at /\ restore'[r].from = restore[r].from
           /\ restore'[r].on = restore[r].on /\ restore'[r].wrote = restore[r].wrote
           /\ restore'[r].events = restore[r].events
           /\ \A q \in Restores \ {r} : restore'[q] = restore[q]
<1>1. restore[r] \in RestoreRecord
  BY DEF LifeInv, Types
<1>2. restore' = [restore EXCEPT ![r] = [restore[r] EXCEPT !.at = at]]
  BY DEF Moved
<1>3. [restore[r] EXCEPT !.at = at] \in RestoreRecord
  BY <1>1 DEF RestoreRecord
<1>4. restore' \in [Restores -> RestoreRecord]
  BY <1>2, <1>3 DEF LifeInv, Types
<1> QED BY <1>1, <1>2, <1>4 DEF LifeInv, Types, RestoreRecord

\* A step that only moves a restore on, to where its history allows it to be.
LEMMA OutcomeKept ==
    ASSUME LifeInv, NEW r \in Restores, NEW at \in RestoreStates, Outcome(r, at),
           \/ at = "refused" /\ restore[r].at \in {"idle", "inspected", "cleared"}
           \/ at = "cleared" /\ restore[r].at = "inspected"
           \/ at = "verified" /\ restore[r].at = "written"
           \/ at = "locked" /\ restore[r].at = "verified"
           \/ at = "failed" /\ restore[r].at \in {"written", "verified", "locked", "read"}
    PROVE  LifeInv'
<1>1. restore' = Moved(restore, r, at) /\ UNCHANGED <<cast, db, lock, runner, disk, backup, writer>>
  BY DEF Outcome
<1>2. /\ restore' \in [Restores -> RestoreRecord]
      /\ restore'[r].at = at /\ restore'[r].from = restore[r].from
      /\ restore'[r].on = restore[r].on /\ restore'[r].wrote = restore[r].wrote
      /\ \A q \in Restores \ {r} : restore'[q] = restore[q]
  BY <1>1, RestoreMoves
<1>3. RestoreOK(r)
  BY DEF LifeInv
<1>4. \A x : Readable(x) => Readable(x)'
  BY <1>1 DEF Readable
<1>5. RestoreOK(r)'
  BY <1>1, <1>2, <1>3, <1>4 DEF RestoreOK
<1>6. db' \in [Databases -> Database] /\ \A d \in Databases : db'[d].history = db[d].history
  BY <1>1 DEF LifeInv, Types
<1> QED BY <1>1, <1>2, <1>5, <1>6, RestoreStep

\* Inspecting an input directory, which only a dump with its digest passes.
LEMMA InspectKept ==
    ASSUME LifeInv, NEW r \in Restores, NEW path \in Paths \cup Backups, NEW d \in Databases,
           Inspect(r, path, d)
    PROVE  /\ LifeInv' /\ UNCHANGED <<cast, db, disk, writer>>
           /\ restore[r].at = "idle" /\ restore'[r].at \in {"inspected", "refused"}
           /\ ~restore[r].wrote /\ ~restore'[r].wrote
           /\ \A q \in Restores \ {r} : restore'[q] = restore[q]
<1> DEFINE l == [at |-> "inspected", from |-> path, on |-> d, list |-> BuildRestoreList(cast.contents),
                 wrote |-> FALSE, events |-> {}]
           sound == Matches(r, disk[path]) /\ Supported({r}) /\ Restorable(cast.contents)
<1>1. restore[r].at = "idle" /\ ~restore[r].wrote /\ disk[path] \in Directories
  BY DEF Inspect, Free, LifeInv, RestoreOK, Types
<1>2. CASE ~sound
  <2>1. Outcome(r, "refused") /\ "refused" \in RestoreStates
    BY <1>2 DEF Inspect, RestoreStates
  <2>2. LifeInv'
    BY <1>1, <2>1, OutcomeKept
  <2>3. restore' = Moved(restore, r, "refused") /\ UNCHANGED <<cast, db, disk, writer>>
    BY <2>1 DEF Outcome
  <2>4. restore'[r].at = "refused" /\ restore'[r].wrote = restore[r].wrote
        /\ \A q \in Restores \ {r} : restore'[q] = restore[q]
    BY <2>1, <2>3, RestoreMoves
  <2> QED BY <1>1, <2>2, <2>3, <2>4
<1>3. CASE sound
  <2>1. restore' = [restore EXCEPT ![r] = l] /\ UNCHANGED <<cast, db, lock, runner, disk, backup, writer>>
    BY <1>3 DEF Inspect
  <2>2. l \in RestoreRecord
    BY DEF RestoreRecord, RestoreStates, LifeInv, Types
  <2>3. l.at = "inspected" /\ l.from = path /\ l.on = d /\ l.wrote = FALSE
    OBVIOUS
  <2>4. Readable(path)
    <3>1. disk[path].manifest # None /\ disk[path].dump = disk[path].manifest.digest
      BY <1>3 DEF Matches, Digest
    <3>2. disk[path].dump \in Snapshots
      BY <1>1, <3>1 DEF Directories, Manifests
    <3>3. path \in Backups => backup[path].at \in {"described", "published", "stopped"}
      <4> SUFFICES ASSUME path \in Backups PROVE backup[path].at \in {"described", "published", "stopped"}
        OBVIOUS
      <4>1. BackupOK(path) /\ backup[path].at \in BackupStates
        BY DEF LifeInv, Types, BackupRecord
      <4>2. disk[path] # None
        BY <1>1, NoneAssumption
      <4> QED BY <3>1, <4>1, <4>2, NoDirectoryFacts DEF BackupOK, BackupStates
    <3> QED BY <3>2, <3>3 DEF Readable
  <2> HIDE DEF l
  <2>5. /\ restore' \in [Restores -> RestoreRecord] /\ restore'[r] = l
        /\ \A q \in Restores \ {r} : restore'[q] = restore[q]
    BY <2>1, <2>2 DEF LifeInv, Types
  <2>6. Readable(path)'
    BY <2>1, <2>4 DEF Readable
  <2>7. RestoreOK(r)'
    BY <2>3, <2>5, <2>6 DEF RestoreOK
  <2>8. db' \in [Databases -> Database] /\ \A e \in Databases : db'[e].history = db[e].history
    BY <2>1 DEF LifeInv, Types
  <2>9. LifeInv'
    BY <2>1, <2>5, <2>7, <2>8, RestoreStep
  <2> QED BY <1>1, <2>1, <2>3, <2>5, <2>9
<1> QED BY <1>2, <1>3

\* A restore writes where there is no history yet, and what it writes is a dump.
Wrote(r) ==
    /\ restore[r].at = "cleared" /\ restore'[r].at = "written" /\ restore'[r].wrote
    /\ restore'[r].on = restore[r].on /\ restore[r].on \in Databases
    /\ \A q \in Restores \ {r} : restore'[q] = restore[q]
    /\ db[restore[r].on].history = None
    /\ \A e \in Databases \ {restore[r].on} : db'[e] = db[e]
    /\ UNCHANGED <<cast, disk, writer>>

\* pg_restore writes or refuses.
LEMMA PgRestoreKept ==
    ASSUME LifeInv, NEW r \in Restores, PgRestore(r)
    PROVE  LifeInv' /\ (Outcome(r, "refused") \/ Wrote(r))
<1> DEFINE d == restore[r].on
           path == restore[r].from
           written == ~Free(path) /\ Creatable(d) /\ RegistryFirst(restore[r].list)
<1>1. /\ restore[r].at = "cleared" /\ RestoreOK(r) /\ restore[r] \in RestoreRecord
      /\ d \in Databases /\ path \in Paths \cup Backups /\ Readable(path)
  BY DEF PgRestore, LifeInv, RestoreOK, Types
<1>2. CASE ~written
  <2>1. Outcome(r, "refused") /\ "refused" \in RestoreStates
    BY <1>2 DEF PgRestore, RestoreStates
  <2> QED BY <1>1, <2>1, OutcomeKept
<1>3. CASE written
  <2>1. /\ db' = [db EXCEPT ![d] = disk[path].dump]
        /\ restore' = [restore EXCEPT ![r] = [restore[r] EXCEPT !.at = "written", !.wrote = TRUE]]
        /\ UNCHANGED <<cast, lock, runner, disk, backup, writer>>
    BY <1>1, <1>3 DEF PgRestore, LifeInv, Types
  <2>2. db[d].history = None /\ disk[path].dump \in Snapshots
    BY <1>1, <1>3 DEF Creatable, Vacant, Free, Readable
  <2>3. disk[path].dump \in Database /\ disk[path].dump.history # None
    BY <2>2, NoneAssumption DEF Snapshots, Database, Events
  <2>4. /\ db' \in [Databases -> Database] /\ db'[d] = disk[path].dump
        /\ \A e \in Databases \ {d} : db'[e] = db[e]
    BY <1>1, <2>1, <2>3 DEF LifeInv, Types
  <2>5. [restore[r] EXCEPT !.at = "written", !.wrote = TRUE] \in RestoreRecord
    BY <1>1 DEF RestoreRecord, RestoreStates
  <2>6. /\ restore' \in [Restores -> RestoreRecord]
        /\ \A q \in Restores \ {r} : restore'[q] = restore[q]
        /\ restore'[r].at = "written" /\ restore'[r].wrote = TRUE
        /\ restore'[r].on = d /\ restore'[r].from = path
    BY <1>1, <2>1, <2>5 DEF LifeInv, Types, RestoreRecord
  <2>7. RestoreOK(r)'
    BY <1>1, <2>3, <2>4, <2>6 DEF RestoreOK
  <2>8. \A e \in Databases : db[e].history # None => db'[e].history = db[e].history
    BY <2>2, <2>4
  <2>9. LifeInv'
    BY <2>1, <2>4, <2>6, <2>7, <2>8, RestoreStep
  <2>10. Wrote(r)
    BY <1>1, <2>1, <2>2, <2>4, <2>6 DEF Wrote
  <2> QED BY <2>9, <2>10
<1> QED BY <1>2, <1>3

\* The rebuild reads the events.
LEMMA ReadEventsKept ==
    ASSUME LifeInv, NEW r \in Restores, ReadEvents(r)
    PROVE  /\ LifeInv' /\ UNCHANGED <<cast, db, disk, writer>>
           /\ restore[r].at = "locked" /\ restore'[r].at = "read" /\ restore[r].on \in Databases
           /\ restore'[r].on = restore[r].on /\ restore'[r].wrote = restore[r].wrote
           /\ restore'[r].events = Projected(db[restore[r].on].facts)
           /\ \A q \in Restores \ {r} : restore'[q] = restore[q]
<1> DEFINE events == Projected(db[restore[r].on].facts)
<1>1. /\ restore[r].at = "locked" /\ RestoreOK(r) /\ restore[r] \in RestoreRecord
      /\ restore[r].on \in Databases
  BY DEF ReadEvents, LifeInv, RestoreOK, Types
<1>2. events \subseteq Events
  BY <1>1 DEF LifeInv, Types, Database, Projected
<1>3. /\ restore' = [restore EXCEPT ![r] = [restore[r] EXCEPT !.at = "read", !.events = events]]
      /\ UNCHANGED <<cast, db, lock, runner, disk, backup, writer>>
  BY <1>1 DEF ReadEvents, LifeInv, Types
<1> HIDE DEF events
<1>4. [restore[r] EXCEPT !.at = "read", !.events = events] \in RestoreRecord
  BY <1>1, <1>2 DEF RestoreRecord, RestoreStates
<1>5. /\ restore' \in [Restores -> RestoreRecord]
      /\ \A q \in Restores \ {r} : restore'[q] = restore[q]
      /\ restore'[r].at = "read" /\ restore'[r].wrote = restore[r].wrote
      /\ restore'[r].on = restore[r].on /\ restore'[r].from = restore[r].from
      /\ restore'[r].events = events
  BY <1>1, <1>3, <1>4 DEF LifeInv, Types, RestoreRecord
<1>6. RestoreOK(r)'
  BY <1>1, <1>3, <1>5 DEF RestoreOK
<1>7. db' \in [Databases -> Database] /\ \A e \in Databases : db'[e].history = db[e].history
  BY <1>3 DEF LifeInv, Types
<1>8. LifeInv'
  BY <1>3, <1>5, <1>6, <1>7, RestoreStep
<1> QED BY <1>1, <1>3, <1>5, <1>8 DEF events

\* The rebuild replaces the rows by what it has read.
LEMMA CommitRebuildKept ==
    ASSUME LifeInv, NEW r \in Restores, CommitRebuild(r)
    PROVE  /\ LifeInv' /\ UNCHANGED <<cast, disk, writer>>
           /\ restore[r].at = "read" /\ restore'[r].at = "completed" /\ restore[r].on \in Databases
           /\ restore'[r].on = restore[r].on
           /\ \A q \in Restores \ {r} : restore'[q] = restore[q]
           /\ \A e \in Databases : db'[e].history = db[e].history /\ db'[e].facts = db[e].facts
           /\ \A e \in Databases \ {restore[r].on} : db'[e] = db[e]
           /\ db'[restore[r].on].activity = restore[r].events
<1> DEFINE d == restore[r].on
           row == [db[d] EXCEPT !.activity = restore[r].events]
<1>1. /\ restore[r].at = "read" /\ RestoreOK(r) /\ restore[r] \in RestoreRecord
      /\ d \in Databases /\ db[d] \in Database
  BY DEF CommitRebuild, LifeInv, RestoreOK, Types
<1>2. /\ db' = [db EXCEPT ![d] = row] /\ restore' = Moved(restore, r, "completed")
      /\ UNCHANGED <<cast, lock, runner, disk, backup, writer>>
  BY <1>1 DEF CommitRebuild, LifeInv, Types
<1>3. /\ row \in Database /\ row.history = db[d].history /\ row.facts = db[d].facts
      /\ row.activity = restore[r].events
  BY <1>1 DEF Database, RestoreRecord
<1> HIDE DEF row
<1>4. /\ db' \in [Databases -> Database] /\ db'[d] = row
      /\ \A e \in Databases \ {d} : db'[e] = db[e]
  BY <1>1, <1>2, <1>3 DEF LifeInv, Types
<1>5. "completed" \in RestoreStates
  BY DEF RestoreStates
<1>6. /\ restore' \in [Restores -> RestoreRecord]
      /\ restore'[r].at = "completed" /\ restore'[r].from = restore[r].from
      /\ restore'[r].on = d /\ restore'[r].wrote = restore[r].wrote
      /\ \A q \in Restores \ {r} : restore'[q] = restore[q]
  BY <1>2, <1>5, RestoreMoves
<1>7. RestoreOK(r)'
  BY <1>1, <1>3, <1>4, <1>6 DEF RestoreOK
<1>8. \A e \in Databases : db'[e].history = db[e].history /\ db'[e].facts = db[e].facts
  BY <1>3, <1>4
<1>9. LifeInv'
  BY <1>2, <1>4, <1>6, <1>7, <1>8, RestoreStep
<1> QED BY <1>1, <1>2, <1>3, <1>4, <1>6, <1>8, <1>9

\* The steps of a restore that write nothing, and where each may lead.
LEMMA QuietSteps ==
    ASSUME LifeInv, NEW r \in Restores,
           RequireEmptyTarget(r) \/ Verify(r) \/ LockActivity(r) \/ StopRestore(r)
    PROVE  \E at \in {"cleared", "refused", "verified", "failed", "locked"} :
               /\ Outcome(r, at) /\ LifeInv'
               /\ restore[r].at \notin {"idle", "completed", "failed", "refused"}
               /\ at = "locked" => TableFree(restore[r].on)
<1>1. PICK at \in {"cleared", "refused", "verified", "failed", "locked"} :
          /\ Outcome(r, at)
          /\ \/ at = "refused" /\ restore[r].at \in {"inspected", "cleared"}
             \/ at = "cleared" /\ restore[r].at = "inspected"
             \/ at = "verified" /\ restore[r].at = "written"
             \/ at = "locked" /\ restore[r].at = "verified" /\ TableFree(restore[r].on)
             \/ at = "failed" /\ restore[r].at \in {"written", "verified", "locked", "read"}
  <2>1. CASE RequireEmptyTarget(r)
    BY <2>1 DEF RequireEmptyTarget
  <2>2. CASE Verify(r)
    BY <2>2 DEF Verify
  <2>3. CASE LockActivity(r)
    BY <2>3 DEF LockActivity
  <2>4. CASE StopRestore(r)
    BY <2>4 DEF StopRestore
  <2> QED BY <2>1, <2>2, <2>3, <2>4
<1>2. at \in RestoreStates
  BY DEF RestoreStates
<1>3. LifeInv'
  BY <1>1, <1>2, OutcomeKept
<1> QED BY <1>1, <1>3

-----------------------------------------------------------------------------
(* Every step: what it leaves of the databases and under the published names *)

NothingLost ==
    \A d \in Databases : db[d].history # None =>
        /\ IsPrefix(db[d].history, db'[d].history)
        /\ db[d].facts \subseteq db'[d].facts

PathsKept ==
    \A x \in Paths : disk'[x] # disk[x] =>
        IF disk[x] = None
        THEN Whole(disk'[x])
        ELSE disk'[x] # None /\ disk'[x].manifest = disk[x].manifest

\* Steps that change no history lose nothing.
LEMMA HistoriesSame ==
    ASSUME LifeInv, \A d \in Databases : /\ db'[d].history = db[d].history
                                         /\ db[d].facts \subseteq db'[d].facts
    PROVE  NothingLost
<1>1. \A d \in Databases : db[d] \in Database
  BY DEF LifeInv, Types
<1>2. \A h \in Histories : IsPrefix(h, h)
  BY HistoryFacts, PrefixOfItself
<1> QED BY <1>1, <1>2 DEF NothingLost, Database

BusinessStep(f) ==
    (\E d \in Databases : Write(f, d)) \/ ProjectActivityDelivery(f) \/ Commit(f) \/ Rollback(f)

MigrateStep(p) ==
    (\E d \in Databases : Acquire(p, d)) \/ Load(p) \/ ApplyMigration(p) \/ FinishMigrate(p)
    \/ StopMigrate(p)

NexusBackupStep(b) ==
    (\E path \in Paths : StartBackup(b, path)) \/ Dump(b) \/ WriteManifest(b) \/ Publish(b)
    \/ StopBackup(b)

QuietStep(r) == RequireEmptyTarget(r) \/ Verify(r) \/ LockActivity(r) \/ StopRestore(r)

InspectStep(r) == \E path \in Paths \cup Backups : \E d \in Databases : Inspect(r, path, d)

\* The steps, by the process that takes them.
LEMMA StepCases ==
    ASSUME [Next]_vars
    PROVE  \/ UNCHANGED vars
           \/ \E f \in Facts : BusinessStep(f)
           \/ \E d \in Databases : OpenSession(d)
           \/ \E p \in Runners : MigrateStep(p)
           \/ \E b \in Backups : NexusBackupStep(b)
           \/ \E path \in Paths : Decay(path)
           \/ \E r \in Restores : \/ QuietStep(r) \/ InspectStep(r) \/ PgRestore(r)
                                  \/ ReadEvents(r) \/ CommitRebuild(r)
BY DEF Next, BusinessStep, MigrateStep, NexusBackupStep, QuietStep, InspectStep

\* The steps of Migrate.
LEMMA MigrateStepKept ==
    ASSUME LifeInv, NEW p \in Runners, MigrateStep(p)
    PROVE  LifeInv' /\ Migrated /\ UNCHANGED <<cast, disk, restore, writer>>
<1>1. LifeInv' /\ Migrated
  BY AcquireKept, LoadKept, ApplyMigrationKept, LeaveKept DEF MigrateStep
<1>2. UNCHANGED <<cast, disk, restore, writer>>
  BY DEF MigrateStep, Acquire, Load, ApplyMigration, FinishMigrate, StopMigrate
<1> QED BY <1>1, <1>2

\* The steps of nexus-backup.
LEMMA NexusBackupStepKept ==
    ASSUME LifeInv, NEW b \in Backups, NexusBackupStep(b)
    PROVE  LifeInv' /\ PathsKept /\ UNCHANGED <<cast, db, restore, writer>>
<1>1. /\ LifeInv'
      /\ \A x \in Paths : disk'[x] = disk[x] \/ (disk[x] = None /\ Whole(disk'[x]))
  BY StartBackupKept, DumpKept, WriteManifestKept, PublishKept, StopBackupKept DEF NexusBackupStep
<1>2. UNCHANGED <<cast, db, restore, writer>>
  BY DEF NexusBackupStep, StartBackup, Dump, WriteManifest, Publish, StopBackup
<1> QED BY <1>1, <1>2 DEF PathsKept

\* Every step keeps the invariant, loses nothing and replaces no backup.
LEMMA StepKept ==
    ASSUME LifeInv, [Next]_vars
    PROVE  LifeInv' /\ NothingLost /\ PathsKept
<1> DEFINE Goal == LifeInv' /\ NothingLost /\ PathsKept
<1> SUFFICES Goal
  OBVIOUS
<1>1. CASE UNCHANGED vars
  <2>1. LifeInv'
    <3>1. Types' /\ \A f \in Facts : WriterOK(f)'
      BY <1>1 DEF vars, LifeInv, Types, WriterOK
    <3> QED BY <1>1, <3>1, ProcessesStay DEF vars
  <2> QED BY <1>1, <2>1, HistoriesSame DEF vars, PathsKept
<1>2. ASSUME NEW f \in Facts, BusinessStep(f) PROVE Goal
  <2>1. LifeInv'
    BY <1>2, BusinessKept DEF BusinessStep
  <2>2. disk' = disk
    BY <1>2 DEF BusinessStep, Write, ProjectActivityDelivery, Commit, Rollback
  <2>3. \A d \in Databases : db'[d].history = db[d].history /\ db[d].facts \subseteq db'[d].facts
    <3>1. CASE Commit(f)
      BY <3>1, CommitFacts
    <3>2. CASE ~Commit(f)
      BY <1>2, <3>2 DEF BusinessStep, Write, ProjectActivityDelivery, Rollback
    <3> QED BY <3>1, <3>2
  <2> QED BY <2>1, <2>2, <2>3, HistoriesSame DEF PathsKept
<1>3. ASSUME NEW d \in Databases, OpenSession(d) PROVE Goal
  <2>1. disk' = disk
    BY <1>3 DEF OpenSession
  <2> QED BY <1>3, <2>1, OpenSessionKept, HistoriesSame DEF PathsKept
<1>4. ASSUME NEW p \in Runners, MigrateStep(p) PROVE Goal
  BY <1>4, MigrateStepKept DEF Migrated, NothingLost, PathsKept
<1>5. ASSUME NEW b \in Backups, NexusBackupStep(b) PROVE Goal
  BY <1>5, NexusBackupStepKept, HistoriesSame
<1>6. ASSUME NEW path \in Paths, Decay(path) PROVE Goal
  <2>1. LifeInv' /\ PathsKept
    BY <1>6, DecayKept DEF PathsKept
  <2>2. db' = db
    BY <1>6 DEF Decay
  <2> QED BY <2>1, <2>2, HistoriesSame
<1>7. ASSUME NEW r \in Restores,
             QuietStep(r) \/ InspectStep(r) \/ PgRestore(r) \/ ReadEvents(r) \/ CommitRebuild(r)
      PROVE Goal
  <2>1. CASE QuietStep(r)
    <3>1. LifeInv' /\ UNCHANGED <<db, disk>>
      BY <2>1, QuietSteps DEF QuietStep, Outcome
    <3> QED BY <3>1, HistoriesSame DEF PathsKept
  <2>2. CASE InspectStep(r)
    <3>1. LifeInv' /\ UNCHANGED <<db, disk>>
      BY <2>2, InspectKept DEF InspectStep
    <3> QED BY <3>1, HistoriesSame DEF PathsKept
  <2>3. CASE PgRestore(r)
    <3>1. LifeInv' /\ (Outcome(r, "refused") \/ Wrote(r))
      BY <2>3, PgRestoreKept
    <3>2. CASE Outcome(r, "refused")
      BY <3>1, <3>2, HistoriesSame DEF Outcome, PathsKept
    <3>3. CASE Wrote(r)
      <4>1. \A e \in Databases \ {restore[r].on} : db'[e] = db[e]
        BY <3>3 DEF Wrote
      <4>2. \A h \in Histories : IsPrefix(h, h)
        BY HistoryFacts, PrefixOfItself
      <4>3. \A e \in Databases : db[e] \in Database
        BY DEF LifeInv, Types
      <4>4. NothingLost
        BY <3>3, <4>1, <4>2, <4>3 DEF NothingLost, Wrote, Database
      <4> QED BY <3>1, <3>3, <4>4 DEF Wrote, PathsKept
    <3> QED BY <3>1, <3>2, <3>3
  <2>4. CASE ReadEvents(r)
    BY <2>4, ReadEventsKept, HistoriesSame DEF PathsKept
  <2>5. CASE CommitRebuild(r)
    BY <2>5, CommitRebuildKept, HistoriesSame DEF PathsKept
  <2> QED BY <1>7, <2>1, <2>2, <2>3, <2>4, <2>5
<1> HIDE DEF Goal
<1> QED BY <1>1, <1>2, <1>3, <1>4, <1>5, <1>6, <1>7, StepCases

\* The invariant holds always.
LEMMA LifeInvariant == Spec => []LifeInv
<1>1. LifeInv /\ [Next]_vars => LifeInv'
  BY StepKept
<1> QED BY LifeInit, <1>1, PTL DEF Spec

\* No run of Migrate, of nexus-migrate or of a restore, ever finds that another
\* has applied its next migration, and every database has the history of a build
\* or a prefix of one: the advisory lock is held from the reading of the history
\* to the last migration, and a restore writes only where there is no history.
THEOREM SerialTheorem == Spec => []MigrationsAreSerial
<1>1. LifeInv => MigrationsAreSerial
  <2> SUFFICES ASSUME LifeInv PROVE MigrationsAreSerial
    OBVIOUS
  <2>1. \A p \in Runners : runner[p].at # "collided"
    BY DEF LifeInv, RunnerOK
  <2>2. \A d \in Databases : db[d].history \in Histories \cup {None}
    BY DEF LifeInv, Types, Database
  <2> QED BY <2>1, <2>2, HistoryFacts DEF MigrationsAreSerial
<1> QED BY LifeInvariant, <1>1, PTL

\* Whatever runs against a database, no applied migration and no fact of it is lost.
THEOREM OverwriteTheorem == Spec => NothingIsOverwritten
<1>1. LifeInv /\ [Next]_vars => [NothingLost]_vars
  BY StepKept
<1> QED BY LifeInvariant, <1>1, PTL DEF Spec, NothingIsOverwritten, NothingLost

\* What appears under the name of a backup is whole and is never replaced.
THEOREM PublishedTheorem == Spec => PublishedIsWhole
<1>1. LifeInv /\ [Next]_vars => [PathsKept]_vars
  BY StepKept
<1> QED BY LifeInvariant, <1>1, PTL DEF Spec, PublishedIsWhole, PathsKept

-----------------------------------------------------------------------------
(* The projection: a rebuild that has read the events will not miss one, as no  *)
(* transaction that has inserted its row is under way while it holds the table. *)

Pending(d) == \E r \in Restores : restore[r].wrote /\ restore[r].on = d /\ restore[r].at # "completed"

RowsOK(d) == db[d].activity = Projected(db[d].facts) \/ Pending(d)
ReadOK(r) == restore[r].at = "read" => restore[r].events = Projected(db[restore[r].on].facts)
TableOK(d) == Rebuilding(d) => ~Projecting(d)

ActivityInv ==
    /\ \A d \in Databases : RowsOK(d)
    /\ \A r \in Restores : ReadOK(r)
    /\ \A d \in Databases : TableOK(d)

\* At first there is neither an event nor a row.
LEMMA ActivityInit == Init => ActivityInv
BY DEF Init, ActivityInv, RowsOK, ReadOK, TableOK, Rebuilding, Projected, Rows

\* A step that changes neither a fact, nor a row, nor a restore, nor a writer.
LEMMA ActivityStays ==
    ASSUME LifeInv, ActivityInv, UNCHANGED <<cast, restore, writer>>,
           \A d \in Databases : db'[d].facts = db[d].facts /\ db'[d].activity = db[d].activity
    PROVE  ActivityInv'
<1>1. \A d \in Databases : RowsOK(d)'
  BY DEF ActivityInv, RowsOK, Pending, Projected
<1>2. \A d \in Databases : TableOK(d)'
  BY DEF ActivityInv, TableOK, Rebuilding, Projecting
<1>3. \A r \in Restores : ReadOK(r)'
  <2> SUFFICES ASSUME NEW r \in Restores, restore[r].at = "read"
               PROVE  restore'[r].events = Projected(db[restore[r].on].facts)'
    BY DEF ReadOK
  <2>1. restore[r].on \in Databases
    BY DEF LifeInv, RestoreOK
  <2> QED BY <2>1 DEF ActivityInv, ReadOK, Projected
<1> QED BY <1>1, <1>2, <1>3 DEF ActivityInv

\* A transaction with a row of its own cannot commit during a rebuild.
LEMMA ActivityBusiness ==
    ASSUME LifeInv, ActivityInv, NEW f \in Facts, BusinessStep(f)
    PROVE  ActivityInv'
<1>1. UNCHANGED <<cast, restore>>
  BY DEF BusinessStep, Write, ProjectActivityDelivery, Commit, Rollback
<1>2. \A d \in Databases : TableOK(d)'
  <2> SUFFICES ASSUME NEW d \in Databases, Rebuilding(d), Projecting(d)' PROVE FALSE
    BY <1>1 DEF TableOK, Rebuilding
  <2>1. ~Projecting(d)
    BY DEF ActivityInv, TableOK
  <2>2. PICK g \in Facts : writer'[g].at = "projected" /\ writer'[g].on = d
    BY DEF Projecting
  <2>3. ~(writer[g].at = "projected" /\ writer[g].on = d)
    BY <2>1 DEF Projecting
  <2>4. CASE \E e \in Databases : Write(f, e)
    BY <2>2, <2>3, <2>4 DEF Write, LifeInv, Types
  <2>5. CASE ProjectActivityDelivery(f)
    <3>1. "projected" \in WriterStates \ {"idle"} /\ writer[f].at # "idle"
          /\ writer' = Moved(writer, f, "projected") /\ ~Rebuilding(writer[f].on)
      BY <2>5 DEF ProjectActivityDelivery, WriterStates
    <3>2. writer'[f].on = writer[f].on /\ \A h \in Facts \ {f} : writer'[h] = writer[h]
      BY <3>1, WriterTypes
    <3> QED BY <2>2, <2>3, <3>1, <3>2
  <2>6. CASE Commit(f) \/ Rollback(f)
    <3>1. PICK at \in {"committed", "rolled back"} : writer' = Moved(writer, f, at)
      BY <2>6 DEF Commit, Rollback
    <3>2. at \in WriterStates \ {"idle"} /\ writer[f].at # "idle"
      BY <2>6 DEF Commit, Rollback, Ready, WriterStates
    <3>3. writer'[f].at = at /\ \A h \in Facts \ {f} : writer'[h] = writer[h]
      BY <3>1, <3>2, WriterTypes
    <3> QED BY <2>2, <2>3, <3>3
  <2> QED BY <2>4, <2>5, <2>6 DEF BusinessStep
<1>3. CASE Commit(f)
  <2> DEFINE d == writer[f].on
  <2>1. /\ d \in Databases
        /\ \A e \in Databases \ {d} : db'[e] = db[e]
        /\ db'[d].facts = db[d].facts \cup {f}
        /\ db'[d].activity = db[d].activity \cup Projected({f})
    BY <1>3, CommitFacts
  <2>3. \A e \in Databases : RowsOK(e)'
    <3> SUFFICES ASSUME NEW e \in Databases PROVE RowsOK(e)'
      OBVIOUS
    <3>1. RowsOK(e)
      BY DEF ActivityInv
    <3>2. CASE e = d
      BY <1>1, <2>1, <3>1, <3>2 DEF RowsOK, Pending, Projected
    <3>3. CASE e # d
      BY <1>1, <2>1, <3>1, <3>3 DEF RowsOK, Pending, Projected
    <3> QED BY <3>2, <3>3
  <2>4. \A r \in Restores : ReadOK(r)'
    <3> SUFFICES ASSUME NEW r \in Restores, restore[r].at = "read"
                 PROVE  restore'[r].events = Projected(db[restore[r].on].facts)'
      BY <1>1 DEF ReadOK
    <3>1. restore[r].on \in Databases /\ restore[r].events = Projected(db[restore[r].on].facts)
      BY DEF LifeInv, RestoreOK, ActivityInv, ReadOK
    <3>2. CASE restore[r].on # d
      BY <1>1, <2>1, <3>1, <3>2 DEF Projected
    <3>3. CASE restore[r].on = d
      <4>1. Rebuilding(d) /\ ~Projecting(d)
        BY <2>1, <3>3 DEF Rebuilding, ActivityInv, TableOK
      <4>2. f \in cast.messages
        BY <1>3, <4>1 DEF Commit, Ready, Projecting
      <4> QED BY <1>1, <2>1, <3>1, <3>3, <4>2 DEF Projected
    <3> QED BY <3>2, <3>3
  <2> QED BY <1>2, <2>3, <2>4 DEF ActivityInv
<1>4. CASE ~Commit(f)
  <2>1. db' = db
    BY <1>4 DEF BusinessStep, Write, ProjectActivityDelivery, Rollback
  <2>2. \A d \in Databases : RowsOK(d)'
    BY <1>1, <2>1 DEF ActivityInv, RowsOK, Pending, Projected
  <2>3. \A r \in Restores : ReadOK(r)'
    BY <1>1, <2>1 DEF ActivityInv, ReadOK, Projected
  <2> QED BY <1>2, <2>2, <2>3 DEF ActivityInv
<1> QED BY <1>3, <1>4

\* A restore that moves on without touching a row: it stays a reason for rows to be
\* missing, and it enters the table only when nobody else is there.
LEMMA ActivityMoves ==
    ASSUME LifeInv, ActivityInv, NEW r \in Restores, UNCHANGED <<cast, db, writer>>,
           \A q \in Restores \ {r} : restore'[q] = restore[q],
           restore[r].at # "completed", restore'[r].at # "completed",
           restore[r].wrote => restore'[r].wrote /\ restore'[r].on = restore[r].on,
           ReadOK(r)',
           restore'[r].at \in {"locked", "read"} =>
               /\ restore'[r].on = restore[r].on
               /\ restore[r].at \in {"locked", "read"} \/ TableFree(restore[r].on)
    PROVE  ActivityInv'
<1>1. \A d \in Databases : Pending(d) => Pending(d)'
  BY DEF Pending
<1>2. \A d \in Databases : RowsOK(d)'
  BY <1>1 DEF ActivityInv, RowsOK, Projected
<1>3. \A q \in Restores : ReadOK(q)'
  BY DEF ActivityInv, ReadOK, Projected
<1>4. \A d \in Databases : TableOK(d)'
  <2> SUFFICES ASSUME NEW d \in Databases, Rebuilding(d)' PROVE ~Projecting(d)
    BY DEF TableOK, Projecting
  <2>1. Rebuilding(d) \/ TableFree(d)
    BY DEF Rebuilding
  <2> QED BY <2>1 DEF ActivityInv, TableOK, TableFree
<1> QED BY <1>2, <1>3, <1>4 DEF ActivityInv

\* The steps of a restore: what it writes is without rows until the rebuild has committed.
LEMMA ActivityRestore ==
    ASSUME LifeInv, ActivityInv, NEW r \in Restores,
           QuietStep(r) \/ InspectStep(r) \/ PgRestore(r) \/ ReadEvents(r) \/ CommitRebuild(r)
    PROVE  ActivityInv'
<1> DEFINE d == restore[r].on
<1>1. ASSUME NEW at \in {"cleared", "refused", "verified", "failed", "locked"}, Outcome(r, at),
             restore[r].at # "completed", at = "locked" => TableFree(restore[r].on)
      PROVE  ActivityInv'
  <2>1. restore' = Moved(restore, r, at) /\ UNCHANGED <<cast, db, writer>> /\ at \in RestoreStates
    BY <1>1 DEF Outcome, RestoreStates
  <2>2. /\ restore'[r].at = at /\ restore'[r].on = restore[r].on /\ restore'[r].wrote = restore[r].wrote
        /\ \A q \in Restores \ {r} : restore'[q] = restore[q]
    BY <2>1, RestoreMoves
  <2>3. ReadOK(r)'
    BY <2>2 DEF ReadOK
  <2> QED BY <1>1, <2>1, <2>2, <2>3, ActivityMoves
<1>2. CASE QuietStep(r)
  <2>1. PICK at \in {"cleared", "refused", "verified", "failed", "locked"} :
            /\ Outcome(r, at)
            /\ restore[r].at \notin {"idle", "completed", "failed", "refused"}
            /\ at = "locked" => TableFree(restore[r].on)
    BY <1>2, QuietSteps DEF QuietStep
  <2> QED BY <1>1, <2>1
<1>3. CASE InspectStep(r)
  <2>1. /\ UNCHANGED <<cast, db, writer>>
        /\ restore[r].at = "idle" /\ restore'[r].at \in {"inspected", "refused"}
        /\ ~restore[r].wrote
        /\ \A q \in Restores \ {r} : restore'[q] = restore[q]
    BY <1>3, InspectKept DEF InspectStep
  <2>2. ReadOK(r)'
    BY <2>1 DEF ReadOK
  <2> QED BY <2>1, <2>2, ActivityMoves
<1>4. CASE PgRestore(r)
  <2>1. CASE Outcome(r, "refused")
    BY <1>1, <1>4, <2>1 DEF PgRestore
  <2>2. CASE Wrote(r)
    <3>1. /\ d \in Databases /\ db[d].history = None /\ UNCHANGED <<cast, writer>>
          /\ restore[r].at = "cleared" /\ restore'[r].at = "written" /\ restore'[r].wrote
          /\ restore'[r].on = d /\ \A q \in Restores \ {r} : restore'[q] = restore[q]
          /\ \A e \in Databases \ {d} : db'[e] = db[e]
      BY <2>2 DEF Wrote
    <3>2. \A e \in Databases : RowsOK(e)'
      <4> SUFFICES ASSUME NEW e \in Databases PROVE RowsOK(e)'
        OBVIOUS
      <4>1. CASE e = d
        BY <3>1, <4>1 DEF RowsOK, Pending
      <4>2. CASE e # d
        <5>1. Pending(e) => Pending(e)'
          BY <3>1, <4>2 DEF Pending
        <5> QED BY <3>1, <4>2, <5>1 DEF ActivityInv, RowsOK, Projected
      <4> QED BY <4>1, <4>2
    <3>3. \A q \in Restores : ReadOK(q)'
      <4> SUFFICES ASSUME NEW q \in Restores, restore'[q].at = "read"
                   PROVE  restore'[q].events = Projected(db[restore[q].on].facts)'
        BY DEF ReadOK
      <4>1. q # r /\ restore'[q] = restore[q]
        BY <3>1
      <4>2. restore[q].on \in Databases /\ db[restore[q].on].history # None
        BY <4>1 DEF LifeInv, RestoreOK
      <4>3. db'[restore[q].on] = db[restore[q].on]
        BY <3>1, <4>2
      <4> QED BY <3>1, <4>1, <4>3 DEF ActivityInv, ReadOK, Projected
    <3>4. \A e \in Databases : TableOK(e)'
      BY <3>1 DEF ActivityInv, TableOK, Rebuilding, Projecting
    <3> QED BY <3>2, <3>3, <3>4 DEF ActivityInv
  <2> QED BY <1>4, <2>1, <2>2, PgRestoreKept
<1>5. CASE ReadEvents(r)
  <2>1. /\ UNCHANGED <<cast, db, writer>>
        /\ restore[r].at = "locked" /\ restore'[r].at = "read"
        /\ restore'[r].on = restore[r].on /\ restore'[r].wrote = restore[r].wrote
        /\ restore'[r].events = Projected(db[restore[r].on].facts)
        /\ \A q \in Restores \ {r} : restore'[q] = restore[q]
    BY <1>5, ReadEventsKept
  <2>2. ReadOK(r)'
    BY <2>1 DEF ReadOK, Projected
  <2> QED BY <2>1, <2>2, ActivityMoves
<1>6. CASE CommitRebuild(r)
  <2>1. /\ UNCHANGED <<cast, writer>> /\ d \in Databases
        /\ restore[r].at = "read" /\ restore'[r].at = "completed" /\ restore'[r].on = d
        /\ \A q \in Restores \ {r} : restore'[q] = restore[q]
        /\ \A e \in Databases : db'[e].facts = db[e].facts
        /\ \A e \in Databases \ {d} : db'[e] = db[e]
        /\ db'[d].activity = restore[r].events
    BY <1>6, CommitRebuildKept
  <2>2. \A e \in Databases : RowsOK(e)'
    <3> SUFFICES ASSUME NEW e \in Databases PROVE RowsOK(e)'
      OBVIOUS
    <3>1. CASE e = d
      BY <2>1, <3>1 DEF ActivityInv, ReadOK, RowsOK, Projected
    <3>2. CASE e # d
      <4>1. Pending(e) => Pending(e)'
        BY <2>1, <3>2 DEF Pending
      <4> QED BY <2>1, <3>2, <4>1 DEF ActivityInv, RowsOK, Projected
    <3> QED BY <3>1, <3>2
  <2>3. \A q \in Restores : ReadOK(q)'
    <3> SUFFICES ASSUME NEW q \in Restores, restore'[q].at = "read"
                 PROVE  restore'[q].events = Projected(db[restore[q].on].facts)'
      BY DEF ReadOK
    <3>1. q # r /\ restore'[q] = restore[q] /\ restore[q].on \in Databases
      BY <2>1 DEF LifeInv, RestoreOK
    <3> QED BY <2>1, <3>1 DEF ActivityInv, ReadOK, Projected
  <2>4. \A e \in Databases : TableOK(e)'
    BY <2>1 DEF ActivityInv, TableOK, Rebuilding, Projecting
  <2> QED BY <2>2, <2>3, <2>4 DEF ActivityInv
<1> QED BY <1>2, <1>3, <1>4, <1>5, <1>6

\* Every step keeps the invariant of the projection.
LEMMA ActivityKept ==
    ASSUME LifeInv, ActivityInv, [Next]_vars
    PROVE  ActivityInv'
<1>1. CASE UNCHANGED vars
  BY <1>1, ActivityStays DEF vars
<1>2. ASSUME NEW d \in Databases, OpenSession(d) PROVE ActivityInv'
  BY <1>2, OpenSessionKept, ActivityStays DEF OpenSession
<1>3. ASSUME NEW p \in Runners, MigrateStep(p) PROVE ActivityInv'
  BY <1>3, MigrateStepKept, ActivityStays DEF Migrated
<1>4. ASSUME NEW b \in Backups, NexusBackupStep(b) PROVE ActivityInv'
  BY <1>4, NexusBackupStepKept, ActivityStays
<1>5. ASSUME NEW path \in Paths, Decay(path) PROVE ActivityInv'
  BY <1>5, ActivityStays DEF Decay
<1> QED BY <1>1, <1>2, <1>3, <1>4, <1>5, ActivityBusiness, ActivityRestore, StepCases

\* The Activity of a database is the projection of its events, whatever commits
\* while it is rebuilt: what a rebuild has read stays all there is until it commits.
THEOREM ProjectionTheorem == Spec => []ActivityIsProjection
<1>1. LifeInv /\ ActivityInv /\ [Next]_vars => ActivityInv'
  BY ActivityKept
<1>2. ActivityInv => ActivityIsProjection
  BY DEF ActivityInv, RowsOK, Pending, Projected, ActivityIsProjection
<1> QED BY LifeInvariant, ActivityInit, <1>1, <1>2, PTL DEF Spec

-----------------------------------------------------------------------------
(* The restore list *)

\* The line for the registry's rows stands where it is first met.
LEMMA PositionFacts ==
    ASSUME NEW contents, NEW line, NEW i \in 1..Len(contents), Len(contents) \in Nat,
           contents[i] = line, \A j \in 1..Len(contents) : contents[j] = line => i <= j
    PROVE  Position(line, contents) = i
<1> DEFINE I == {j \in 1..Len(contents) : contents[j] = line}
<1>1. i \in I /\ (\A j \in I : i <= j) /\ I \subseteq Nat
  OBVIOUS
<1>2. Position(line, contents) = Min(I)
  BY <1>1 DEF Position, SelectInSeq
<1> HIDE DEF I
<1>3. Min(I) \in I /\ \A j \in I : Min(I) <= j
  BY <1>1 DEF Min
<1>4. i <= Min(I) /\ Min(I) <= i /\ i \in Nat /\ Min(I) \in Nat
  BY <1>1, <1>3
<1> HIDE DEF Min
<1>5. Min(I) = i
  BY <1>4
<1> QED BY <1>2, <1>5

\* The same for the first line of any table's rows.
LEMMA FirstTableDataFacts ==
    ASSUME NEW contents, NEW i \in 1..Len(contents), Len(contents) \in Nat,
           contents[i] \in TableData, \A j \in 1..Len(contents) : contents[j] \in TableData => i <= j
    PROVE  FirstTableData(contents) = i
<1> DEFINE I == {j \in 1..Len(contents) : contents[j] \in TableData}
<1>1. i \in I /\ (\A j \in I : i <= j) /\ I \subseteq Nat
  OBVIOUS
<1>2. FirstTableData(contents) = Min(I)
  BY <1>1 DEF FirstTableData, SelectInSeq
<1> HIDE DEF I
<1>3. Min(I) \in I /\ \A j \in I : Min(I) <= j
  BY <1>1 DEF Min
<1>4. i <= Min(I) /\ Min(I) <= i /\ i \in Nat /\ Min(I) \in Nat
  BY <1>1, <1>3
<1> HIDE DEF Min
<1>5. Min(I) = i
  BY <1>4
<1> QED BY <1>2, <1>5

\* Taking an element out, index by index.
LEMMA RemoveAtFacts ==
    ASSUME NEW S, NEW s \in Seq(S), NEW p \in 1..Len(s)
    PROVE  /\ RemoveAt(s, p) \in Seq(S) /\ Len(RemoveAt(s, p)) = Len(s) - 1
           /\ \A i \in 1..(Len(s) - 1) :
                  RemoveAt(s, p)[i] = IF i < p THEN s[i] ELSE s[i + 1]
<1> DEFINE a == SubSeq(s, 1, p - 1)
           b == SubSeq(s, p + 1, Len(s))
<1>1. /\ a \in Seq(S) /\ Len(a) = p - 1 /\ \A i \in 1..(p - 1) : a[i] = s[i]
      /\ b \in Seq(S) /\ Len(b) = Len(s) - p /\ \A i \in 1..(Len(s) - p) : b[i] = s[p + i]
  OBVIOUS
<1>2. RemoveAt(s, p) = a \o b
  BY DEF RemoveAt
<1> HIDE DEF a, b
<1>6. /\ a \o b \in Seq(S) /\ Len(a \o b) = Len(a) + Len(b)
      /\ \A i \in 1..(Len(a) + Len(b)) :
             (a \o b)[i] = IF i <= Len(a) THEN a[i] ELSE b[i - Len(a)]
  BY <1>1, ConcatProperties
<1>3. a \o b \in Seq(S) /\ Len(a \o b) = Len(s) - 1
  BY <1>1, <1>6
<1>4. \A i \in 1..(Len(s) - 1) : (a \o b)[i] = IF i < p THEN a[i] ELSE b[i - (p - 1)]
  <2>1. Len(a) = p - 1 /\ Len(a) + Len(b) = Len(s) - 1
    BY <1>1
  <2> QED BY <1>6, <2>1
<1>5. ASSUME NEW i \in 1..(Len(s) - 1)
      PROVE  (a \o b)[i] = IF i < p THEN s[i] ELSE s[i + 1]
  <2>1. i >= p => b[i - (p - 1)] = s[i + 1]
    <3> SUFFICES ASSUME i >= p PROVE b[i - (p - 1)] = s[i + 1]
      OBVIOUS
    <3>1. i - (p - 1) \in 1..(Len(s) - p) /\ p + (i - (p - 1)) = i + 1
      OBVIOUS
    <3> QED BY <1>1, <3>1
  <2> QED BY <1>1, <1>4, <2>1
<1> QED BY <1>2, <1>3, <1>5

\* Putting one in.
LEMMA InsertAtFacts ==
    ASSUME NEW S, NEW s \in Seq(S), NEW e \in S, NEW p \in 1..(Len(s) + 1)
    PROVE  /\ InsertAt(s, p, e) \in Seq(S) /\ Len(InsertAt(s, p, e)) = Len(s) + 1
           /\ \A i \in 1..(Len(s) + 1) :
                  InsertAt(s, p, e)[i] = IF i < p THEN s[i] ELSE IF i = p THEN e ELSE s[i - 1]
<1> DEFINE a == SubSeq(s, 1, p - 1)
           b == SubSeq(s, p, Len(s))
<1>1. /\ a \in Seq(S) /\ Len(a) = p - 1 /\ \A i \in 1..(p - 1) : a[i] = s[i]
      /\ b \in Seq(S) /\ Len(b) = Len(s) - p + 1
      /\ \A i \in 1..(Len(s) - p + 1) : b[i] = s[p + i - 1]
  OBVIOUS
<1>2. InsertAt(s, p, e) = (a \o <<e>>) \o b
  BY DEF InsertAt
<1> HIDE DEF a, b
<1> DEFINE c == <<e>>
<1>7. c \in Seq(S) /\ Len(c) = 1 /\ c[1] = e
  OBVIOUS
<1> HIDE DEF c
<1>8. /\ a \o c \in Seq(S) /\ Len(a \o c) = Len(a) + Len(c)
      /\ \A i \in 1..(Len(a) + Len(c)) :
             (a \o c)[i] = IF i <= Len(a) THEN a[i] ELSE c[i - Len(a)]
  BY <1>1, <1>7, ConcatProperties
<1>3. /\ a \o c \in Seq(S) /\ Len(a \o c) = p
      /\ \A i \in 1..p : (a \o c)[i] = IF i < p THEN s[i] ELSE e
  <2>1. Len(a) + Len(c) = p /\ \A i \in 1..p : i <= Len(a) <=> i < p
    BY <1>1, <1>7
  <2>2. p - Len(a) = 1
    BY <1>1
  <2> QED BY <1>1, <1>7, <1>8, <2>1, <2>2
<1> DEFINE ac == a \o c
<1> HIDE DEF ac
<1>9. /\ ac \o b \in Seq(S) /\ Len(ac \o b) = Len(ac) + Len(b)
      /\ \A i \in 1..(Len(ac) + Len(b)) :
             (ac \o b)[i] = IF i <= Len(ac) THEN ac[i] ELSE b[i - Len(ac)]
  BY <1>1, <1>3, ConcatProperties DEF ac
<1>4. /\ ac \o b \in Seq(S) /\ Len(ac \o b) = Len(s) + 1
      /\ \A i \in 1..(Len(s) + 1) :
             (ac \o b)[i] = IF i <= p THEN ac[i] ELSE b[i - p]
  <2>1. Len(ac) = p /\ Len(ac) + Len(b) = Len(s) + 1
    BY <1>1, <1>3 DEF ac
  <2> QED BY <1>9, <2>1
<1>5. ASSUME NEW i \in 1..(Len(s) + 1), i > p
      PROVE  b[i - p] = s[i - 1]
  <2>1. i - p \in 1..(Len(s) - p + 1) /\ p + (i - p) - 1 = i - 1
    BY <1>5
  <2> QED BY <1>1, <2>1
<1>6. \A i \in 1..(Len(s) + 1) : (ac \o b)[i] = IF i < p THEN s[i] ELSE IF i = p THEN e ELSE s[i - 1]
  BY <1>3, <1>4, <1>5 DEF ac
<1> QED BY <1>2, <1>4, <1>6 DEF c, ac

\* For every archive that can be restored: with the registry's line cut out and put
\* back before the first rows, they come first, and no other line moves.
LEMMA RestoreListFacts ==
    ASSUME NEW contents \in Seq(Lines), Restorable(contents)
    PROVE  /\ RegistryFirst(BuildRestoreList(contents))
           /\ Others(BuildRestoreList(contents)) = Others(contents)
<1> DEFINE n == Len(contents)
           R == {i \in 1..n : contents[i] = "registry"}
           T == {i \in 1..n : contents[i] \in TableData}
<1>0. n \in Nat /\ DOMAIN contents = 1..n
  OBVIOUS
<1>1. PICK p : R = {p}
  <2>1. IsFiniteSet(1..n)
    BY <1>0, FS_Interval
  <2>2. IsFiniteSet(R) /\ R \subseteq 1..n
    BY <2>1, FS_Subset
  <2>3. Cardinality(R) = 1
    BY <1>0 DEF Restorable
  <2> HIDE DEF R
  <2> QED BY <2>2, <2>3, FS_Singleton
<1>2. p \in 1..n /\ contents[p] = "registry" /\ \A j \in 1..n : contents[j] = "registry" => j = p
  BY <1>1
<1>3. PICK f \in T : \A j \in T : f <= j
  <2>1. T \subseteq Nat /\ p \in T
    BY <1>2 DEF TableData
  <2> HIDE DEF T
  <2> QED BY <2>1, Least
<1>4. f \in 1..p /\ \A j \in 1..(f - 1) : contents[j] \notin TableData
  BY <1>0, <1>2, <1>3 DEF TableData
<1>5. Position("registry", contents) = p
  BY <1>0, <1>2, PositionFacts
<1>6. FirstTableData(contents) = f
  BY <1>0, <1>3, FirstTableDataFacts
<1> DEFINE rest == RemoveAt(contents, p)
           list == InsertAt(rest, f, "registry")
<1>7. BuildRestoreList(contents) = list /\ Others(contents) = rest
  BY <1>5, <1>6 DEF BuildRestoreList, Others
<1>8. /\ rest \in Seq(Lines) /\ Len(rest) = n - 1
      /\ \A i \in 1..(n - 1) : rest[i] = IF i < p THEN contents[i] ELSE contents[i + 1]
  BY <1>2, RemoveAtFacts
<1> HIDE DEF rest
<1>9. f \in 1..(Len(rest) + 1) /\ "registry" \in Lines
  BY <1>0, <1>2, <1>4, <1>8 DEF Lines
<1>10. /\ list \in Seq(Lines) /\ Len(list) = n
       /\ \A i \in 1..n : list[i] = IF i < f THEN rest[i] ELSE IF i = f THEN "registry" ELSE rest[i - 1]
  <2>1. Len(rest) + 1 = n
    BY <1>0, <1>8
  <2> QED BY <1>8, <1>9, <2>1, InsertAtFacts
<1> HIDE DEF list
<1>11. f \in 1..n /\ list[f] = "registry" /\ \A j \in 1..(f - 1) : list[j] \notin TableData
  <2>1. f \in 1..n /\ list[f] = "registry"
    BY <1>3, <1>10
  <2>2. ASSUME NEW j \in 1..(f - 1) PROVE list[j] \notin TableData
    <3>1. j \in 1..n /\ j < f /\ j < p /\ j \in 1..(n - 1)
      BY <1>0, <1>2, <1>4, <2>1
    <3>2. list[j] = contents[j]
      BY <1>8, <1>10, <3>1
    <3> QED BY <1>4, <3>2
  <2> QED BY <2>1, <2>2
<1>12. Position("registry", list) = f /\ FirstTableData(list) = f
  <2>1. \A j \in 1..n : list[j] \in TableData => f <= j
    BY <1>0, <1>11
  <2>2. list[f] \in TableData /\ \A j \in 1..n : list[j] = "registry" => list[j] \in TableData
    BY <1>11 DEF TableData
  <2> QED BY <1>0, <1>10, <1>11, <2>1, <2>2, PositionFacts, FirstTableDataFacts
<1> DEFINE back == RemoveAt(list, f)
<1>13. /\ back \in Seq(Lines) /\ Len(back) = n - 1
       /\ \A i \in 1..(n - 1) : back[i] = IF i < f THEN list[i] ELSE list[i + 1]
  BY <1>10, <1>11, RemoveAtFacts
<1>14. Others(list) = back
  BY <1>12 DEF Others
<1> HIDE DEF back
<1>15. ASSUME NEW i \in 1..(n - 1) PROVE back[i] = rest[i]
  <2>1. i \in 1..n /\ i + 1 \in 1..n /\ (i + 1) - 1 = i /\ f \in Nat
    BY <1>0, <1>11
  <2>2. CASE i < f
    BY <1>10, <1>13, <2>1, <2>2
  <2>3. CASE ~(i < f)
    <3>1. ~(i + 1 < f) /\ i + 1 # f
      BY <2>1, <2>3
    <3> QED BY <1>10, <1>13, <2>1, <2>3, <3>1
  <2> QED BY <2>2, <2>3
<1>16. back = rest
  BY <1>0, <1>8, <1>13, <1>15, SeqEqual
<1> QED BY <1>7, <1>12, <1>14, <1>16 DEF RegistryFirst

-----------------------------------------------------------------------------
(* One moment: what a dump holds Source held at some time, from pg_dump through *)
(* the digest to pg_restore, and nobody else's events get mixed into it.        *)

\* The events in force; no other occurs in a database.
Committed == {f \in Facts : writer[f].at = "committed"}

PastOK == db[Source].facts \in past /\ \A held \in past : held \subseteq Committed

DatabaseOK(d) ==
    /\ db[d].facts \subseteq Committed
    /\ db[d].activity \subseteq db[d].facts
    /\ db[d].sessions \subseteq {d}
    /\ db[d].history = None => Local(d) = {}

DirectoryOK(x) ==
    disk[x] # None /\ disk[x].manifest # None => disk[x].manifest.digest.facts \in past

DumpedOK(b) == backup[b].at = "dumped" => disk[b].dump.facts \in past

\* What a restore has compared with its digest does not decay while it is read.
ReadingOK(r) ==
    restore[r].at \in {"inspected", "cleared"} =>
        disk[restore[r].from] = None \/ disk[restore[r].from].dump.facts \in past

ListOK(r) ==
    restore[r].list # None => /\ Restorable(cast.contents)
                              /\ restore[r].list = BuildRestoreList(cast.contents)

TargetOK(r) ==
    /\ restore[r].wrote => db[restore[r].on].history # None
    /\ restore[r].wrote => db[restore[r].on].facts \ Local(restore[r].on) \in past
    /\ restore[r].at \in {"verified", "locked", "read", "completed"} =>
           IsPrefix(cast.build[r], db[restore[r].on].history)
    /\ restore[r].at = "read" => restore[r].events \subseteq db[restore[r].on].facts

MomentInv ==
    /\ PastOK
    /\ \A d \in Databases : DatabaseOK(d)
    /\ \A x \in Paths \cup Backups : DirectoryOK(x)
    /\ \A b \in Backups : DumpedOK(b)
    /\ \A r \in Restores : ReadingOK(r) /\ ListOK(r) /\ TargetOK(r)

\* At first nothing has happened, and Source held nothing.
LEMMA MomentInit == Init => MomentInv
<1> SUFFICES ASSUME Init PROVE MomentInv
  OBVIOUS
<1>1. Source \in Databases
  BY BackupRestoreAssumption
<1>2. \A d \in Databases : DatabaseOK(d)
  BY BackupRestoreAssumption DEF Init, DatabaseOK, Rows, Local
<1>3. PastOK
  BY <1>1 DEF Init, PastOK, Rows
<1>4. (\A x \in Paths \cup Backups : DirectoryOK(x)) /\ \A b \in Backups : DumpedOK(b)
  BY DEF Init, DirectoryOK, DumpedOK
<1>5. \A r \in Restores : ReadingOK(r) /\ ListOK(r) /\ TargetOK(r)
  BY DEF Init, ReadingOK, ListOK, TargetOK
<1> QED BY <1>2, <1>3, <1>4, <1>5 DEF MomentInv

\* A history that extends one that extends a build extends the build.
LEMMA PrefixOfPrefix ==
    ASSUME NEW g \in Seq(Checksums), NEW h \in Seq(Checksums), NEW k \in Seq(Checksums),
           IsPrefix(g, h), IsPrefix(h, k)
    PROVE  IsPrefix(g, k)
<1> HIDE DEF Checksums
<1>1. Len(g) <= Len(h) /\ Len(h) <= Len(k) /\ Len(g) \in Nat /\ Len(h) \in Nat /\ Len(k) \in Nat
  BY DEF IsPrefix
<1>2. /\ SubSeq(g, 1, Len(g)) \in Seq(Checksums) /\ Len(SubSeq(g, 1, Len(g))) = Len(g)
      /\ SubSeq(k, 1, Len(g)) \in Seq(Checksums) /\ Len(SubSeq(k, 1, Len(g))) = Len(g)
  BY <1>1
<1>3. ASSUME NEW i \in 1..Len(g) PROVE SubSeq(g, 1, Len(g))[i] = SubSeq(k, 1, Len(g))[i]
  <2>1. i \in 1..Len(h)
    BY <1>1
  <2>2. SubSeq(g, 1, Len(g))[i] = SubSeq(h, 1, Len(g))[i]
    BY DEF IsPrefix
  <2>3. SubSeq(h, 1, Len(h))[i] = SubSeq(k, 1, Len(h))[i]
    BY DEF IsPrefix
  <2>4. SubSeq(h, 1, Len(g))[i] = h[i] /\ SubSeq(h, 1, Len(h))[i] = h[i]
    BY <1>1, <2>1
  <2>5. SubSeq(k, 1, Len(g))[i] = k[i] /\ SubSeq(k, 1, Len(h))[i] = k[i]
    BY <1>1, <2>1
  <2> QED BY <2>2, <2>3, <2>4, <2>5
<1>4. SubSeq(g, 1, Len(g)) = SubSeq(k, 1, Len(g))
  BY <1>2, <1>3, SeqEqual
<1> QED BY <1>1, <1>4 DEF IsPrefix

\* What is on disk and who reads it, for steps that leave both alone.
LEMMA DiskSame ==
    ASSUME MomentInv, UNCHANGED <<disk, backup>>, past \subseteq past'
    PROVE  /\ \A x \in Paths \cup Backups : DirectoryOK(x)'
           /\ \A b \in Backups : DumpedOK(b)'
           /\ \A r \in Restores : /\ restore'[r].at \in {"inspected", "cleared"} =>
                                       /\ restore[r].at \in {"inspected", "cleared"}
                                       /\ restore'[r].from = restore[r].from
                                  => ReadingOK(r)'
<1>1. \A x \in Paths \cup Backups : DirectoryOK(x)'
  BY DEF MomentInv, DirectoryOK
<1>2. \A b \in Backups : DumpedOK(b)'
  BY DEF MomentInv, DumpedOK
<1> QED BY <1>1, <1>2 DEF MomentInv, ReadingOK

\* Restores that do not move, while the databases only grow.
LEMMA TargetsSame ==
    ASSUME LifeInv, MomentInv, LifeInv', NEW r \in Restores,
           restore'[r] = restore[r], UNCHANGED cast, past \subseteq past',
           \A d \in Databases : db[d].history # None =>
               /\ db'[d].history # None /\ IsPrefix(db[d].history, db'[d].history)
               /\ db'[d].facts \ Local(d)' = db[d].facts \ Local(d)
               /\ db[d].facts \subseteq db'[d].facts
    PROVE  TargetOK(r)' /\ ListOK(r)'
<1> DEFINE d == restore[r].on
<1>1. TargetOK(r) /\ ListOK(r) /\ RestoreOK(r)
  BY DEF MomentInv, LifeInv
<1>2. ListOK(r)'
  <2>1. restore'[r].list = restore[r].list /\ cast' = cast
    OBVIOUS
  <2>2. ListOK(r)' <=> (restore'[r].list # None =>
                            /\ Restorable(cast.contents)
                            /\ restore'[r].list = BuildRestoreList(cast.contents))
    BY <2>1 DEF ListOK, Restorable, BuildRestoreList
  <2>3. restore'[r].list # None => /\ Restorable(cast.contents)
                                   /\ restore'[r].list = BuildRestoreList(cast.contents)
    BY <1>1, <2>1 DEF ListOK
  <2> QED BY <2>2, <2>3
<1>3. CASE ~restore[r].wrote
  BY <1>1, <1>2, <1>3 DEF TargetOK, RestoreOK
<1>4. CASE restore[r].wrote
  <2>1. d \in Databases /\ db[d].history # None
    BY <1>1, <1>4 DEF RestoreOK, TargetOK
  <2>2. IsPrefix(db[d].history, db'[d].history)
    BY <2>1
  <2>3. d' = d /\ d = restore[r].on
    OBVIOUS
  <2>4. db[d].history \in Seq(Checksums) /\ db'[d].history \in Histories \cup {None}
    BY <2>1, HistoryFacts DEF LifeInv, Types, Database
  <2>5. db'[d].history # None
    BY <2>1
  <2>6. db'[d].history \in Seq(Checksums) /\ cast.build[r] \in Seq(Checksums)
    BY <2>4, <2>5, HistoryFacts, CastFacts DEF LifeInv, Processes, Runners
  <2>7. IsPrefix(cast.build[r], db[d].history) => IsPrefix(cast.build[r], db'[d].history)
    BY <2>2, <2>4, <2>6, PrefixOfPrefix
  <2>8. db'[d].facts \ Local(d)' \in past' /\ db[d].facts \subseteq db'[d].facts
    BY <1>1, <1>4, <2>1 DEF TargetOK
  <2> HIDE DEF d
  <2> QED BY <1>1, <1>2, <2>3, <2>5, <2>7, <2>8 DEF TargetOK
<1> QED BY <1>2, <1>3, <1>4

\* The business transactions: an event gets into force once, in one database.
LEMMA MomentBusiness ==
    ASSUME LifeInv, MomentInv, NEW f \in Facts, BusinessStep(f), LifeInv'
    PROVE  MomentInv'
<1>1. UNCHANGED <<cast, restore, disk, backup>> /\ writer \in [Facts -> WriterRecord]
  BY DEF BusinessStep, Write, ProjectActivityDelivery, Commit, Rollback, LifeInv, Types
<1>2. ASSUME \A d \in Databases : DatabaseOK(d)', PastOK', past \subseteq past',
             \A d \in Databases : db[d].history # None =>
               /\ db'[d].history = db[d].history
               /\ db'[d].facts \ Local(d)' = db[d].facts \ Local(d)
               /\ db[d].facts \subseteq db'[d].facts
      PROVE  MomentInv'
  <2>1. \A d \in Databases : db[d].history # None => IsPrefix(db[d].history, db'[d].history)
    BY <1>2, HistoryFacts, PrefixOfItself DEF LifeInv, Types, Database
  <2>2. \A r \in Restores : TargetOK(r)' /\ ListOK(r)'
    BY <1>1, <1>2, <2>1, TargetsSame
  <2>3. /\ \A x \in Paths \cup Backups : DirectoryOK(x)'
        /\ \A b \in Backups : DumpedOK(b)'
        /\ \A r \in Restores : ReadingOK(r)'
    BY <1>1, <1>2, DiskSame
  <2> QED BY <1>2, <2>2, <2>3 DEF MomentInv
<1>3. CASE Commit(f)
  <2> DEFINE d == writer[f].on
  <2>1. /\ d \in Databases
        /\ \A e \in Databases \ {d} : db'[e] = db[e]
        /\ db'[d].history = db[d].history
        /\ db'[d].facts = db[d].facts \cup {f}
        /\ db'[d].activity = db[d].activity \cup Projected({f})
        /\ db'[d].sessions = db[d].sessions
    BY <1>3, CommitFacts
  <2>2. past' = past \cup {db'[Source].facts}
    BY <1>3 DEF Commit
  <2>3. "committed" \in WriterStates \ {"idle"} /\ writer[f].at # "idle"
        /\ writer' = Moved(writer, f, "committed")
    BY <1>3 DEF Commit, Ready, WriterStates
  <2>4. /\ writer'[f].at = "committed" /\ writer'[f].on = d
        /\ \A g \in Facts \ {f} : writer'[g] = writer[g]
    BY <2>3, WriterTypes
  <2> HIDE DEF d
  <2>5. Committed' = Committed \cup {f} /\ f \in Local(d) /\ \A e \in Databases : Local(e)' = Local(e)
    <3>1. f \in Local(d)
      BY DEF Local, d
    <3>2. Committed' = Committed \cup {f}
      BY <2>4 DEF Committed
    <3>3. \A g \in Facts : writer'[g].on = writer[g].on
      BY <2>4 DEF d
    <3> QED BY <3>1, <3>2, <3>3 DEF Local
  <2>6. \A e \in Databases : DatabaseOK(e)'
    <3> SUFFICES ASSUME NEW e \in Databases PROVE DatabaseOK(e)'
      OBVIOUS
    <3>1. DatabaseOK(e)
      BY DEF MomentInv
    <3>2. CASE e = d
      BY <2>1, <2>5, <3>1, <3>2 DEF DatabaseOK, Projected
    <3>3. CASE e # d
      BY <2>1, <2>5, <3>1, <3>3 DEF DatabaseOK
    <3> QED BY <3>2, <3>3
  <2>7. PastOK'
    <3>1. Source \in Databases
      BY BackupRestoreAssumption
    <3>2. db'[Source].facts \subseteq Committed'
      BY <2>6, <3>1 DEF DatabaseOK
    <3> QED BY <2>2, <2>5, <3>2 DEF MomentInv, PastOK
  <2>8. \A e \in Databases : /\ db'[e].history = db[e].history
                             /\ db'[e].facts \ Local(e)' = db[e].facts \ Local(e)
                             /\ db[e].facts \subseteq db'[e].facts
    BY <2>1, <2>5
  <2> QED BY <1>2, <2>2, <2>6, <2>7, <2>8
<1>4. CASE \E d \in Databases : Write(f, d)
  <2>1. PICK d \in Databases : Write(f, d)
    BY <1>4
  <2>2. /\ writer[f].at = "idle" /\ Schema(d) /\ UNCHANGED <<db, past>>
        /\ writer' = [writer EXCEPT ![f] = [at |-> "wrote", on |-> d]]
    BY <2>1 DEF Write
  <2>3. Committed' = Committed /\ f \notin Committed
    BY <1>1, <2>2 DEF Committed
  <2>4. \A e \in Databases : Local(e)' \cup {f} = Local(e) \cup {f}
    BY <1>1, <2>2 DEF Local
  <2>5. \A e \in Databases \ {d} : Local(e)' \subseteq Local(e)
    BY <1>1, <2>2 DEF Local
  <2>6. db[d].history # None
    BY <2>2 DEF Schema
  <2>7. \A e \in Databases : DatabaseOK(e) /\ f \notin db[e].facts
    BY <2>3 DEF MomentInv, DatabaseOK
  <2>8. \A e \in Databases : DatabaseOK(e)'
    BY <2>2, <2>3, <2>5, <2>6, <2>7 DEF DatabaseOK
  <2>9. PastOK'
    BY <2>2, <2>3 DEF MomentInv, PastOK
  <2>10. \A e \in Databases : db'[e].facts \ Local(e)' = db[e].facts \ Local(e)
    BY <2>2, <2>4, <2>7
  <2> QED BY <1>2, <2>2, <2>8, <2>9, <2>10
<1>5. CASE ProjectActivityDelivery(f) \/ Rollback(f)
  <2>1. PICK at \in {"projected", "rolled back"} : writer' = Moved(writer, f, at)
    BY <1>5 DEF ProjectActivityDelivery, Rollback
  <2>2. at \in WriterStates \ {"idle"} /\ writer[f].at \notin {"idle", "committed"} /\ at # "committed"
    BY <1>5 DEF ProjectActivityDelivery, Rollback, WriterStates
  <2>3. /\ writer'[f].at = at /\ writer'[f].on = writer[f].on
        /\ \A g \in Facts \ {f} : writer'[g] = writer[g]
    BY <2>1, <2>2, WriterTypes
  <2>4. UNCHANGED <<db, past>>
    BY <1>5 DEF ProjectActivityDelivery, Rollback
  <2>5. Committed' = Committed
    BY <2>2, <2>3 DEF Committed
  <2>6. \A e \in Databases : Local(e)' = Local(e)
    <3>1. \A g \in Facts : writer'[g].on = writer[g].on
      BY <2>3
    <3> QED BY <3>1 DEF Local
  <2>7. (\A e \in Databases : DatabaseOK(e)') /\ PastOK'
    BY <2>4, <2>5, <2>6 DEF MomentInv, DatabaseOK, PastOK
  <2> QED BY <1>2, <2>4, <2>6, <2>7
<1> QED BY <1>3, <1>4, <1>5 DEF BusinessStep

\* The steps of Migrate and new Sessions leave events and directories alone.
LEMMA MomentQuiet ==
    ASSUME LifeInv, MomentInv, LifeInv',
           UNCHANGED <<cast, restore, disk, backup, writer, past>>,
           \A d \in Databases :
               /\ db'[d].facts = db[d].facts /\ db'[d].activity = db[d].activity
               /\ db'[d].sessions \subseteq {d}
               /\ db[d].history # None => /\ db'[d].history # None
                                          /\ IsPrefix(db[d].history, db'[d].history)
    PROVE  MomentInv'
<1>1. Committed' = Committed /\ \A d \in Databases : Local(d)' = Local(d)
  BY DEF Committed, Local
<1>2. \A d \in Databases : DatabaseOK(d)'
  BY <1>1 DEF MomentInv, DatabaseOK
<1>3. PastOK'
  BY <1>1, BackupRestoreAssumption DEF MomentInv, PastOK
<1>4. \A r \in Restores : TargetOK(r)' /\ ListOK(r)'
  BY <1>1, TargetsSame
<1>5. /\ \A x \in Paths \cup Backups : DirectoryOK(x)'
      /\ \A b \in Backups : DumpedOK(b)'
      /\ \A r \in Restores : ReadingOK(r)'
  BY DiskSame
<1> QED BY <1>2, <1>3, <1>4, <1>5 DEF MomentInv

\* Steps that touch directories only: what may be read keeps what it holds or goes.
LEMMA MomentDisk ==
    ASSUME LifeInv, MomentInv, LifeInv', UNCHANGED <<cast, db, restore, writer, past>>,
           \A x \in Paths \cup Backups : DirectoryOK(x)',
           \A b \in Backups : DumpedOK(b)',
           \A r \in Restores : restore[r].at \in {"inspected", "cleared"} =>
               LET x == restore[r].from
               IN  \/ disk'[x] = disk[x] \/ disk'[x] = None
                   \/ disk[x] = None /\ disk'[x].dump.facts \in past
    PROVE  MomentInv'
<1>1. Committed' = Committed /\ \A d \in Databases : Local(d)' = Local(d)
  BY DEF Committed, Local
<1>2. (\A d \in Databases : DatabaseOK(d)') /\ PastOK'
  BY <1>1 DEF MomentInv, DatabaseOK, PastOK
<1>3. \A d \in Databases : db[d].history # None => IsPrefix(db[d].history, db'[d].history)
  BY HistoryFacts, PrefixOfItself DEF LifeInv, Types, Database
<1>4. \A r \in Restores : TargetOK(r)' /\ ListOK(r)'
  BY <1>1, <1>3, TargetsSame
<1>5. \A r \in Restores : ReadingOK(r)'
  BY DEF MomentInv, ReadingOK
<1> QED BY <1>2, <1>4, <1>5 DEF MomentInv

\* The temporary directory of a backup that nobody could have inspected yet.
LEMMA NotRead ==
    ASSUME LifeInv, NEW b \in Backups, backup[b].at \in {"idle", "started", "dumped"},
           NEW r \in Restores, restore[r].at \in {"inspected", "cleared"}
    PROVE  restore[r].from # b /\ restore[r].from \in Paths \cup Backups
BY DEF LifeInv, RestoreOK, Readable

\* The steps of nexus-backup: the digest is that of one snapshot.
LEMMA MomentBackup ==
    ASSUME LifeInv, MomentInv, LifeInv', NEW b \in Backups, NexusBackupStep(b)
    PROVE  MomentInv'
<1>1. /\ UNCHANGED <<cast, db, restore, writer, past>> /\ b \notin Paths
      /\ disk \in [Paths \cup Backups -> Directories \cup {None}]
      /\ backup \in [Backups -> BackupRecord]
  BY BackupRestoreAssumption DEF NexusBackupStep, StartBackup, Dump, WriteManifest, Publish, StopBackup,
     LifeInv, Types
<1>2. ASSUME NEW directory, disk' = [disk EXCEPT ![b] = directory], backup[b].at \in {"idle", "started", "dumped"},
             directory.manifest # None => directory.manifest.digest.facts \in past,
             backup'[b].at = "dumped" => directory.dump.facts \in past,
             \A c \in Backups \ {b} : backup'[c] = backup[c]
      PROVE  MomentInv'
  <2>1. /\ disk'[b] = directory
        /\ \A x \in (Paths \cup Backups) \ {b} : disk'[x] = disk[x]
    BY <1>1, <1>2
  <2>2. \A x \in Paths \cup Backups : DirectoryOK(x)'
    BY <1>1, <1>2, <2>1 DEF MomentInv, DirectoryOK
  <2>3. \A c \in Backups : DumpedOK(c)'
    BY <1>1, <1>2, <2>1 DEF MomentInv, DumpedOK
  <2>4. \A r \in Restores : restore[r].at \in {"inspected", "cleared"} =>
            disk'[restore[r].from] = disk[restore[r].from]
    BY <1>2, <2>1, NotRead
  <2> QED BY <1>1, <2>2, <2>3, <2>4, MomentDisk
<1>3. CASE \E path \in Paths : StartBackup(b, path)
  <2>1. PICK path \in Paths : StartBackup(b, path)
    BY <1>3
  <2> DEFINE l == [at |-> "started", path |-> path, history |-> db[Source].history]
  <2>2. /\ backup[b].at = "idle" /\ disk' = [disk EXCEPT ![b] = NoDirectory]
        /\ backup' = [backup EXCEPT ![b] = l] /\ l.at # "dumped"
    BY <2>1 DEF StartBackup
  <2> HIDE DEF l
  <2>3. backup'[b].at # "dumped" /\ \A c \in Backups \ {b} : backup'[c] = backup[c]
    BY <1>1, <2>2
  <2> QED BY <1>2, <2>2, <2>3, NoDirectoryFacts
<1>4. CASE Dump(b)
  <2> DEFINE dump == Dumped(db[Source])
             directory == [disk[b] EXCEPT !.dump = dump]
  <2>1. /\ backup[b].at = "started" /\ disk[b] = NoDirectory
        /\ disk' = [disk EXCEPT ![b] = directory] /\ backup' = Moved(backup, b, "dumped")
    BY <1>1, <1>4 DEF Dump, LifeInv, BackupOK
  <2>2. dump.facts \in past
    BY DEF Dumped, MomentInv, PastOK
  <2> HIDE DEF dump
  <2>3. directory.manifest = None /\ directory.dump = dump
    BY <2>1, NoDirectoryFacts DEF Directories
  <2> HIDE DEF directory
  <2>4. "dumped" \in BackupStates
    BY DEF BackupStates
  <2>5. \A c \in Backups \ {b} : backup'[c] = backup[c]
    BY <2>1, <2>4, BackupMoves
  <2> QED BY <1>2, <2>1, <2>2, <2>3, <2>5
<1>5. CASE WriteManifest(b)
  <2> DEFINE manifest == Manifest(backup[b].history, disk[b].dump)
             directory == [disk[b] EXCEPT !.manifest = manifest]
  <2>1. /\ backup[b].at = "dumped" /\ disk[b] \in Directories
        /\ disk' = [disk EXCEPT ![b] = directory] /\ backup' = Moved(backup, b, "described")
    BY <1>1, <1>5 DEF WriteManifest, LifeInv, BackupOK
  <2>2. manifest.digest.facts \in past
    BY <2>1 DEF Manifest, Digest, MomentInv, DumpedOK
  <2> HIDE DEF manifest
  <2>3. directory.manifest = manifest
    BY <2>1 DEF Directories
  <2> HIDE DEF directory
  <2>4. "described" \in BackupStates
    BY DEF BackupStates
  <2>5. backup'[b].at = "described" /\ \A c \in Backups \ {b} : backup'[c] = backup[c]
    BY <2>1, <2>4, BackupMoves
  <2> QED BY <1>2, <2>1, <2>2, <2>3, <2>5
<1>6. CASE Publish(b) \/ StopBackup(b)
  <2>1. PICK at \in {"published", "stopped"} : backup' = Moved(backup, b, at)
    BY <1>6 DEF Publish, StopBackup
  <2>2. at \in BackupStates /\ at # "dumped"
    BY DEF BackupStates
  <2>3. backup'[b].at # "dumped" /\ \A c \in Backups \ {b} : backup'[c] = backup[c]
    BY <2>1, <2>2, BackupMoves
  <2>4. CASE Publish(b)
    <3> DEFINE path == backup[b].path
    <3>1. /\ Whole(disk[b]) /\ disk[b] \in Directories /\ path \in Paths /\ disk[path] = None
          /\ disk' = [disk EXCEPT ![path] = disk[b], ![b] = None]
      BY <2>4 DEF Publish, MayRename, Free, LifeInv, BackupOK
    <3>2. /\ disk'[path] = disk[b] /\ disk'[b] = None
          /\ \A x \in (Paths \cup Backups) \ {b, path} : disk'[x] = disk[x]
      BY <1>1, <3>1
    <3> HIDE DEF path
    <3>3. disk[b] # None /\ disk[b].manifest # None /\ disk[b].dump = disk[b].manifest.digest
      BY <3>1, NoneAssumption DEF Whole, Digest
    <3>4. disk[b].dump.facts \in past /\ disk[b].manifest.digest.facts \in past
      BY <3>3 DEF MomentInv, DirectoryOK
    <3>5. \A x \in Paths \cup Backups : DirectoryOK(x)'
      BY <1>1, <3>2, <3>4 DEF MomentInv, DirectoryOK
    <3>6. \A c \in Backups : DumpedOK(c)'
      <4> SUFFICES ASSUME NEW c \in Backups, backup'[c].at = "dumped" PROVE disk'[c].dump.facts \in past'
        BY DEF DumpedOK
      <4>1. c # b /\ backup[c].at = "dumped"
        BY <2>3
      <4>2. c \notin Paths
        BY BackupRestoreAssumption
      <4>3. disk'[c] = disk[c]
        BY <3>1, <3>2, <4>1, <4>2
      <4> QED BY <1>1, <4>1, <4>3 DEF MomentInv, DumpedOK
    <3>7. \A r \in Restores : restore[r].at \in {"inspected", "cleared"} => restore[r].from \in Paths \cup Backups
      BY DEF LifeInv, RestoreOK
    <3> QED BY <1>1, <3>1, <3>2, <3>4, <3>5, <3>6, <3>7, MomentDisk
  <2>5. CASE StopBackup(b)
    <3>1. disk' = [disk EXCEPT ![b] = None] \/ disk' = disk
      BY <2>5 DEF StopBackup
    <3>2. \A x \in Paths \cup Backups : disk'[x] = disk[x] \/ (x = b /\ disk'[x] = None)
      BY <1>1, <3>1
    <3>3. \A x \in Paths \cup Backups : DirectoryOK(x)'
      BY <1>1, <3>2 DEF MomentInv, DirectoryOK
    <3>4. \A c \in Backups : DumpedOK(c)'
      BY <1>1, <2>3, <3>2 DEF MomentInv, DumpedOK
    <3>5. \A r \in Restores : restore[r].at \in {"inspected", "cleared"} => restore[r].from \in Paths \cup Backups
      BY DEF LifeInv, RestoreOK
    <3> QED BY <1>1, <3>2, <3>3, <3>4, <3>5, MomentDisk
  <2> QED BY <1>6, <2>4, <2>5
<1> QED BY <1>3, <1>4, <1>5, <1>6 DEF NexusBackupStep

\* What decays is not being read, and keeps its digest.
LEMMA MomentDecay ==
    ASSUME LifeInv, MomentInv, LifeInv', NEW path \in Paths, Decay(path)
    PROVE  MomentInv'
<1> DEFINE directory == [disk[path] EXCEPT !.dump = [disk[path].dump EXCEPT !.facts = {Damage}]]
<1>1. /\ disk[path] \in Directories
      /\ UNCHANGED <<cast, db, restore, writer, past, backup>>
      /\ \A r \in Restores : ~Reads(r, path)
  BY DEF Decay, LifeInv, Types
<1>2. disk' = [disk EXCEPT ![path] = directory]
  BY <1>1 DEF Decay, LifeInv, Types, Directories
<1>3. directory.manifest = disk[path].manifest
  BY <1>1 DEF Directories
<1> HIDE DEF directory
<1>4. disk'[path] = directory /\ \A x \in (Paths \cup Backups) \ {path} : disk'[x] = disk[x]
  BY <1>2 DEF LifeInv, Types
<1>5. disk[path] # None
  BY DEF Decay
<1>6. \A x \in Paths \cup Backups : DirectoryOK(x)'
  BY <1>1, <1>3, <1>4, <1>5 DEF MomentInv, DirectoryOK
<1>7. \A c \in Backups : DumpedOK(c)'
  <2>1. \A c \in Backups : c \notin Paths
    BY BackupRestoreAssumption
  <2> QED BY <1>1, <1>4, <2>1 DEF MomentInv, DumpedOK
<1>8. \A r \in Restores : restore[r].at \in {"inspected", "cleared"} =>
          restore[r].from # path /\ restore[r].from \in Paths \cup Backups
  BY <1>1 DEF Reads, LifeInv, RestoreOK
<1> QED BY <1>1, <1>4, <1>6, <1>7, <1>8, MomentDisk

\* A step of the restore r that adds to no database and moves no other restore.
LEMMA MomentRestore ==
    ASSUME LifeInv, MomentInv, LifeInv', NEW r \in Restores,
           UNCHANGED <<cast, disk, backup, writer, past>>,
           \A q \in Restores \ {r} : restore'[q] = restore[q],
           \A d \in Databases : /\ db[d].history # None => db'[d].history = db[d].history
                                /\ db[d].history # None => db'[d].facts = db[d].facts,
           \A d \in Databases : DatabaseOK(d)',
           PastOK',
           ReadingOK(r)', ListOK(r)', TargetOK(r)'
    PROVE  MomentInv'
<1>1. \A d \in Databases : Local(d)' = Local(d)
  BY DEF Local
<1>2. \A d \in Databases : db[d].history # None => IsPrefix(db[d].history, db'[d].history)
  BY HistoryFacts, PrefixOfItself DEF LifeInv, Types, Database
<1>3. \A q \in Restores \ {r} : TargetOK(q)' /\ ListOK(q)'
  <2>1. \A d \in Databases : db[d].history # None =>
               /\ db'[d].history # None /\ IsPrefix(db[d].history, db'[d].history)
               /\ db'[d].facts \ Local(d)' = db[d].facts \ Local(d)
               /\ db[d].facts \subseteq db'[d].facts
    BY <1>1, <1>2
  <2> QED BY <2>1, TargetsSame
<1>4. /\ \A x \in Paths \cup Backups : DirectoryOK(x)'
      /\ \A b \in Backups : DumpedOK(b)'
      /\ \A q \in Restores \ {r} : ReadingOK(q)'
  BY DiskSame
<1> QED BY <1>3, <1>4 DEF MomentInv

\* The same for a step that writes no database at all.
LEMMA MomentMoves ==
    ASSUME LifeInv, MomentInv, LifeInv', NEW r \in Restores,
           UNCHANGED <<cast, db, disk, backup, writer, past>>,
           \A q \in Restores \ {r} : restore'[q] = restore[q],
           ReadingOK(r)', ListOK(r)', TargetOK(r)'
    PROVE  MomentInv'
<1>1. Committed' = Committed /\ \A d \in Databases : Local(d)' = Local(d)
  BY DEF Committed, Local
<1>2. (\A d \in Databases : DatabaseOK(d)') /\ PastOK'
  BY <1>1 DEF MomentInv, DatabaseOK, PastOK
<1> QED BY <1>2, MomentRestore

\* What is to be shown of the target after a step.
LEMMA TargetUnfolded ==
    ASSUME NEW r \in Restores
    PROVE  TargetOK(r)' <=>
               /\ restore'[r].wrote => db'[restore'[r].on].history # None
               /\ restore'[r].wrote =>
                      db'[restore'[r].on].facts \ {f \in Facts : writer'[f].on = restore'[r].on} \in past'
               /\ restore'[r].at \in {"verified", "locked", "read", "completed"} =>
                      IsPrefix(cast'.build[r], db'[restore'[r].on].history)
               /\ restore'[r].at = "read" => restore'[r].events \subseteq db'[restore'[r].on].facts
BY DEF TargetOK, Local

\* The list of a restore that keeps it.
LEMMA ListSame ==
    ASSUME NEW r \in Restores, ListOK(r), UNCHANGED cast, restore'[r].list = restore[r].list
    PROVE  ListOK(r)'
<1>1. ListOK(r)' <=> (restore'[r].list # None => /\ Restorable(cast.contents)
                                                 /\ restore'[r].list = BuildRestoreList(cast.contents))
  BY DEF ListOK, Restorable, BuildRestoreList
<1>2. restore'[r].list # None => /\ Restorable(cast.contents)
                                 /\ restore'[r].list = BuildRestoreList(cast.contents)
  BY DEF ListOK
<1> QED BY <1>1, <1>2

\* A restore goes on to verified only with the history of its build.
LEMMA MomentOutcome ==
    ASSUME LifeInv, MomentInv, LifeInv', NEW r \in Restores,
           NEW at \in {"cleared", "refused", "verified", "failed", "locked"},
           Outcome(r, at), UNCHANGED past,
           at = "cleared" => restore[r].at = "inspected",
           at = "verified" => /\ restore[r].at = "written"
                              /\ Current(r, restore[r].on),
           at = "locked" => restore[r].at = "verified"
    PROVE  MomentInv'
<1>1. restore' = Moved(restore, r, at) /\ UNCHANGED <<cast, db, lock, runner, disk, backup, writer>>
  BY DEF Outcome
<1>2. at \in RestoreStates /\ restore[r] \in RestoreRecord
  BY DEF RestoreStates, LifeInv, Types
<1>3. /\ restore'[r].at = at /\ restore'[r].from = restore[r].from
      /\ restore'[r].on = restore[r].on /\ restore'[r].wrote = restore[r].wrote
      /\ restore'[r].events = restore[r].events
      /\ \A q \in Restores \ {r} : restore'[q] = restore[q]
  BY <1>1, <1>2, RestoreMoves
<1>4. restore'[r].list = restore[r].list
  BY <1>1, <1>2 DEF Moved, LifeInv, Types, RestoreRecord
<1>5. ReadingOK(r) /\ ListOK(r) /\ TargetOK(r) /\ RestoreOK(r)
  BY DEF MomentInv, LifeInv
<1>6. ReadingOK(r)'
  BY <1>1, <1>3, <1>5 DEF ReadingOK
<1>7. ListOK(r)'
  BY <1>1, <1>4, <1>5, ListSame
<1>8. {f \in Facts : writer'[f].on = restore'[r].on} = {f \in Facts : writer[f].on = restore[r].on}
  BY <1>1, <1>3
<1>9. at = "verified" => IsPrefix(cast.build[r], db[restore[r].on].history)
  <2>1. cast.build[r] \in Seq(Checksums)
    BY CastFacts DEF LifeInv, Processes, Runners
  <2> QED BY <2>1, PrefixOfItself DEF Current
<1>10. TargetOK(r)'
  <2>1. /\ restore[r].wrote => db[restore[r].on].history # None
        /\ restore[r].wrote =>
              db[restore[r].on].facts \ {f \in Facts : writer[f].on = restore[r].on} \in past
    BY <1>5 DEF TargetOK, Local
  <2>2. restore'[r].at \in {"verified", "locked", "read", "completed"} =>
            IsPrefix(cast.build[r], db[restore[r].on].history)
    BY <1>3, <1>5, <1>9 DEF TargetOK
  <2> QED BY <1>1, <1>3, <1>8, <2>1, <2>2 DEF TargetOK, Local
<1> QED BY <1>1, <1>3, <1>6, <1>7, <1>10, MomentMoves

\* The steps that write nothing.
LEMMA MomentQuietStep ==
    ASSUME LifeInv, MomentInv, LifeInv', NEW r \in Restores, QuietStep(r)
    PROVE  MomentInv'
<1>1. PICK at \in {"cleared", "refused", "verified", "failed", "locked"} :
          /\ Outcome(r, at)
          /\ at = "cleared" => restore[r].at = "inspected"
          /\ at = "verified" => /\ restore[r].at = "written"
                                /\ Current(r, restore[r].on)
          /\ at = "locked" => restore[r].at = "verified"
  <2>1. CASE RequireEmptyTarget(r)
    BY <2>1 DEF RequireEmptyTarget
  <2>2. CASE Verify(r)
    BY <2>2 DEF Verify
  <2>3. CASE LockActivity(r)
    BY <2>3 DEF LockActivity
  <2>4. CASE StopRestore(r)
    BY <2>4 DEF StopRestore
  <2> QED BY <2>1, <2>2, <2>3, <2>4 DEF QuietStep
<1>2. UNCHANGED past
  BY DEF QuietStep, RequireEmptyTarget, Verify, LockActivity, StopRestore, Outcome
<1> QED BY <1>1, <1>2, MomentOutcome

\* An inspection passes only what agrees with its digest, which is of one moment.
LEMMA MomentInspect ==
    ASSUME LifeInv, MomentInv, LifeInv', NEW r \in Restores, InspectStep(r)
    PROVE  MomentInv'
<1>1. PICK path \in Paths \cup Backups : \E d \in Databases : Inspect(r, path, d)
  BY DEF InspectStep
<1>2. PICK d \in Databases : Inspect(r, path, d)
  BY <1>1
<1> DEFINE l == [at |-> "inspected", from |-> path, on |-> d, list |-> BuildRestoreList(cast.contents),
                 wrote |-> FALSE, events |-> {}]
           sound == Matches(r, disk[path]) /\ Supported({r}) /\ Restorable(cast.contents)
<1>3. UNCHANGED past
  BY <1>2 DEF Inspect, Outcome
<1>4. CASE ~sound
  <2>1. Outcome(r, "refused")
    BY <1>2, <1>4 DEF Inspect
  <2> QED BY <1>3, <2>1, MomentOutcome
<1>5. CASE sound
  <2>1. /\ restore' = [restore EXCEPT ![r] = l]
        /\ UNCHANGED <<cast, db, lock, runner, disk, backup, writer, past>>
    BY <1>2, <1>5 DEF Inspect
  <2>2. /\ l.at = "inspected" /\ l.from = path /\ l.wrote = FALSE
        /\ l.list = BuildRestoreList(cast.contents)
    OBVIOUS
  <2>3. disk[path] # None
    BY <1>2 DEF Inspect, Free
  <2>4. disk[path].dump.facts \in past
    <3>1. disk[path].manifest # None /\ disk[path].dump = disk[path].manifest.digest
      BY <1>5 DEF Matches, Digest
    <3> QED BY <2>3, <3>1 DEF MomentInv, DirectoryOK
  <2> HIDE DEF l
  <2>5. restore'[r] = l /\ \A q \in Restores \ {r} : restore'[q] = restore[q]
    BY <2>1 DEF LifeInv, Types
  <2>6. ReadingOK(r)'
    BY <2>1, <2>2, <2>4, <2>5 DEF ReadingOK
  <2>7. TargetOK(r)'
    BY <2>2, <2>5 DEF TargetOK
  <2>8. ListOK(r)'
    <3>1. ListOK(r)' <=> (restore'[r].list # None => /\ Restorable(cast.contents)
                                                     /\ restore'[r].list = BuildRestoreList(cast.contents))
      BY <2>1 DEF ListOK, Restorable, BuildRestoreList
    <3>2. Restorable(cast.contents)
      BY <1>5
    <3> QED BY <2>2, <2>5, <3>1, <3>2
  <2> QED BY <2>1, <2>5, <2>6, <2>7, <2>8, MomentMoves
<1> QED BY <1>4, <1>5

\* pg_restore gives an empty database the events of that moment.
LEMMA MomentPgRestore ==
    ASSUME LifeInv, MomentInv, LifeInv', NEW r \in Restores, PgRestore(r)
    PROVE  MomentInv'
<1> DEFINE d == restore[r].on
           path == restore[r].from
           written == ~Free(path) /\ Creatable(d) /\ RegistryFirst(restore[r].list)
           l == [restore[r] EXCEPT !.at = "written", !.wrote = TRUE]
<1>1. /\ restore[r].at = "cleared" /\ restore[r] \in RestoreRecord
      /\ d \in Databases /\ path \in Paths \cup Backups /\ Readable(path)
      /\ ReadingOK(r) /\ ListOK(r) /\ UNCHANGED past
  BY DEF PgRestore, Outcome, LifeInv, RestoreOK, Types, MomentInv
<1>2. CASE ~written
  <2>1. Outcome(r, "refused")
    BY <1>2 DEF PgRestore
  <2> QED BY <1>1, <2>1, MomentOutcome
<1>3. CASE written
  <2>1. /\ db' = [db EXCEPT ![d] = disk[path].dump]
        /\ restore' = [restore EXCEPT ![r] = l]
        /\ UNCHANGED <<cast, lock, runner, disk, backup, writer, past>>
    BY <1>1, <1>3 DEF PgRestore, LifeInv, Types
  <2>2. /\ db[d].history = None /\ disk[path].dump \in Snapshots
        /\ disk[path].dump.facts \in past
    BY <1>1, <1>3 DEF Creatable, Vacant, Free, Readable, ReadingOK
  <2> DEFINE dump == disk[path].dump
  <2>3. /\ dump.history # None /\ dump.activity = {} /\ dump.sessions = {}
        /\ dump.facts \subseteq Committed
    BY <2>2, NoneAssumption DEF Snapshots, MomentInv, PastOK
  <2>4. l.at = "written" /\ l.wrote = TRUE /\ l.on = d /\ l.from = path /\ l.list = restore[r].list
    BY <1>1 DEF RestoreRecord
  <2> HIDE DEF l
  <2>5. restore'[r] = l /\ \A q \in Restores \ {r} : restore'[q] = restore[q]
    BY <2>1 DEF LifeInv, Types
  <2> HIDE DEF d, dump, path
  <2>6. db'[d] = dump /\ \A e \in Databases \ {d} : db'[e] = db[e]
    BY <1>1, <2>1 DEF LifeInv, Types, dump
  <2>7. Committed' = Committed /\ Local(d) = {} /\ {f \in Facts : writer'[f].on = d} = {}
    BY <1>1, <2>1, <2>2 DEF Committed, MomentInv, DatabaseOK, Local
  <2>8. ASSUME NEW e \in Databases PROVE DatabaseOK(e)'
    <3>1. CASE e = d
      BY <2>3, <2>6, <2>7, <3>1 DEF DatabaseOK
    <3>2. CASE e # d
      <4>1. Local(e)' = Local(e)
        BY <2>1 DEF Local
      <4> QED BY <2>6, <2>7, <3>2, <4>1 DEF MomentInv, DatabaseOK
    <3> QED BY <3>1, <3>2
  <2>9. PastOK'
    BY <2>1, <2>2, <2>6, <2>7, BackupRestoreAssumption DEF MomentInv, PastOK, dump
  <2>10. ReadingOK(r)'
    BY <2>4, <2>5 DEF ReadingOK
  <2>11. ListOK(r)'
    BY <1>1, <2>1, <2>4, <2>5, ListSame
  <2>12. dump.facts \ {f \in Facts : writer'[f].on = d} \in past
    BY <2>2, <2>7 DEF dump
  <2>13. TargetOK(r)'
    <3>1. restore'[r].at = "written" /\ restore'[r].on = d
      BY <2>4, <2>5
    <3>2. db'[d].history # None /\ db'[d].facts \ {f \in Facts : writer'[f].on = d} \in past'
      BY <2>1, <2>3, <2>6, <2>12
    <3> QED BY <3>1, <3>2, TargetUnfolded
  <2> QED BY <2>1, <2>2, <2>5, <2>6, <2>8, <2>9, <2>10, <2>11, <2>13, MomentRestore
<1> QED BY <1>2, <1>3

\* The rebuild brings back no more rows than there are events.
LEMMA MomentRebuild ==
    ASSUME LifeInv, MomentInv, LifeInv', NEW r \in Restores, ReadEvents(r) \/ CommitRebuild(r)
    PROVE  MomentInv'
<1>1. /\ UNCHANGED <<cast, disk, backup, writer, past>> /\ restore[r] \in RestoreRecord
      /\ ReadingOK(r) /\ ListOK(r) /\ TargetOK(r) /\ restore[r].on \in Databases
  BY DEF ReadEvents, CommitRebuild, Moved, LifeInv, Types, RestoreOK, MomentInv
<1>2. restore'[r].list = restore[r].list
  BY <1>1 DEF ReadEvents, CommitRebuild, Moved, LifeInv, Types, RestoreRecord
<1>3. ListOK(r)'
  BY <1>1, <1>2, ListSame
<1>4. {f \in Facts : writer'[f].on = restore[r].on} = {f \in Facts : writer[f].on = restore[r].on}
  BY <1>1
<1>5. CASE ReadEvents(r)
  <2>1. /\ db' = db
        /\ restore[r].at = "locked" /\ restore'[r].at = "read"
        /\ restore'[r].on = restore[r].on /\ restore'[r].wrote = restore[r].wrote
        /\ restore'[r].events = Projected(db[restore[r].on].facts)
        /\ \A q \in Restores \ {r} : restore'[q] = restore[q]
    BY <1>5, ReadEventsKept
  <2>2. ReadingOK(r)'
    BY <2>1 DEF ReadingOK
  <2>3. TargetOK(r)'
    BY <1>1, <1>4, <2>1 DEF TargetOK, Local, Projected
  <2> QED BY <1>1, <1>3, <2>1, <2>2, <2>3, MomentMoves
<1>6. CASE CommitRebuild(r)
  <2>1. /\ restore[r].at = "read" /\ restore'[r].at = "completed"
        /\ restore'[r].on = restore[r].on
        /\ \A q \in Restores \ {r} : restore'[q] = restore[q]
        /\ \A e \in Databases : db'[e].history = db[e].history /\ db'[e].facts = db[e].facts
        /\ \A e \in Databases \ {restore[r].on} : db'[e] = db[e]
        /\ db'[restore[r].on].activity = restore[r].events
    BY <1>6, CommitRebuildKept
  <2>2. restore'[r].wrote = restore[r].wrote /\ db'[restore[r].on].sessions = db[restore[r].on].sessions
    BY <1>1, <1>6 DEF CommitRebuild, Moved, LifeInv, Types, RestoreRecord, Database
  <2>3. Committed' = Committed /\ \A e \in Databases : Local(e)' = Local(e)
    BY <1>1 DEF Committed, Local
  <2>4. \A e \in Databases : DatabaseOK(e)'
    <3> SUFFICES ASSUME NEW e \in Databases PROVE DatabaseOK(e)'
      OBVIOUS
    <3>1. DatabaseOK(e)
      BY DEF MomentInv
    <3>2. CASE e = restore[r].on
      BY <1>1, <2>1, <2>2, <2>3, <3>1, <3>2 DEF DatabaseOK, TargetOK
    <3>3. CASE e # restore[r].on
      BY <2>1, <2>3, <3>1, <3>3 DEF DatabaseOK
    <3> QED BY <3>2, <3>3
  <2>5. PastOK'
    BY <1>1, <2>1, <2>3, BackupRestoreAssumption DEF MomentInv, PastOK
  <2>6. ReadingOK(r)'
    BY <2>1 DEF ReadingOK
  <2>7. TargetOK(r)'
    <3>1. restore'[r].at = "completed" /\ restore'[r].on = restore[r].on
          /\ restore'[r].wrote = restore[r].wrote /\ past' = past /\ cast' = cast
          /\ db'[restore[r].on].history = db[restore[r].on].history
          /\ db'[restore[r].on].facts = db[restore[r].on].facts
      BY <1>1, <2>1, <2>2
    <3>2. /\ restore[r].wrote => db[restore[r].on].history # None
          /\ restore[r].wrote =>
                 db[restore[r].on].facts \ {f \in Facts : writer[f].on = restore[r].on} \in past
          /\ IsPrefix(cast.build[r], db[restore[r].on].history)
      BY <1>1, <2>1 DEF TargetOK, Local
    <3> QED BY <1>4, <3>1, <3>2, TargetUnfolded
  <2> QED BY <1>1, <1>3, <2>1, <2>4, <2>5, <2>6, <2>7, MomentRestore
<1> QED BY <1>5, <1>6

\* Every step keeps the moments apart.
LEMMA MomentKept ==
    ASSUME LifeInv, MomentInv, [Next]_vars
    PROVE  MomentInv'
<1>0. LifeInv' /\ \A h \in Histories : IsPrefix(h, h)
  BY StepKept, HistoryFacts, PrefixOfItself
<1>1. CASE UNCHANGED vars
  <2>1. \A d \in Databases : db[d].history # None => IsPrefix(db[d].history, db[d].history)
    BY <1>0 DEF LifeInv, Types, Database
  <2> QED BY <1>0, <1>1, <2>1, MomentQuiet DEF vars, MomentInv, DatabaseOK
<1>2. ASSUME NEW d \in Databases, OpenSession(d) PROVE MomentInv'
  <2>1. UNCHANGED <<cast, restore, disk, backup, writer, past>> /\ db' = [db EXCEPT ![d].sessions = {d}]
    BY <1>2 DEF OpenSession
  <2>2. \A e \in Databases : /\ db'[e].history = db[e].history /\ db'[e].facts = db[e].facts
                             /\ db'[e].activity = db[e].activity
    BY <1>2, OpenSessionKept
  <2>3. \A e \in Databases : db'[e].sessions \subseteq {e}
    BY <2>1 DEF LifeInv, Types, Database, MomentInv, DatabaseOK
  <2>4. \A e \in Databases : db[e].history # None => IsPrefix(db[e].history, db'[e].history)
    BY <1>0, <2>2 DEF LifeInv, Types, Database
  <2> QED BY <1>0, <2>1, <2>2, <2>3, <2>4, MomentQuiet
<1>3. ASSUME NEW p \in Runners, MigrateStep(p) PROVE MomentInv'
  <2>1. Migrated /\ UNCHANGED <<cast, disk, restore, writer>>
    BY <1>3, MigrateStepKept
  <2>2. UNCHANGED <<backup, past>>
    BY <1>3 DEF MigrateStep, Acquire, Load, ApplyMigration, FinishMigrate, StopMigrate
  <2>3. \A d \in Databases : db'[d].sessions \subseteq {d}
    BY <2>1 DEF Migrated, MomentInv, DatabaseOK
  <2>4. \A d \in Databases : db[d].history # None => /\ db'[d].history # None
                                                     /\ IsPrefix(db[d].history, db'[d].history)
    BY <2>1, NoneAssumption DEF Migrated
  <2> QED BY <1>0, <2>1, <2>2, <2>3, <2>4, MomentQuiet DEF Migrated
<1>4. ASSUME NEW r \in Restores,
             QuietStep(r) \/ InspectStep(r) \/ PgRestore(r) \/ ReadEvents(r) \/ CommitRebuild(r)
      PROVE  MomentInv'
  BY <1>0, <1>4, MomentQuietStep, MomentInspect, MomentPgRestore, MomentRebuild
<1> QED BY <1>0, <1>1, <1>2, <1>3, <1>4, MomentBusiness, MomentBackup, MomentDecay, StepCases

\* What a restore that reports success has brought back is what Source held at one
\* moment, whatever was committed, backed up, migrated, renamed or damaged meanwhile,
\* and the checks before pg_restore are all that is needed for it.
THEOREM MomentTheorem == Spec => []RestoredIsOneMoment
<1>1. LifeInv /\ MomentInv /\ [Next]_vars => MomentInv'
  BY MomentKept
<1>2. LifeInv /\ MomentInv => RestoredIsOneMoment
  <2> SUFFICES ASSUME LifeInv, MomentInv, NEW r \in Restores, restore[r].at = "completed"
               PROVE  LET d == restore[r].on IN
                      /\ db[d].facts \ Local(d) \in past
                      /\ IsPrefix(cast.build[r], db[d].history)
                      /\ db[d].sessions \subseteq {d}
    BY DEF RestoredIsOneMoment
  <2>1. restore[r].wrote /\ restore[r].on \in Databases /\ TargetOK(r)
    BY DEF LifeInv, RestoreOK, MomentInv
  <2> QED BY <2>1 DEF TargetOK, MomentInv, DatabaseOK
<1> QED BY LifeInvariant, MomentInit, <1>1, <1>2, PTL DEF Spec

\* The types, and that every restore list puts the registry's rows first and keeps the
\* order of the others, for every archive whatever its contents.
THEOREM LifeTypeOK == Spec => []TypeOK
<1>1. LifeInv /\ MomentInv /\ [Next]_vars => MomentInv'
  BY MomentKept
<1>2. LifeInv /\ MomentInv => TypeOK
  <2> SUFFICES ASSUME LifeInv, MomentInv PROVE TypeOK
    OBVIOUS
  <2>1. cast \in Casts /\ cast.contents \in Seq(Lines)
    BY BackupRestoreAssumption DEF LifeInv, Types
  <2>2. ASSUME NEW d \in Databases
        PROVE  /\ db[d].history \in Histories \cup {None}
               /\ db[d].facts \subseteq Facts \cup {Damage}
               /\ db[d].activity \subseteq db[d].facts
               /\ db[d].sessions \subseteq Databases
               /\ lock[d] \in Runners \cup {None}
    BY DEF LifeInv, Types, Database, Events, MomentInv, DatabaseOK
  <2>3. \A x \in Paths \cup Backups : disk[x] \in Directories \cup {None}
    BY DEF LifeInv, Types
  <2>4. ASSUME NEW r \in Restores, restore[r].list # None
        PROVE  /\ RegistryFirst(restore[r].list)
               /\ Others(restore[r].list) = Others(cast.contents)
    <3>1. Restorable(cast.contents) /\ restore[r].list = BuildRestoreList(cast.contents)
      BY <2>4 DEF MomentInv, ListOK
    <3> QED BY <2>1, <3>1, RestoreListFacts
  <2> QED BY <2>1, <2>2, <2>3, <2>4 DEF TypeOK
<1> QED BY LifeInvariant, MomentInit, <1>1, <1>2, PTL DEF Spec
=============================================================================
