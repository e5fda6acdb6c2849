---------------------------- MODULE JenkinsSpool ----------------------------
(***************************************************************************)
(* The durable Jenkins delivery worker (server/internal/jenkins/spool*.go, *)
(* sender.go, server/cmd/jenkins-worker) with the receiver it delivers to  *)
(* and what the collector does on the shared directories.                  *)
(*                                                                         *)
(* On disk there is one file per build in each of three directories:       *)
(* input (written by the collector), the worker's record, and its ack.     *)
(* A payload, its raw bytes and their digest are one value; the digest the *)
(* receiver compares is Meaning[payload].  Every file is replaced by       *)
(* atomicSpoolWrite, so a failed or interrupted write leaves the old or    *)
(* the new content and ends the process: Save.                             *)
(*                                                                         *)
(* The worker is one process under an exclusive lock; pc is where it is:   *)
(*   down    not running: the operator may start it, retry or clean up     *)
(*   idle    between two ticks                                             *)
(*   import  comparing and importing the inputs listed in todo             *)
(*   reset   a retry command about to save the new budget                  *)
(*   scan    going through the records of a tick                           *)
(*   send    about to make a request for item                              *)
(*   await   a request is out                                              *)
(*   settle  the round is over with answer                                 *)
(*   ack     delivered is saved, the ack is not                            *)
(* A tick reads the clock before and after the round; local file work      *)
(* takes no time in the model, so that the clock stands still meanwhile.   *)
(*                                                                         *)
(* Capacity limits, damaged files, a clock set back and the 100 imports    *)
(* per tick are left out, and so is Status: it changes nothing, and where  *)
(* it ends run for an input conflict, the next Import would have.          *)
(***************************************************************************)
EXTENDS Naturals, FiniteSets

CONSTANTS Builds,        \* build numbers
          Payloads,      \* snapshots
          Meanings,      \* canonical digests
          Meaning,       \* Source.Map: the canonical digest of a payload
          Unsupported,   \* payloads refused by ParsePayload or of version 2
          Foreign,       \* payloads that name another build or job
          None,
          MaxRounds,     \* 12
          Attempts,      \* requests per round, 4
          Window,        \* 24 hours
          Retention,     \* cleanupRetention, 7 days
          Delays,        \* values of spoolDelay
          MaxResets,     \* 128
          MaxTime,       \* bound on the clock
          MaxFaults      \* bound on crashes, failed writes and restored inputs

ASSUME SpoolAssumption ==
    /\ Builds \subseteq Nat \ {0} /\ IsFiniteSet(Builds)
    /\ Meaning \in [Payloads -> Meanings]
    /\ Unsupported \subseteq Payloads /\ Foreign \subseteq Payloads
    /\ MaxRounds \in Nat \ {0} /\ Attempts \in Nat \ {0}
    /\ Window \in Nat \ {0} /\ Retention \in Nat
    /\ Delays \subseteq Nat \ {0} /\ Delays # {}
    /\ MaxResets \in Nat /\ MaxTime \in Nat /\ MaxFaults \in Nat

VARIABLES now,
          input, record, ack,                \* the three directories
          proof,                             \* the collector's checkpoint
          pc, item, todo, attempt, answer,   \* the worker process
          receipts,                          \* inbound_deliveries
          late,                              \* requests nobody waits for
          spent,    \* requests for a build since its budget was last reset
          waited,   \* rounds given to others while a build was due, since its own last
                    \* round or reset
          faults

disk == <<input, record, ack, proof>>
worker == <<pc, item, todo, attempt, answer>>
history == <<spent, waited>>
spoolVars == <<now, disk, worker, receipts, late, history, faults>>

NoBuild == 0

\* ClassifyDelivery.  unauthenticated stands for every pause that retry may lift
\* (also tls_verification_failed, invalid_configuration), not_found for the other
\* permanent refusals of one build.
Pauses == {"unauthenticated", "source_binding_mismatch"}
Refusals == Pauses \cup {"not_found"}
Answers == Refusals \cup {"recorded", "conflict", "delivery_failed"}

\* Reasons Retry refuses.
NotRetryable == {"conflict", "source_binding_mismatch", "unsupported_result"}

Reasons == Refusals \cup NotRetryable \cup {"", "delivery_failed", "retry_exhausted"}
States == {"pending", "in_flight", "retry_wait", "blocked", "delivered", "compacted"}
Finished == {"delivered", "compacted"}

SpoolRecord == [state: States, digest: Payloads, reason: Reasons, rounds: Nat,
                first: Nat, next: Nat, delivered: Nat, resets: Nat]
Request == [build: Builds, payload: Payloads]
Proof == [digest: Payloads, handoff: Nat, retired: BOOLEAN]

\* A missing file is none of the things a file may hold.
ASSUME NoneAssumption ==
    /\ None \notin Payloads /\ None \notin Meanings
    /\ None \notin SpoolRecord /\ None \notin Proof

Init ==
    /\ now = 0
    /\ input = [n \in Builds |-> None]
    /\ record = [n \in Builds |-> None]
    /\ ack = [n \in Builds |-> None]
    /\ proof = [n \in Builds |-> None]
    /\ pc = "down" /\ item = NoBuild /\ todo = {} /\ attempt = 0 /\ answer = "delivery_failed"
    /\ receipts = [n \in Builds |-> None]
    /\ late = {}
    /\ spent = [n \in Builds |-> 0]
    /\ waited = [n \in Builds |-> 0]
    /\ faults = 0

-----------------------------------------------------------------------------
(* What the worker reads from its files.  Bug variants, named Bug..., stand *)
(* before the definition they are a wrong version of; no specification      *)
(* uses them.                                                               *)

Known(n) == record[n] # None

InState(n, states) == IF record[n] = None THEN FALSE ELSE record[n].state \in states

\* The check of inventory: an ack stands only beside a finished record.
InventoryOk ==
    \A n \in Builds : ack[n] # None => InState(n, Finished) /\ record[n].digest = ack[n]

PausedBuild(n) == InState(n, {"blocked"}) /\ record[n].reason \in Pauses

\* A restarted worker does not remember that the source was paused.
BugPaused == FALSE

Paused == \E n \in Builds : PausedBuild(n)

\* Forgets what was under way when the process ended.
BugActive(n) == InState(n, {"pending", "retry_wait"})

Active(n) == InState(n, {"pending", "in_flight", "retry_wait"})

Exhausted(n) ==
    /\ Active(n)
    /\ \/ record[n].rounds >= MaxRounds
       \/ record[n].rounds > 0 /\ now >= record[n].first + Window

\* Acknowledges what it stopped sending.
BugUnacked(n) == InState(n, Finished \cup {"blocked"}) /\ ack[n] = None

\* Leaves a missing ack to the round that delivered.
BugNeverUnacked(n) == FALSE

Unacked(n) == InState(n, Finished) /\ ack[n] = None

Due(n) == Active(n) /\ ~Exhausted(n) /\ record[n].next <= now

\* The record a tick picks: the earliest next, the smallest number among equals.
Chosen(n) ==
    /\ Due(n)
    /\ \A m \in Builds : Due(m) /\ m # n =>
          \/ record[n].next < record[m].next
          \/ record[n].next = record[m].next /\ n < m

-----------------------------------------------------------------------------
(* Records the worker writes. *)

NewRecord(p) ==
    [state |-> IF p \in Unsupported \cup Foreign THEN "blocked" ELSE "pending",
     digest |-> p,
     reason |-> IF p \in Foreign THEN "source_binding_mismatch"
                ELSE IF p \in Unsupported THEN "unsupported_result" ELSE "",
     rounds |-> 0, first |-> 0, next |-> now, delivered |-> 0, resets |-> 0]

ExhaustedRecord(r) == [r EXCEPT !.state = "blocked", !.reason = "retry_exhausted"]

\* Counts the round only when it is over.
BugReservedRecord(r) ==
    [r EXCEPT !.state = "in_flight", !.reason = "",
              !.first = IF r.rounds = 0 THEN now ELSE @]

ReservedRecord(r) ==
    [r EXCEPT !.state = "in_flight", !.reason = "", !.rounds = @ + 1,
              !.first = IF r.rounds = 0 THEN now ELSE @]

\* Schedules the next round where the last one was.
BugSettledRecord(r, a, d) ==
    IF a = "recorded" THEN [r EXCEPT !.state = "delivered", !.delivered = now]
    ELSE IF a # "delivery_failed" THEN [r EXCEPT !.state = "blocked", !.reason = a]
    ELSE IF r.rounds < MaxRounds /\ now < r.first + Window
         THEN [r EXCEPT !.state = "retry_wait", !.reason = a]
         ELSE ExhaustedRecord(r)

\* The record after a round that ended with answer a; d is spoolDelay.
SettledRecord(r, a, d) ==
    IF a = "recorded" THEN [r EXCEPT !.state = "delivered", !.delivered = now]
    ELSE IF a # "delivery_failed" THEN [r EXCEPT !.state = "blocked", !.reason = a]
    ELSE IF r.rounds < MaxRounds /\ now < r.first + Window
         THEN [r EXCEPT !.state = "retry_wait", !.reason = a, !.next = now + d]
         ELSE ExhaustedRecord(r)

ResetRecord(r) ==
    [r EXCEPT !.state = "pending", !.reason = "", !.rounds = 0, !.first = 0,
              !.next = now, !.resets = @ + 1]

\* The tombstone keeps the identity and loses the attempt history.
CompactRecord(r) ==
    [r EXCEPT !.state = "compacted", !.rounds = 0, !.first = 0, !.next = 0, !.resets = 0]

\* The process ends and loses what it had in memory.
Exit ==
    /\ pc' = "down" /\ item' = NoBuild /\ todo' = {} /\ attempt' = 0
    /\ answer' = "delivery_failed"

\* The tick ends without an error.
EndTick ==
    /\ pc' = "idle" /\ item' = NoBuild /\ todo' = {} /\ attempt' = 0
    /\ answer' = "delivery_failed"

\* Replaces the record of n by r and goes on with done, or fails at some stage,
\* before or after the rename, and ends the process.
SaveRecord(n, r, done) ==
    LET saved == [record EXCEPT ![n] = r]
    IN  \/ record' = saved /\ done /\ UNCHANGED faults
        \/ faults < MaxFaults /\ faults' = faults + 1 /\ record' \in {record, saved} /\ Exit

\* The same for the ack of n.
SaveAck(n, done) ==
    LET saved == [ack EXCEPT ![n] = record[n].digest]
    IN  \/ ack' = saved /\ done /\ UNCHANGED faults
        \/ faults < MaxFaults /\ faults' = faults + 1 /\ ack' \in {ack, saved} /\ Exit

-----------------------------------------------------------------------------
(* The collector and the people around the worker. *)

\* The collector publishes the snapshot of a build, once.
Publish(n, p) ==
    /\ input[n] = None /\ proof[n] = None
    /\ input' = [input EXCEPT ![n] = p]
    /\ UNCHANGED <<now, record, ack, proof, worker, receipts, late, history, faults>>

\* An operator puts an old input back after it was cleaned up.
Restore(n, p) ==
    /\ input[n] = None /\ proof[n] # None
    /\ faults < MaxFaults /\ faults' = faults + 1
    /\ input' = [input EXCEPT ![n] = p]
    /\ UNCHANGED <<now, record, ack, proof, worker, receipts, late, history>>

\* The collector finds the ack of what it published (Collector.acknowledge).
HandOff(n) ==
    /\ proof[n] = None
    /\ input[n] # None /\ ack[n] = input[n]
    /\ proof' = [proof EXCEPT ![n] = [digest |-> input[n], handoff |-> now, retired |-> FALSE]]
    /\ UNCHANGED <<now, input, record, ack, worker, receipts, late, history, faults>>

\* Collector.cleanup saves the retired entry first ...
Retire(n) ==
    /\ proof[n] # None
    /\ ~proof[n].retired
    /\ now >= proof[n].handoff + Retention
    /\ input[n] = proof[n].digest /\ ack[n] = proof[n].digest
    /\ proof' = [proof EXCEPT ![n].retired = TRUE]
    /\ UNCHANGED <<now, input, record, ack, worker, receipts, late, history, faults>>

\* ... and then removes the input, also one that was restored.
RemoveInput(n) ==
    /\ proof[n] # None
    /\ proof[n].retired
    /\ input[n] = proof[n].digest /\ ack[n] = proof[n].digest
    /\ input' = [input EXCEPT ![n] = None]
    /\ UNCHANGED <<now, record, ack, proof, worker, receipts, late, history, faults>>

\* The receiver's transaction for one request: the first one is recorded, the
\* same meaning again is a duplicate, another one a conflict.
Receive(n, p) ==
    receipts' = [receipts EXCEPT ![n] = IF @ = None THEN Meaning[p] ELSE @]

\* Answers a replay with the receipt it finds, without comparing.
BugVerdict(n, p) == "recorded"

Verdict(n, p) == IF receipts[n] \in {None, Meaning[p]} THEN "recorded" ELSE "conflict"

\* jenkins-delivery sends one snapshot without the spool.
OneShot(n, p) ==
    /\ p \notin Unsupported \cup Foreign
    /\ Receive(n, p)
    /\ UNCHANGED <<now, disk, worker, late, history, faults>>

\* A request whose sender gave up or died reaches the receiver after all.
LateArrival ==
    \E q \in late :
        /\ Receive(q.build, q.payload)
        /\ late' = late \ {q}
        /\ UNCHANGED <<now, disk, worker, history, faults>>

Tick ==
    /\ now < MaxTime
    /\ pc \in {"down", "idle", "await"}
    /\ now' = now + 1
    /\ UNCHANGED <<disk, worker, receipts, late, history, faults>>

-----------------------------------------------------------------------------
(* Starting and stopping. *)

Listed == {n \in Builds : input[n] # None}

\* jenkins-worker run, as far as OpenSpool.
Start ==
    /\ pc = "down"
    /\ InventoryOk
    /\ pc' = "idle"
    /\ UNCHANGED <<now, disk, item, todo, attempt, answer, receipts, late, history, faults>>

BeginTick ==
    /\ pc = "idle"
    /\ pc' = "import" /\ todo' = Listed
    /\ UNCHANGED <<now, disk, item, attempt, answer, receipts, late, history, faults>>

\* jenkins-worker retry: Retry up to its Import.
StartRetry(n) ==
    /\ pc = "down"
    /\ InventoryOk
    /\ InState(n, {"blocked"})
    /\ record[n].resets < MaxResets
    /\ record[n].reason \notin NotRetryable
    /\ pc' = "import" /\ item' = n /\ todo' = Listed
    /\ UNCHANGED <<now, disk, attempt, answer, receipts, late, history, faults>>

\* A signal, a kill or a power failure.  A request already out may still arrive.
Crash ==
    /\ pc # "down"
    /\ faults < MaxFaults
    /\ faults' = faults + 1
    /\ late' = IF pc = "await" THEN late \cup {[build |-> item, payload |-> record[item].digest]}
               ELSE late
    /\ Exit
    /\ UNCHANGED <<now, disk, receipts, history>>

-----------------------------------------------------------------------------
(* Import, shared by a tick and by retry. *)

Compared(n) ==
    /\ todo' = todo \ {n}
    /\ UNCHANGED <<pc, item, attempt, answer>>

ImportNew(n) ==
    /\ pc = "import" /\ n \in todo
    /\ input[n] # None /\ ~Known(n)
    /\ SaveRecord(n, NewRecord(input[n]), Compared(n))
    /\ UNCHANGED <<now, input, ack, proof, receipts, late, history>>

ImportKnown(n) ==
    /\ pc = "import" /\ n \in todo
    /\ input[n] # None /\ Known(n)
    /\ record[n].digest = input[n]
    /\ Compared(n)
    /\ UNCHANGED <<now, disk, receipts, late, history, faults>>

\* Other bytes under a known identity, or an input removed after the listing.
ImportFails(n) ==
    /\ pc = "import" /\ n \in todo
    /\ \/ input[n] = None
       \/ input[n] # None /\ Known(n) /\ record[n].digest # input[n]
    /\ Exit
    /\ UNCHANGED <<now, disk, receipts, late, history, faults>>

EndImport ==
    /\ pc = "import" /\ todo = {}
    /\ pc' = IF item = NoBuild THEN "scan" ELSE "reset"
    /\ UNCHANGED <<now, disk, item, todo, attempt, answer, receipts, late, history, faults>>

\* Retry saves the new budget and the command is done.
Reset ==
    /\ pc = "reset"
    /\ SaveRecord(item, ResetRecord(record[item]), Exit)
    /\ spent' = [spent EXCEPT ![item] = IF record' = record THEN @ ELSE 0]
    /\ waited' = [waited EXCEPT ![item] = IF record' = record THEN @ ELSE 0]
    /\ UNCHANGED <<now, input, ack, proof, receipts, late>>

-----------------------------------------------------------------------------
(* The scan of a tick. *)

ScanAck(n) ==
    /\ pc = "scan"
    /\ Unacked(n)
    /\ SaveAck(n, UNCHANGED worker)
    /\ UNCHANGED <<now, input, record, proof, receipts, late, history>>

ScanExhausted(n) ==
    /\ pc = "scan"
    /\ Exhausted(n)
    /\ SaveRecord(n, ExhaustedRecord(record[n]), UNCHANGED worker)
    /\ UNCHANGED <<now, input, ack, proof, receipts, late, history>>

ScanDone == pc = "scan" /\ \A n \in Builds : ~Unacked(n) /\ ~Exhausted(n)

\* tick returns ErrSpoolPaused and run ends with it.
StopPaused ==
    /\ ScanDone /\ Paused
    /\ Exit
    /\ UNCHANGED <<now, disk, receipts, late, history, faults>>

NothingDue ==
    /\ ScanDone /\ ~Paused
    /\ \A n \in Builds : ~Due(n)
    /\ EndTick
    /\ UNCHANGED <<now, disk, receipts, late, history, faults>>

\* The round is on disk before the first request leaves.
Reserve(n) ==
    /\ ScanDone /\ ~Paused
    /\ Chosen(n)
    /\ SaveRecord(n, ReservedRecord(record[n]),
                  pc' = "send" /\ item' = n /\ UNCHANGED <<todo, attempt, answer>>)
    /\ waited' = [m \in Builds |-> IF m = n \/ ~Due(m) THEN 0 ELSE waited[m] + 1]
    /\ UNCHANGED <<now, input, ack, proof, receipts, late, spent>>

-----------------------------------------------------------------------------
(* A round. *)

Send ==
    /\ pc = "send"
    /\ pc' = "await" /\ attempt' = attempt + 1
    /\ spent' = [spent EXCEPT ![item] = @ + 1]
    /\ UNCHANGED <<now, disk, item, todo, answer, receipts, late, waited, faults>>

RoundOver(a) == pc' = "settle" /\ answer' = a /\ UNCHANGED <<item, todo, attempt>>

\* The receiver's transaction ran and its answer is read.
Answered ==
    /\ pc = "await"
    /\ Receive(item, record[item].digest)
    /\ RoundOver(Verdict(item, record[item].digest))
    /\ UNCHANGED <<now, disk, late, history, faults>>

\* The request is refused before the transaction: key, source binding, target.
Refused(a) ==
    /\ pc = "await"
    /\ RoundOver(a)
    /\ UNCHANGED <<now, disk, receipts, late, history, faults>>

\* No answer, a transient one or an unreadable one: another attempt if one is
\* left, unless the round's time is up.  The request may still be on its way.
Unanswered ==
    /\ pc = "await"
    /\ \/ /\ attempt < Attempts
          /\ pc' = "send"
          /\ UNCHANGED <<item, todo, attempt, answer>>
       \/ RoundOver("delivery_failed")
    /\ late' = late \cup {[build |-> item, payload |-> record[item].digest]}
    /\ UNCHANGED <<now, disk, receipts, history, faults>>

Settle ==
    /\ pc = "settle"
    /\ \E d \in Delays :
          SaveRecord(item, SettledRecord(record[item], answer, d),
                     CASE answer = "recorded" -> pc' = "ack" /\ UNCHANGED <<item, todo, attempt, answer>>
                       [] answer \in Pauses -> Exit
                       [] OTHER -> EndTick)
    /\ UNCHANGED <<now, input, ack, proof, receipts, late, history>>

Acknowledge ==
    /\ pc = "ack"
    /\ SaveAck(item, EndTick)
    /\ UNCHANGED <<now, input, record, proof, receipts, late, history>>

-----------------------------------------------------------------------------
(* Explicit cleanup, by hand while the worker is down. *)

\* collectorProof and the comparison of CleanupPlan with it.
CollectorProof(n) ==
    /\ proof[n] # None
    /\ proof[n].retired
    /\ proof[n].digest = record[n].digest
    /\ proof[n].handoff >= record[n].delivered

Cleanup(n) ==
    /\ pc = "down"
    /\ InventoryOk /\ ~Paused
    /\ \A m \in Builds : Known(m) /\ input[m] # None => record[m].digest = input[m]
    /\ InState(n, {"delivered"})
    /\ now >= record[n].delivered + Retention
    /\ CollectorProof(n)
    /\ input[n] = None
    /\ ack[n] = record[n].digest
    /\ record' = [record EXCEPT ![n] = CompactRecord(@)]
    /\ UNCHANGED <<now, input, ack, proof, worker, receipts, late, history, faults>>

-----------------------------------------------------------------------------
Environment ==
    \/ \E n \in Builds, p \in Payloads : Publish(n, p) \/ Restore(n, p) \/ OneShot(n, p)
    \/ \E n \in Builds : HandOff(n) \/ Retire(n) \/ RemoveInput(n)
    \/ LateArrival
    \/ Tick

Operator == Start \/ \E n \in Builds : StartRetry(n) \/ Cleanup(n)

Import == EndImport \/ \E n \in Builds : ImportNew(n) \/ ImportKnown(n) \/ ImportFails(n)

Scan ==
    \/ StopPaused
    \/ NothingDue
    \/ \E n \in Builds : ScanAck(n) \/ ScanExhausted(n) \/ Reserve(n)

Round == Send \/ Answered \/ (\E a \in Refusals : Refused(a)) \/ Unanswered \/ Settle \/ Acknowledge

Next == Environment \/ Operator \/ Crash \/ BeginTick \/ Import \/ Reset \/ Scan \/ Round

Spec == Init /\ [][Next]_spoolVars

\* A running worker goes on: its waits are a timer, a request with a time limit, and
\* local files.
WorkerStep == BeginTick \/ Import \/ Reset \/ Scan \/ Round

\* The operator starts the worker again whenever it has ended; the repository leaves
\* that to the operator (server/jenkins-worker.md).
FairSpec == Spec /\ WF_spoolVars(WorkerStep) /\ WF_spoolVars(Start)

\* The operator also retries what is blocked, as often as retry lets him.
AttendedSpec == FairSpec /\ \A n \in Builds : SF_spoolVars(StartRetry(n))

-----------------------------------------------------------------------------
(* Properties. *)

\* The types, and what the program counter says of the rest of the process.
TypeOK ==
    /\ now \in 0..MaxTime
    /\ input \in [Builds -> Payloads \cup {None}]
    /\ record \in [Builds -> SpoolRecord \cup {None}]
    /\ \A n \in Builds : Known(n) => /\ record[n].rounds <= MaxRounds
                                     /\ record[n].resets <= MaxResets
    /\ ack \in [Builds -> Payloads \cup {None}]
    /\ proof \in [Builds -> Proof \cup {None}]
    /\ pc \in {"down", "idle", "import", "reset", "scan", "send", "await", "settle", "ack"}
    /\ item \in Builds \cup {NoBuild}
    /\ todo \subseteq Builds
    /\ attempt \in 0..Attempts
    /\ answer \in Answers
    /\ receipts \in [Builds -> Meanings \cup {None}]
    /\ late \subseteq Request
    /\ spent \in [Builds -> Nat]
    /\ waited \in [Builds -> Nat]
    /\ faults \in 0..MaxFaults

\* An ack the collector can see stands for a build whose record is finished with
\* the same bytes and whose meaning is the one the receiver recorded, whatever
\* crashed, was answered late or was sent by somebody else.  So the collector never
\* deletes the only copy of an undelivered build, and inventory never locks the
\* worker out of its own directory.
AckMeansRecorded ==
    \A n \in Builds :
        ack[n] # None => /\ InState(n, Finished)
                         /\ record[n].digest = ack[n]
                         /\ receipts[n] = Meaning[ack[n]]

\* The persistent budget: between two manual resets at most MaxRounds * Attempts
\* requests leave for a build, although crashes and failed writes may follow any of
\* them (spool_worker.go:176, a crash cannot evade the persistent cap).
BudgetHolds == \A n \in Builds : spent[n] <= MaxRounds * Attempts

\* A build that is due is passed over at most once by each other build and each of that
\* one's manual resets, plus once for every fault (spool_worker.go:93, failure of a
\* different item cannot starve an older due item). A build whose own budget ran out
\* meanwhile starts again behind the others when it is reset.
NoStarvation ==
    \A n \in Builds :
        waited[n] <= (1 + MaxResets) * Cardinality(Builds \ {n}) + faults

\* While one build is blocked for a reason that pauses the source, no request leaves
\* for any build, not even after restarts.
PauseStopsSource == [][(\E n \in Builds : spent'[n] > spent[n]) => \A m \in Builds : ~PausedBuild(m)]_spoolVars

\* A source_binding_mismatch is lifted by nothing, neither by retry, a restart, a
\* restored input nor a cleanup; and while it stands no request leaves for any build
\* (spool_worker.go:243; jenkins-worker.md:82, a binding conflict is not reset away).
Mismatched(n) == InState(n, {"blocked"}) /\ record[n].reason = "source_binding_mismatch"
MismatchIsPermanent ==
    [][\A n \in Builds : Mismatched(n) =>
          /\ Mismatched(n)'
          /\ \A m \in Builds : ~(spent'[m] > spent[m])]_spoolVars

\* A known build keeps its identity and its bytes; once delivered it stays delivered
\* and is never sent again, even when its input reappears after compaction.
IdentityIsPermanent ==
    [][\A n \in Builds : Known(n) =>
          /\ Known(n)'
          /\ record'[n].digest = record[n].digest
          /\ InState(n, Finished) => InState(n, Finished)' /\ spent'[n] = spent[n]]_spoolVars

\* An input under a known identity with other bytes stops the worker.
InputConflict == \E n \in Builds : Known(n) /\ input[n] # None /\ input[n] # record[n].digest

\* A delivered build is acknowledged, although the process may end between the two
\* files, and although the source may be paused for another build.
DeliveredIsAcknowledged ==
    \A n \in Builds : InState(n, {"delivered"}) ~> ack[n] # None \/ InputConflict

\* A round whose result is unknown does not stay unknown: a restarted worker resumes
\* it, unless the source is paused.
UnknownIsResolved ==
    \A n \in Builds :
        InState(n, {"in_flight"}) ~> ~InState(n, {"in_flight"}) \/ Paused \/ InputConflict

\* ADR-0035 of a 401, a source binding error or a trust error: the source is paused,
\* and explicitly resumed once the configuration is repaired.
PauseCanBeLifted ==
    \A n \in Builds : PausedBuild(n) /\ record[n].resets < MaxResets ~> ~PausedBuild(n)

\* JenkinsHandoff, read off the directories and the receiver.
Handoff == INSTANCE JenkinsHandoff
    WITH taken <- [n \in Builds |-> IF Known(n) THEN record[n].digest ELSE None],
         recorded <- receipts,
         confirmed <- {n \in Builds : ack[n] # None},
         released <- {n \in Builds : IF proof[n] = None THEN FALSE ELSE proof[n].retired},
         givenUp <- {n \in Builds : InState(n, {"compacted"})}

\* The worker implements the hand-off.
HandoffSpec == Handoff!Spec
=============================================================================
