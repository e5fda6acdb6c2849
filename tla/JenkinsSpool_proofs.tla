------------------------ MODULE JenkinsSpool_proofs ------------------------
(***************************************************************************)
(* Proofs about JenkinsSpool for every set of builds and payloads, every   *)
(* budget, every retention and any number of crashes and failed writes.    *)
(*                                                                         *)
(* The inductive invariant SpoolInv has three parts: the types, what holds *)
(* of the files, receipt and requests of each build (BuildOK), and what    *)
(* the program counter says (ProcessOK).  The acks are right because a     *)
(* record is finished only with the receiver's receipt behind it, and the  *)
(* budget holds because the requests a round may still make are paid for   *)
(* before the first one leaves.                                            *)
(***************************************************************************)
EXTENDS JenkinsSpool, FiniteSetTheorems, TLAPS

SpoolTypes ==
    /\ now \in 0..MaxTime
    /\ input \in [Builds -> Payloads \cup {None}]
    /\ record \in [Builds -> SpoolRecord \cup {None}]
    /\ ack \in [Builds -> Payloads \cup {None}]
    /\ proof \in [Builds -> Proof \cup {None}]
    /\ pc \in {"down", "idle", "import", "reset", "scan", "send", "await", "settle", "ack"}
    /\ item \in Builds \cup {NoBuild}
    /\ todo \subseteq Builds
    /\ attempt \in 0..Attempts
    /\ answer \in Answers
    /\ receipts \in [Builds -> Meanings \cup {None}]
    /\ late \subseteq Request
    /\ spent \in [Builds -> Nat]
    /\ waited \in [Builds -> Nat]
    /\ faults \in 0..MaxFaults

\* The requests the rounds of a record pay for; a tombstone no longer counts them.
PaidFor(r) == Attempts * (IF r.state = "compacted" THEN MaxRounds ELSE r.rounds)

BuildOK(n) ==
    /\ Known(n) => /\ record[n].rounds <= MaxRounds
                   /\ record[n].resets <= MaxResets
                   /\ spent[n] <= PaidFor(record[n])
    /\ ~Known(n) => spent[n] = 0
    /\ InState(n, Finished) => receipts[n] = Meaning[record[n].digest]
    /\ ack[n] # None => InState(n, Finished) /\ record[n].digest = ack[n]
    /\ proof[n] # None => ack[n] = proof[n].digest

ProcessOK ==
    /\ pc \in {"down", "idle", "scan"} => item = NoBuild
    /\ pc \in {"import", "reset", "down", "idle", "scan"} => attempt = 0
    /\ pc = "import" /\ item # NoBuild => InState(item, {"blocked"}) /\ record[item].resets < MaxResets
    /\ pc = "reset" => /\ item # NoBuild
                       /\ InState(item, {"blocked"}) /\ record[item].resets < MaxResets
    /\ pc \in {"send", "await", "settle"} =>
          /\ item # NoBuild
          /\ InState(item, {"in_flight"})
          /\ spent[item] + (Attempts - attempt) <= Attempts * record[item].rounds
          /\ \A m \in Builds : ~PausedBuild(m)
    /\ pc = "send" => attempt < Attempts
    /\ pc = "settle" /\ answer = "recorded" => receipts[item] = Meaning[record[item].digest]
    /\ pc = "ack" => item # NoBuild /\ InState(item, {"delivered"})

SpoolInv == SpoolTypes /\ (\A n \in Builds : BuildOK(n)) /\ ProcessOK

-----------------------------------------------------------------------------
(* Arithmetic of the budget, apart from everything else. *)

\* One more round pays for Attempts more requests.
LEMMA OneMoreRound ==
    ASSUME NEW A \in Nat, NEW r \in Nat
    PROVE  A * (r + 1) = A * r + A /\ A * r \in Nat /\ A * (r + 1) \in Nat
BY SMT

\* More rounds never pay for less.
LEMMA MoreRoundsPayMore ==
    ASSUME NEW A \in Nat, NEW r \in Nat, NEW m \in Nat, r <= m
    PROVE  A * r <= A * m /\ A * m \in Nat
<1> DEFINE k == m - r
<1>1. k \in Nat /\ m = r + k
  BY SMT
<1>2. A * (r + k) = A * r + A * k /\ A * k \in Nat /\ A * r \in Nat
  BY <1>1, SMT
<1> QED
  BY <1>1, <1>2, SMT

-----------------------------------------------------------------------------
(* The records the worker writes. *)

\* A new record has its identity, no round and no success.
LEMMA NewRecordFacts ==
    ASSUME NEW p \in Payloads, now \in Nat
    PROVE  /\ NewRecord(p) \in SpoolRecord
           /\ NewRecord(p).digest = p
           /\ NewRecord(p).state \in {"pending", "blocked"}
           /\ NewRecord(p).rounds = 0 /\ NewRecord(p).resets = 0
BY DEF NewRecord, SpoolRecord, States, Reasons, Refusals, Pauses, NotRetryable

\* Giving up keeps the identity and the budget.
LEMMA ExhaustedRecordFacts ==
    ASSUME NEW r \in SpoolRecord
    PROVE  /\ ExhaustedRecord(r) \in SpoolRecord
           /\ ExhaustedRecord(r).digest = r.digest
           /\ ExhaustedRecord(r).state = "blocked"
           /\ ExhaustedRecord(r).reason = "retry_exhausted"
           /\ ExhaustedRecord(r).rounds = r.rounds /\ ExhaustedRecord(r).resets = r.resets
           /\ ExhaustedRecord(r).next = r.next
BY DEF ExhaustedRecord, SpoolRecord, States, Reasons, Refusals, Pauses, NotRetryable

\* A reservation counts one round.
LEMMA ReservedRecordFacts ==
    ASSUME NEW r \in SpoolRecord, now \in Nat
    PROVE  /\ ReservedRecord(r) \in SpoolRecord
           /\ ReservedRecord(r).digest = r.digest
           /\ ReservedRecord(r).state = "in_flight"
           /\ ReservedRecord(r).rounds = r.rounds + 1 /\ ReservedRecord(r).resets = r.resets
           /\ ReservedRecord(r).next = r.next
<1> DEFINE f == IF r.rounds = 0 THEN now ELSE r.first
           s == [r EXCEPT !.state = "in_flight", !.reason = "", !.rounds = r.rounds + 1, !.first = f]
<1>1. f \in Nat /\ r.rounds + 1 \in Nat
  BY DEF SpoolRecord
<1>2. ReservedRecord(r) = s
  BY DEF ReservedRecord
<1> HIDE DEF f
<1>3. s \in SpoolRecord /\ s.digest = r.digest /\ s.state = "in_flight"
      /\ s.rounds = r.rounds + 1 /\ s.resets = r.resets /\ s.next = r.next
  BY <1>1 DEF SpoolRecord, States, Reasons
<1> QED
  BY <1>2, <1>3

\* A round ends delivered exactly when the receiver said so, counts nothing more, and is
\* followed by another one only after a delay.
LEMMA SettledRecordFacts ==
    ASSUME NEW r \in SpoolRecord, NEW x \in Answers, NEW d \in Nat, now \in Nat
    PROVE  /\ SettledRecord(r, x, d) \in SpoolRecord
           /\ SettledRecord(r, x, d).digest = r.digest
           /\ SettledRecord(r, x, d).state =
                 IF x = "recorded" THEN "delivered"
                 ELSE IF x = "delivery_failed" /\ r.rounds < MaxRounds /\ now < r.first + Window
                      THEN "retry_wait" ELSE "blocked"
           /\ SettledRecord(r, x, d).rounds = r.rounds /\ SettledRecord(r, x, d).resets = r.resets
           /\ SettledRecord(r, x, d).state = "retry_wait" => SettledRecord(r, x, d).next = now + d
<1>1. r.first \in Nat /\ now + d \in Nat
  BY DEF SpoolRecord
<1>2. CASE x = "recorded"
  BY <1>2 DEF SettledRecord, SpoolRecord, States
<1>3. CASE x # "recorded" /\ x # "delivery_failed"
  BY <1>3 DEF SettledRecord, SpoolRecord, States, Reasons, Refusals, Pauses, NotRetryable, Answers
<1>4. CASE x = "delivery_failed" /\ r.rounds < MaxRounds /\ now < r.first + Window
  BY <1>1, <1>4 DEF SettledRecord, SpoolRecord, States, Reasons
<1>5. CASE x = "delivery_failed" /\ ~(r.rounds < MaxRounds /\ now < r.first + Window)
  BY <1>5, ExhaustedRecordFacts DEF SettledRecord
<1> QED
  BY <1>2, <1>3, <1>4, <1>5

\* A manual reset starts a new budget and counts itself.
LEMMA ResetRecordFacts ==
    ASSUME NEW r \in SpoolRecord, now \in Nat
    PROVE  /\ ResetRecord(r) \in SpoolRecord
           /\ ResetRecord(r).digest = r.digest
           /\ ResetRecord(r).state = "pending"
           /\ ResetRecord(r).rounds = 0 /\ ResetRecord(r).resets = r.resets + 1
<1> DEFINE k == r.resets + 1
           s == [r EXCEPT !.state = "pending", !.reason = "", !.rounds = 0, !.first = 0,
                          !.next = now, !.resets = k]
<1>1. k \in Nat
  BY DEF SpoolRecord
<1>2. ResetRecord(r) = s
  BY DEF ResetRecord
<1> HIDE DEF k
<1>3. s \in SpoolRecord /\ s.digest = r.digest /\ s.state = "pending"
      /\ s.rounds = 0 /\ s.resets = k
  BY <1>1 DEF SpoolRecord, States, Reasons
<1> QED
  BY <1>2, <1>3 DEF k

\* A tombstone keeps the identity.
LEMMA CompactRecordFacts ==
    ASSUME NEW r \in SpoolRecord
    PROVE  /\ CompactRecord(r) \in SpoolRecord
           /\ CompactRecord(r).digest = r.digest
           /\ CompactRecord(r).state = "compacted"
           /\ CompactRecord(r).rounds = 0 /\ CompactRecord(r).resets = 0
BY DEF CompactRecord, SpoolRecord, States

-----------------------------------------------------------------------------
(* Steps that leave a part of the invariant alone. *)

\* What is known of a record that is there.
LEMMA KnownRecord ==
    ASSUME SpoolTypes, NEW n \in Builds
    PROVE  /\ Known(n) => /\ record[n] \in SpoolRecord
                          /\ record[n].digest \in Payloads
                          /\ record[n].rounds \in Nat /\ record[n].resets \in Nat
           /\ \A S : InState(n, S) <=> Known(n) /\ record[n].state \in S
<1>1. record[n] \in SpoolRecord \cup {None}
  BY DEF SpoolTypes
<1>2. Known(n) => record[n] \in SpoolRecord
  BY <1>1 DEF Known
<1>3. ASSUME Known(n)
      PROVE  /\ record[n].digest \in Payloads
             /\ record[n].rounds \in Nat /\ record[n].resets \in Nat
  BY <1>2, <1>3 DEF SpoolRecord
<1>4. \A S : InState(n, S) <=> Known(n) /\ record[n].state \in S
  BY DEF InState, Known
<1> QED
  BY <1>2, <1>3, <1>4

\* A build whose files and requests stay as they are stays right, also when the
\* receiver's first receipt for it is written.
LEMMA StableBuild ==
    ASSUME SpoolTypes, NEW n \in Builds, BuildOK(n),
           record'[n] = record[n], ack'[n] = ack[n], proof'[n] = proof[n],
           spent'[n] = spent[n],
           receipts[n] # None => receipts'[n] = receipts[n]
    PROVE  BuildOK(n)'
<1>1. InState(n, Finished) => receipts'[n] = Meaning[record[n].digest]
  <2> SUFFICES ASSUME InState(n, Finished)
               PROVE  receipts'[n] = Meaning[record[n].digest]
    OBVIOUS
  <2>1. record[n].digest \in Payloads
    BY KnownRecord
  <2>2. receipts[n] = Meaning[record[n].digest] /\ receipts[n] # None
    BY <2>1, SpoolAssumption, NoneAssumption DEF BuildOK
  <2> QED
    BY <2>2
<1> QED
  BY <1>1 DEF BuildOK, Known, InState, PaidFor

\* What a record must be for the build to stay right once it is saved.
Writable(n, r) ==
    /\ r \in SpoolRecord
    /\ r.rounds <= MaxRounds /\ r.resets <= MaxResets
    /\ spent[n] <= PaidFor(r)
    /\ r.state \in Finished => receipts[n] = Meaning[r.digest]
    /\ ack[n] # None => r.state \in Finished /\ r.digest = ack[n]

\* Saving such a record keeps every build right, whether the save succeeds or leaves
\* the old content.
LEMMA SaveKeepsBuilds ==
    ASSUME SpoolInv, NEW n \in Builds, NEW r, Writable(n, r),
           record' \in {record, [record EXCEPT ![n] = r]},
           UNCHANGED <<ack, proof, receipts, spent>>
    PROVE  /\ record' \in [Builds -> SpoolRecord \cup {None}]
           /\ \A m \in Builds : m # n => record'[m] = record[m]
           /\ record'[n] \in {record[n], r}
           /\ \A m \in Builds : BuildOK(m)'
<1>1. record \in [Builds -> SpoolRecord \cup {None}] /\ r \in SpoolRecord /\ r # None
  BY NoneAssumption DEF SpoolInv, SpoolTypes, Writable
<1>2. /\ record' \in [Builds -> SpoolRecord \cup {None}]
      /\ \A m \in Builds : m # n => record'[m] = record[m]
      /\ record'[n] \in {record[n], r}
  BY <1>1
<1>3. ASSUME NEW m \in Builds
      PROVE  BuildOK(m)'
  <2>1. CASE record'[m] = record[m]
    BY <2>1, StableBuild DEF SpoolInv
  <2>2. CASE m = n /\ record'[n] = r
    BY <1>1, <2>2 DEF SpoolInv, BuildOK, Writable, Known, InState, PaidFor
  <2> QED
    BY <1>2, <2>1, <2>2
<1> QED
  BY <1>2, <1>3

\* A process that has ended, or sits between two ticks, remembers nothing.
LEMMA ExitKeeps ==
    ASSUME Exit \/ EndTick
    PROVE  /\ ProcessOK'
           /\ pc' \in {"down", "idle"} /\ item' = NoBuild /\ todo' = {}
           /\ attempt' = 0 /\ answer' \in Answers
BY DEF Exit, EndTick, ProcessOK, Answers

\* The types of what only the process changes, after it has ended.
LEMMA ExitTypes ==
    ASSUME SpoolTypes, Exit \/ EndTick
    PROVE  /\ pc' \in {"down", "idle", "import", "reset", "scan", "send", "await", "settle", "ack"}
           /\ item' \in Builds \cup {NoBuild}
           /\ todo' \subseteq Builds
           /\ attempt' \in 0..Attempts
           /\ answer' \in Answers
BY ExitKeeps, SpoolAssumption

\* Steps around the worker leave the process right.
LEMMA StableProcess ==
    ASSUME SpoolTypes, ProcessOK, UNCHANGED <<worker, record, spent>>,
           \A m \in Builds : receipts[m] # None => receipts'[m] = receipts[m]
    PROVE  ProcessOK'
<1>1. pc = "settle" /\ answer = "recorded" => receipts'[item] = Meaning[record[item].digest]
  <2> SUFFICES ASSUME pc = "settle", answer = "recorded"
               PROVE  receipts'[item] = Meaning[record[item].digest]
    OBVIOUS
  <2>1. item \in Builds /\ InState(item, {"in_flight"})
    BY DEF ProcessOK, SpoolTypes
  <2>2. record[item].digest \in Payloads
    BY <2>1, KnownRecord
  <2>3. receipts[item] = Meaning[record[item].digest] /\ receipts[item] # None
    BY <2>2, SpoolAssumption, NoneAssumption DEF ProcessOK
  <2> QED
    BY <2>1, <2>3
<1> QED
  BY <1>1 DEF ProcessOK, worker, InState, PausedBuild

\* The receiver records the first meaning and never another.
LEMMA ReceiveFacts ==
    ASSUME SpoolTypes, NEW n \in Builds, NEW p \in Payloads, Receive(n, p)
    PROVE  /\ receipts' \in [Builds -> Meanings \cup {None}]
           /\ \A m \in Builds : receipts[m] # None => receipts'[m] = receipts[m]
           /\ \A m \in Builds : m # n => receipts'[m] = receipts[m]
           /\ receipts[n] = None => receipts'[n] = Meaning[p]
           /\ Verdict(n, p) = "recorded" => receipts'[n] = Meaning[p]
<1>1. receipts \in [Builds -> Meanings \cup {None}] /\ Meaning[p] \in Meanings
  BY SpoolAssumption DEF SpoolTypes
<1> QED
  BY <1>1 DEF Receive, Verdict

-----------------------------------------------------------------------------
(* The initial state and the steps, one lemma for each part of Next.  *)

\* Nothing is known and the worker is down.
LEMMA InitKeeps ==
    ASSUME Init PROVE SpoolInv
BY SpoolAssumption, NoneAssumption
   DEF Init, SpoolInv, SpoolTypes, BuildOK, ProcessOK, Known, InState, Answers

\* The collector, the operator's restored inputs, other senders, late requests and
\* the clock.
LEMMA EnvironmentKeeps ==
    ASSUME SpoolInv, Environment PROVE SpoolInv'
<1> USE DEF SpoolInv
<1>1. ASSUME NEW n \in Builds, NEW p \in Payloads, Publish(n, p) \/ Restore(n, p)
      PROVE  SpoolInv'
  <2>1. SpoolTypes'
    <3>1. input' \in [Builds -> Payloads \cup {None}]
      BY <1>1 DEF Publish, Restore, SpoolTypes
    <3>2. faults' \in 0..MaxFaults
      BY <1>1, SpoolAssumption DEF Publish, Restore, SpoolTypes
    <3> QED
      BY <1>1, <3>1, <3>2 DEF Publish, Restore, SpoolTypes, worker, history
  <2>2. \A m \in Builds : BuildOK(m)'
    BY <1>1, StableBuild DEF Publish, Restore, history
  <2>3. ProcessOK'
    BY <1>1, StableProcess DEF Publish, Restore, history
  <2> QED
    BY <2>1, <2>2, <2>3
<1>2. ASSUME NEW n \in Builds, NEW p \in Payloads, OneShot(n, p)
      PROVE  SpoolInv'
  <2>1. SpoolTypes'
    BY <1>2, ReceiveFacts DEF OneShot, SpoolTypes, disk, worker, history
  <2>2. \A m \in Builds : BuildOK(m)'
    BY <1>2, StableBuild, ReceiveFacts DEF OneShot, disk, history
  <2>3. ProcessOK'
    BY <1>2, StableProcess, ReceiveFacts DEF OneShot, disk, history
  <2> QED
    BY <2>1, <2>2, <2>3
<1>3. ASSUME NEW n \in Builds, HandOff(n)
      PROVE  SpoolInv'
  <2>1. SpoolTypes'
    <3>1. [digest |-> input[n], handoff |-> now, retired |-> FALSE] \in Proof
      BY <1>3, SpoolAssumption DEF HandOff, SpoolTypes, Proof
    <3> QED
      BY <1>3, <3>1 DEF HandOff, SpoolTypes, worker, history
  <2>2. ASSUME NEW m \in Builds
        PROVE  BuildOK(m)'
    <3>1. CASE m = n
      BY <1>3, <3>1 DEF HandOff, SpoolTypes, BuildOK, Known, InState, PaidFor, history
    <3>2. CASE m # n
      BY <1>3, <3>2, StableBuild DEF HandOff, SpoolTypes, history
    <3> QED
      BY <3>1, <3>2
  <2>3. ProcessOK'
    BY <1>3, StableProcess DEF HandOff, history
  <2> QED
    BY <2>1, <2>2, <2>3
<1>4. ASSUME NEW n \in Builds, Retire(n)
      PROVE  SpoolInv'
  <2> DEFINE retired == [proof[n] EXCEPT !.retired = TRUE]
  <2>0. /\ proof[n] \in Proof
        /\ retired \in Proof /\ retired.digest = proof[n].digest
        /\ proof' = [proof EXCEPT ![n] = retired]
    BY <1>4 DEF Retire, SpoolTypes, Proof
  <2> HIDE DEF retired
  <2>1. SpoolTypes'
    BY <1>4, <2>0 DEF Retire, SpoolTypes, worker, history
  <2>2. ASSUME NEW m \in Builds
        PROVE  BuildOK(m)'
    <3>1. CASE m = n
      <4>1. proof'[n].digest = proof[n].digest /\ proof[n] # None
        BY <1>4, <2>0 DEF Retire, SpoolTypes
      <4> QED
        BY <1>4, <3>1, <4>1 DEF Retire, BuildOK, Known, InState, PaidFor, history
    <3>2. CASE m # n
      BY <1>4, <2>0, <3>2, StableBuild DEF Retire, SpoolTypes, history
    <3> QED
      BY <3>1, <3>2
  <2>3. ProcessOK'
    BY <1>4, StableProcess DEF Retire, history
  <2> QED
    BY <2>1, <2>2, <2>3
<1>5. ASSUME NEW n \in Builds, RemoveInput(n)
      PROVE  SpoolInv'
  <2>1. SpoolTypes'
    BY <1>5 DEF RemoveInput, SpoolTypes, worker, history
  <2>2. \A m \in Builds : BuildOK(m)'
    BY <1>5, StableBuild DEF RemoveInput, history
  <2>3. ProcessOK'
    BY <1>5, StableProcess DEF RemoveInput, history
  <2> QED
    BY <2>1, <2>2, <2>3
<1>6. ASSUME LateArrival
      PROVE  SpoolInv'
  <2>0. PICK q \in late : /\ Receive(q.build, q.payload)
                          /\ late' = late \ {q}
                          /\ UNCHANGED <<now, disk, worker, history, faults>>
    BY <1>6 DEF LateArrival
  <2>1. q.build \in Builds /\ q.payload \in Payloads
    BY DEF SpoolTypes, Request
  <2>2. /\ receipts' \in [Builds -> Meanings \cup {None}]
        /\ \A m \in Builds : receipts[m] # None => receipts'[m] = receipts[m]
    BY <2>0, <2>1, ReceiveFacts
  <2>3. SpoolTypes'
    BY <2>0, <2>2 DEF SpoolTypes, disk, worker, history
  <2>4. \A m \in Builds : BuildOK(m)'
    BY <2>0, <2>2, StableBuild DEF disk, history
  <2>5. ProcessOK'
    BY <2>0, <2>2, StableProcess DEF disk, history
  <2> QED
    BY <2>3, <2>4, <2>5
<1>7. ASSUME Tick
      PROVE  SpoolInv'
  <2>1. now' \in 0..MaxTime
    BY <1>7, SpoolAssumption DEF Tick, SpoolTypes
  <2>2. SpoolTypes'
    BY <1>7, <2>1 DEF Tick, SpoolTypes, disk, worker, history
  <2>3. \A m \in Builds : BuildOK(m)'
    BY <1>7, StableBuild DEF Tick, disk, history
  <2>4. ProcessOK'
    BY <1>7, StableProcess DEF Tick, disk, history
  <2> QED
    BY <2>2, <2>3, <2>4
<1> QED
  BY <1>1, <1>2, <1>3, <1>4, <1>5, <1>6, <1>7 DEF Environment

\* Steps in which the worker ends, or ends a tick, without touching a file.
LEMMA EndKeeps ==
    ASSUME SpoolInv, Exit \/ EndTick, UNCHANGED <<now, disk, receipts, history>>,
           late' \subseteq Request, faults' \in 0..MaxFaults
    PROVE  SpoolInv'
<1> USE DEF SpoolInv
<1>1. SpoolTypes'
  <2>1. /\ pc' \in {"down", "idle", "import", "reset", "scan", "send", "await", "settle", "ack"}
        /\ item' \in Builds \cup {NoBuild} /\ todo' \subseteq Builds
        /\ attempt' \in 0..Attempts /\ answer' \in Answers
    BY ExitTypes
  <2> QED
    BY <2>1 DEF SpoolTypes, disk, history
<1>2. \A m \in Builds : BuildOK(m)'
  BY StableBuild DEF disk, history
<1>3. ProcessOK'
  BY ExitKeeps
<1> QED
  BY <1>1, <1>2, <1>3

\* A request out of the worker names its build and the bytes of its record.
LEMMA RequestTyped ==
    ASSUME SpoolInv, pc = "await"
    PROVE  [build |-> item, payload |-> record[item].digest] \in Request
<1>1. item \in Builds /\ Known(item)
  BY KnownRecord DEF SpoolInv, SpoolTypes, ProcessOK
<1>2. record[item].digest \in Payloads
  BY <1>1, KnownRecord DEF SpoolInv
<1> QED
  BY <1>1, <1>2 DEF Request

\* Starting, retrying, crashing and the beginning of a tick.
LEMMA LifeCycleKeeps ==
    ASSUME SpoolInv, Start \/ BeginTick \/ Crash \/ (\E n \in Builds : StartRetry(n))
    PROVE  SpoolInv'
<1> USE DEF SpoolInv
<1>1. ASSUME Start \/ BeginTick
      PROVE  SpoolInv'
  <2>1. SpoolTypes'
    BY <1>1 DEF Start, BeginTick, Listed, SpoolTypes, disk, history
  <2>2. \A m \in Builds : BuildOK(m)'
    BY <1>1, StableBuild DEF Start, BeginTick, disk, history
  <2>3. ProcessOK'
    BY <1>1 DEF Start, BeginTick, ProcessOK, disk
  <2> QED
    BY <2>1, <2>2, <2>3
<1>2. ASSUME Crash
      PROVE  SpoolInv'
  <2>1. late' \subseteq Request
    BY <1>2, RequestTyped DEF Crash, SpoolTypes
  <2>2. faults' \in 0..MaxFaults
    BY <1>2, SpoolAssumption DEF Crash, SpoolTypes
  <2> QED
    BY <1>2, <2>1, <2>2, EndKeeps DEF Crash
<1>3. ASSUME NEW n \in Builds, StartRetry(n)
      PROVE  SpoolInv'
  <2>1. SpoolTypes'
    BY <1>3 DEF StartRetry, Listed, SpoolTypes, disk, history
  <2>2. \A m \in Builds : BuildOK(m)'
    BY <1>3, StableBuild DEF StartRetry, disk, history
  <2>3. ProcessOK'
    BY <1>3 DEF StartRetry, ProcessOK, InState, disk
  <2> QED
    BY <2>1, <2>2, <2>3
<1> QED
  BY <1>1, <1>2, <1>3

\* Comparing and importing the inputs.
LEMMA ImportKeeps ==
    ASSUME SpoolInv, Import PROVE SpoolInv'
<1> USE DEF SpoolInv
<1>1. ASSUME NEW n \in Builds, ImportNew(n)
      PROVE  SpoolInv'
  <2> DEFINE r == NewRecord(input[n])
  <2>1. input[n] \in Payloads /\ now \in Nat /\ ~Known(n)
    BY <1>1, SpoolAssumption DEF ImportNew, SpoolTypes
  <2>2. /\ r \in SpoolRecord /\ r.state \in {"pending", "blocked"}
        /\ r.rounds = 0 /\ r.resets = 0
    BY <2>1, NewRecordFacts
  <2>3. record' \in {record, [record EXCEPT ![n] = r]}
    BY <1>1 DEF ImportNew, SaveRecord
  <2>4. UNCHANGED <<ack, proof, receipts, spent>>
    BY <1>1 DEF ImportNew, history
  <2> HIDE DEF r
  <2>5. Writable(n, r)
    <3>1. spent[n] = 0 /\ ack[n] = None
      BY <2>1, KnownRecord DEF BuildOK
    <3>2. PaidFor(r) = Attempts * 0
      BY <2>2 DEF PaidFor
    <3>3. Attempts * 0 = 0
      BY SpoolAssumption, OneMoreRound
    <3> QED
      BY <2>2, <3>1, <3>2, <3>3, SpoolAssumption DEF Writable, Finished
  <2>6. /\ record' \in [Builds -> SpoolRecord \cup {None}]
        /\ \A m \in Builds : m # n => record'[m] = record[m]
        /\ \A m \in Builds : BuildOK(m)'
    BY <2>3, <2>4, <2>5, SaveKeepsBuilds
  <2>7. CASE Compared(n) /\ UNCHANGED faults
    <3>1. SpoolTypes'
      BY <1>1, <2>6, <2>7 DEF ImportNew, Compared, SpoolTypes, history
    <3>2. item # n
      BY <1>1, <2>1, SpoolAssumption DEF ImportNew, ProcessOK, NoBuild, InState, Known
    <3>3. ProcessOK'
      BY <1>1, <2>6, <2>7, <3>2 DEF ImportNew, Compared, ProcessOK, InState, SpoolTypes
    <3> QED
      BY <2>6, <3>1, <3>3
  <2>8. CASE faults < MaxFaults /\ faults' = faults + 1 /\ Exit
    <3>1. SpoolTypes'
      <4>1. faults' \in 0..MaxFaults
        BY <2>8, SpoolAssumption DEF SpoolTypes
      <4> QED
        BY <1>1, <2>6, <2>8, <4>1, ExitTypes DEF ImportNew, SpoolTypes, history
    <3>2. ProcessOK'
      BY <2>8, ExitKeeps
    <3> QED
      BY <2>6, <3>1, <3>2
  <2> QED
    BY <1>1, <2>7, <2>8 DEF ImportNew, SaveRecord
<1>2. ASSUME NEW n \in Builds, ImportKnown(n)
      PROVE  SpoolInv'
  <2>1. SpoolTypes'
    BY <1>2 DEF ImportKnown, Compared, SpoolTypes, disk, history
  <2>2. \A m \in Builds : BuildOK(m)'
    BY <1>2, StableBuild DEF ImportKnown, disk, history
  <2>3. ProcessOK'
    BY <1>2 DEF ImportKnown, Compared, ProcessOK, InState, disk
  <2> QED
    BY <2>1, <2>2, <2>3
<1>3. ASSUME NEW n \in Builds, ImportFails(n)
      PROVE  SpoolInv'
  BY <1>3, EndKeeps DEF ImportFails, SpoolTypes
<1>4. ASSUME EndImport
      PROVE  SpoolInv'
  <2>1. SpoolTypes'
    BY <1>4 DEF EndImport, SpoolTypes, disk, history
  <2>2. \A m \in Builds : BuildOK(m)'
    BY <1>4, StableBuild DEF EndImport, disk, history
  <2>3. ProcessOK'
    BY <1>4 DEF EndImport, ProcessOK, InState, disk
  <2> QED
    BY <2>1, <2>2, <2>3
<1> QED
  BY <1>1, <1>2, <1>3, <1>4 DEF Import

\* A failed save has spent one more fault, and no more than there are.
LEMMA OneMoreFault ==
    ASSUME SpoolTypes, faults < MaxFaults, faults' = faults + 1
    PROVE  faults' \in 0..MaxFaults
BY SpoolAssumption DEF SpoolTypes

\* The manual reset.
LEMMA ResetKeeps ==
    ASSUME SpoolInv, Reset PROVE SpoolInv'
<1> USE DEF SpoolInv
<1> DEFINE r == ResetRecord(record[item])
<1>1. /\ item \in Builds /\ Known(item)
      /\ InState(item, {"blocked"}) /\ record[item].resets < MaxResets
  BY KnownRecord DEF Reset, ProcessOK, SpoolTypes
<1>2. record[item] \in SpoolRecord /\ record[item].resets \in Nat /\ now \in Nat
  BY <1>1, KnownRecord, SpoolAssumption DEF SpoolTypes
<1>3. /\ r \in SpoolRecord /\ r.digest = record[item].digest /\ r.state = "pending"
      /\ r.rounds = 0 /\ r.resets = record[item].resets + 1
  BY <1>2, ResetRecordFacts
<1>4. record' \in {record, [record EXCEPT ![item] = r]}
  BY DEF Reset, SaveRecord
<1>5. /\ UNCHANGED <<now, input, ack, proof, receipts, late>>
      /\ spent' = [spent EXCEPT ![item] = IF record' = record THEN @ ELSE 0]
      /\ waited' = [waited EXCEPT ![item] = IF record' = record THEN @ ELSE 0]
  BY DEF Reset
<1>6. Exit /\ faults' \in 0..MaxFaults
  BY OneMoreFault DEF Reset, SaveRecord, SpoolTypes
<1> HIDE DEF r
<1>7. /\ record' \in [Builds -> SpoolRecord \cup {None}]
      /\ spent' \in [Builds -> Nat] /\ waited' \in [Builds -> Nat]
  BY <1>3, <1>4, <1>5 DEF SpoolTypes
<1>8. SpoolTypes'
  BY <1>5, <1>6, <1>7, ExitTypes DEF SpoolTypes
<1>9. ASSUME NEW m \in Builds
      PROVE  BuildOK(m)'
  <2>1. CASE m # item \/ record' = record
    <3>1. record'[m] = record[m] /\ spent'[m] = spent[m]
      BY <2>1, <1>1, <1>4, <1>5 DEF SpoolTypes
    <3> QED
      BY <3>1, <1>5, StableBuild
  <2>2. CASE m = item /\ record' # record
    <3>1. record'[m] = r /\ spent'[m] = 0
      BY <2>2, <1>1, <1>4, <1>5 DEF SpoolTypes
    <3>2. ack[m] = None /\ proof[m] = None
      <4>1. ack[m] = None
        BY <2>2, <1>1, KnownRecord DEF BuildOK, InState, Finished
      <4>2. proof[m] # None => proof[m].digest \in Payloads
        BY DEF SpoolTypes, Proof
      <4> QED
        BY <4>1, <4>2, NoneAssumption DEF BuildOK
    <3>3. r # None /\ r.resets <= MaxResets /\ r.rounds <= MaxRounds
      BY <1>1, <1>2, <1>3, NoneAssumption, SpoolAssumption
    <3>4. 0 <= PaidFor(r)
      <4>1. PaidFor(r) = Attempts * 0
        BY <1>3 DEF PaidFor
      <4> QED
        BY <4>1, OneMoreRound, SpoolAssumption
    <3> QED
      BY <1>3, <1>5, <3>1, <3>2, <3>3, <3>4 DEF BuildOK, Known, InState, Finished, PaidFor
  <2> QED
    BY <2>1, <2>2
<1>10. ProcessOK'
  BY <1>6, ExitKeeps
<1> QED
  BY <1>8, <1>9, <1>10

\* Writing the ack of a finished record.
LEMMA AckKeepsBuilds ==
    ASSUME SpoolInv, NEW n \in Builds, InState(n, Finished),
           ack' \in {ack, [ack EXCEPT ![n] = record[n].digest]},
           UNCHANGED <<record, proof, receipts, spent>>
    PROVE  /\ ack' \in [Builds -> Payloads \cup {None}]
           /\ \A m \in Builds : BuildOK(m)'
<1> USE DEF SpoolInv
<1>1. record[n].digest \in Payloads
  BY KnownRecord
<1>2. /\ ack' \in [Builds -> Payloads \cup {None}]
      /\ \A m \in Builds : m # n => ack'[m] = ack[m]
      /\ ack'[n] \in {ack[n], record[n].digest}
  BY <1>1 DEF SpoolTypes
<1>3. ASSUME NEW m \in Builds
      PROVE  BuildOK(m)'
  <2>1. CASE ack'[m] = ack[m]
    BY <2>1, StableBuild
  <2>2. CASE m = n /\ ack'[n] = record[n].digest
    <3>1. proof[n] # None => proof[n].digest = record[n].digest
      <4>1. proof[n] # None => proof[n].digest \in Payloads
        BY DEF SpoolTypes, Proof
      <4>2. proof[n] # None => ack[n] # None
        BY <4>1, NoneAssumption DEF BuildOK
      <4> QED
        BY <4>2 DEF BuildOK
    <3> QED
      BY <2>2, <3>1 DEF BuildOK, Known, InState, PaidFor
  <2> QED
    BY <1>2, <2>1, <2>2
<1> QED
  BY <1>2, <1>3

\* A record that is not finished has no ack.
LEMMA UnfinishedHasNoAck ==
    ASSUME SpoolInv, NEW n \in Builds, ~InState(n, Finished)
    PROVE  ack[n] = None
BY DEF SpoolInv, BuildOK

\* A record that is not a tombstone has paid for the requests made.
LEMMA SpentOfRecord ==
    ASSUME SpoolInv, NEW n \in Builds, Known(n), record[n].state # "compacted"
    PROVE  spent[n] <= Attempts * record[n].rounds
BY DEF SpoolInv, BuildOK, PaidFor

\* The scan: missing acks, exhausted budgets, the pause, and the reservation.
LEMMA ScanKeeps ==
    ASSUME SpoolInv, Scan PROVE SpoolInv'
<1> USE DEF SpoolInv
<1>1. ASSUME NEW n \in Builds, ScanAck(n)
      PROVE  SpoolInv'
  <2>1. /\ ack' \in {ack, [ack EXCEPT ![n] = record[n].digest]}
        /\ UNCHANGED <<now, input, record, proof, receipts, late, history>>
        /\ \/ UNCHANGED worker /\ UNCHANGED faults
           \/ faults < MaxFaults /\ faults' = faults + 1 /\ Exit
    BY <1>1 DEF ScanAck, SaveAck
  <2>2. /\ ack' \in [Builds -> Payloads \cup {None}]
        /\ \A m \in Builds : BuildOK(m)'
    BY <1>1, <2>1, AckKeepsBuilds DEF ScanAck, Unacked, history
  <2>3. CASE UNCHANGED worker /\ UNCHANGED faults
    <3>1. SpoolTypes'
      BY <2>1, <2>2, <2>3 DEF SpoolTypes, worker, history
    <3>2. ProcessOK'
      BY <2>1, <2>3, StableProcess DEF history
    <3> QED
      BY <2>2, <3>1, <3>2
  <2>4. CASE faults < MaxFaults /\ faults' = faults + 1 /\ Exit
    <3>1. SpoolTypes'
      BY <2>1, <2>2, <2>4, OneMoreFault, ExitTypes DEF SpoolTypes, history
    <3> QED
      BY <2>2, <2>4, <3>1, ExitKeeps
  <2> QED
    BY <2>1, <2>3, <2>4
<1>2. ASSUME NEW n \in Builds, ScanExhausted(n)
      PROVE  SpoolInv'
  <2> DEFINE r == ExhaustedRecord(record[n])
  <2>1. /\ record' \in {record, [record EXCEPT ![n] = r]}
        /\ UNCHANGED <<now, input, ack, proof, receipts, late, history>>
        /\ \/ UNCHANGED worker /\ UNCHANGED faults
           \/ faults < MaxFaults /\ faults' = faults + 1 /\ Exit
    BY <1>2 DEF ScanExhausted, SaveRecord
  <2>2. /\ Known(n) /\ record[n] \in SpoolRecord
        /\ record[n].state \in {"pending", "in_flight", "retry_wait"}
    BY <1>2, KnownRecord DEF ScanExhausted, Exhausted, Active
  <2>3. /\ r \in SpoolRecord /\ r.digest = record[n].digest /\ r.state = "blocked"
        /\ r.rounds = record[n].rounds /\ r.resets = record[n].resets
    BY <2>2, ExhaustedRecordFacts
  <2> HIDE DEF r
  <2>4. Writable(n, r)
    <3>1. ~InState(n, Finished)
      BY <2>2, KnownRecord DEF Finished
    <3>2. ack[n] = None /\ spent[n] <= PaidFor(r)
      BY <2>2, <2>3, <3>1, UnfinishedHasNoAck, SpentOfRecord DEF PaidFor
    <3>3. r.rounds <= MaxRounds /\ r.resets <= MaxResets
      BY <2>2, <2>3 DEF BuildOK
    <3> QED
      BY <2>3, <3>2, <3>3 DEF Writable, Finished
  <2>5. /\ record' \in [Builds -> SpoolRecord \cup {None}]
        /\ \A m \in Builds : BuildOK(m)'
    BY <2>1, <2>4, SaveKeepsBuilds DEF history
  <2>6. CASE UNCHANGED worker /\ UNCHANGED faults
    <3>1. SpoolTypes'
      BY <2>1, <2>5, <2>6 DEF SpoolTypes, worker, history
    <3>2. ProcessOK'
      BY <1>2, <2>6 DEF ScanExhausted, ProcessOK, worker
    <3> QED
      BY <2>5, <3>1, <3>2
  <2>7. CASE faults < MaxFaults /\ faults' = faults + 1 /\ Exit
    <3>1. SpoolTypes'
      BY <2>1, <2>5, <2>7, OneMoreFault, ExitTypes DEF SpoolTypes, history
    <3> QED
      BY <2>5, <2>7, <3>1, ExitKeeps
  <2> QED
    BY <2>1, <2>6, <2>7
<1>3. ASSUME StopPaused \/ NothingDue
      PROVE  SpoolInv'
  BY <1>3, EndKeeps DEF StopPaused, NothingDue, SpoolTypes
<1>4. ASSUME NEW n \in Builds, Reserve(n)
      PROVE  SpoolInv'
  <2> DEFINE r == ReservedRecord(record[n])
  <2>1. /\ record' \in {record, [record EXCEPT ![n] = r]}
        /\ UNCHANGED <<now, input, ack, proof, receipts, late, spent>>
        /\ waited' = [m \in Builds |-> IF m = n \/ ~Due(m) THEN 0 ELSE waited[m] + 1]
        /\ \/ /\ record' = [record EXCEPT ![n] = r] /\ UNCHANGED faults
              /\ pc' = "send" /\ item' = n /\ UNCHANGED <<todo, attempt, answer>>
           \/ faults < MaxFaults /\ faults' = faults + 1 /\ Exit
    BY <1>4 DEF Reserve, SaveRecord
  <2>2. waited' \in [Builds -> Nat]
    BY <2>1 DEF SpoolTypes
  <2>3. /\ Known(n) /\ record[n] \in SpoolRecord /\ record[n].rounds \in Nat
        /\ record[n].state \in {"pending", "in_flight", "retry_wait"}
        /\ now \in Nat
    BY <1>4, KnownRecord, SpoolAssumption DEF Reserve, Chosen, Due, Active, SpoolTypes
  <2>4. record[n].rounds < MaxRounds
    BY <1>4, <2>3, SpoolAssumption DEF Reserve, Chosen, Due, Exhausted
  <2>5. /\ r \in SpoolRecord /\ r.digest = record[n].digest /\ r.state = "in_flight"
        /\ r.rounds = record[n].rounds + 1 /\ r.resets = record[n].resets
    BY <2>3, ReservedRecordFacts
  <2> HIDE DEF r
  <2>6. spent[n] + Attempts <= Attempts * r.rounds
    <3>1. spent[n] <= Attempts * record[n].rounds /\ spent[n] \in Nat
      BY <2>3, SpentOfRecord DEF SpoolTypes
    <3>2. Attempts * (record[n].rounds + 1) = Attempts * record[n].rounds + Attempts
          /\ Attempts * record[n].rounds \in Nat
      BY <2>3, OneMoreRound, SpoolAssumption
    <3> QED
      BY <2>5, <3>1, <3>2, SpoolAssumption
  <2>7. Writable(n, r)
    <3>1. ~InState(n, Finished)
      BY <2>3, KnownRecord DEF Finished
    <3>2. ack[n] = None
      BY <3>1, UnfinishedHasNoAck
    <3>3. spent[n] <= PaidFor(r)
      <4>1. PaidFor(r) = Attempts * r.rounds /\ r.rounds \in Nat
        BY <2>3, <2>5 DEF PaidFor
      <4>2. Attempts * r.rounds \in Nat /\ spent[n] \in Nat
        BY <4>1, OneMoreRound, SpoolAssumption DEF SpoolTypes
      <4> QED
        BY <2>6, <4>1, <4>2, SpoolAssumption
    <3>4. r.rounds <= MaxRounds /\ r.resets <= MaxResets
      BY <2>3, <2>4, <2>5, SpoolAssumption DEF BuildOK
    <3> QED
      BY <2>5, <3>2, <3>3, <3>4 DEF Writable, Finished
  <2>8. /\ record' \in [Builds -> SpoolRecord \cup {None}]
        /\ \A m \in Builds : m # n => record'[m] = record[m]
        /\ \A m \in Builds : BuildOK(m)'
    BY <2>1, <2>7, SaveKeepsBuilds
  <2>9. CASE /\ record' = [record EXCEPT ![n] = r] /\ UNCHANGED faults
             /\ pc' = "send" /\ item' = n /\ UNCHANGED <<todo, attempt, answer>>
    <3>1. SpoolTypes'
      BY <2>1, <2>2, <2>8, <2>9 DEF SpoolTypes
    <3>2. record'[n] = r /\ r # None /\ n # NoBuild
      BY <2>5, <2>9, NoneAssumption, SpoolAssumption DEF SpoolTypes, NoBuild
    <3>3. attempt' = 0 /\ attempt' < Attempts
      BY <1>4, <2>9, SpoolAssumption DEF Reserve, ScanDone, ProcessOK
    <3>4. InState(n, {"in_flight"})'
      BY <2>5, <3>2 DEF InState
    <3>5. spent'[n] + (Attempts - attempt') <= Attempts * record'[n].rounds
      <4>1. Attempts - attempt' = Attempts
        BY <3>3, SpoolAssumption
      <4> QED
        BY <2>1, <2>6, <3>2, <4>1
    <3>6. ASSUME NEW m \in Builds
          PROVE  ~PausedBuild(m)'
      <4>1. CASE m = n
        BY <2>5, <3>2, <4>1 DEF PausedBuild, InState
      <4>2. CASE m # n
        BY <1>4, <2>8, <4>2 DEF Reserve, Paused, PausedBuild, InState
      <4> QED
        BY <4>1, <4>2
    <3>7. ProcessOK'
      BY <2>9, <3>2, <3>3, <3>4, <3>5, <3>6 DEF ProcessOK
    <3> QED
      BY <2>8, <3>1, <3>7
  <2>10. CASE faults < MaxFaults /\ faults' = faults + 1 /\ Exit
    <3>1. SpoolTypes'
      BY <2>1, <2>2, <2>8, <2>10, OneMoreFault, ExitTypes DEF SpoolTypes
    <3> QED
      BY <2>8, <2>10, <3>1, ExitKeeps
  <2> QED
    BY <2>1, <2>9, <2>10
<1> QED
  BY <1>1, <1>2, <1>3, <1>4 DEF Scan

\* What is known of the item of a round.
LEMMA RoundItem ==
    ASSUME SpoolInv, pc \in {"send", "await", "settle"}
    PROVE  /\ item \in Builds /\ Known(item)
           /\ record[item] \in SpoolRecord /\ record[item].state = "in_flight"
           /\ record[item].digest \in Payloads
           /\ record[item].rounds \in Nat /\ spent[item] \in Nat
           /\ spent[item] + (Attempts - attempt) <= Attempts * record[item].rounds
           /\ Attempts * record[item].rounds \in Nat
<1> USE DEF SpoolInv
<1>1. /\ item \in Builds /\ InState(item, {"in_flight"})
      /\ spent[item] + (Attempts - attempt) <= Attempts * record[item].rounds
  BY DEF ProcessOK, SpoolTypes
<1>2. /\ Known(item) /\ record[item] \in SpoolRecord /\ record[item].state = "in_flight"
      /\ record[item].digest \in Payloads /\ record[item].rounds \in Nat
  BY <1>1, KnownRecord
<1>3. spent[item] \in Nat
  BY <1>1 DEF SpoolTypes
<1>4. Attempts * record[item].rounds \in Nat
  BY <1>2, OneMoreRound, SpoolAssumption
<1> QED
  BY <1>1, <1>2, <1>3, <1>4

\* A request leaves: it was paid for by the reservation.
LEMMA SendKeeps ==
    ASSUME SpoolInv, Send PROVE SpoolInv'
<1> USE DEF SpoolInv
<1>1. /\ pc = "send" /\ pc' = "await" /\ attempt' = attempt + 1
      /\ spent' = [spent EXCEPT ![item] = @ + 1]
      /\ UNCHANGED <<now, disk, item, todo, answer, receipts, late, waited, faults>>
  BY DEF Send
<1>2. /\ item \in Builds /\ Known(item)
      /\ record[item] \in SpoolRecord /\ record[item].state = "in_flight"
      /\ record[item].rounds \in Nat /\ spent[item] \in Nat
      /\ spent[item] + (Attempts - attempt) <= Attempts * record[item].rounds
      /\ Attempts * record[item].rounds \in Nat
  BY <1>1, RoundItem
<1>3. attempt \in Nat /\ attempt < Attempts /\ Attempts \in Nat
  BY <1>1, SpoolAssumption DEF ProcessOK, SpoolTypes
<1>4. spent' \in [Builds -> Nat] /\ spent'[item] = spent[item] + 1
      /\ \A m \in Builds : m # item => spent'[m] = spent[m]
  BY <1>1, <1>2 DEF SpoolTypes
<1>5. SpoolTypes'
  BY <1>1, <1>3, <1>4 DEF SpoolTypes, disk
<1>6. spent'[item] + (Attempts - attempt') <= Attempts * record[item].rounds
  BY <1>1, <1>2, <1>3, <1>4
<1>7. spent'[item] <= Attempts * record[item].rounds
  BY <1>1, <1>2, <1>3, <1>4
<1>8. ASSUME NEW m \in Builds
      PROVE  BuildOK(m)'
  <2>1. CASE m # item
    BY <1>1, <1>4, <2>1, StableBuild DEF disk
  <2>2. CASE m = item
    <3>1. PaidFor(record[item]) = Attempts * record[item].rounds
      BY <1>2 DEF PaidFor
    <3>2. spent'[item] <= PaidFor(record[item])
      BY <1>7, <3>1
    <3> HIDE DEF PaidFor
    <3>3. record' = record /\ ack' = ack /\ proof' = proof /\ receipts' = receipts
      BY <1>1 DEF disk
    <3>4. PaidFor(record[item])' = PaidFor(record[item])
      BY <1>1, <3>3 DEF PaidFor
    <3> QED
      BY <1>2, <2>2, <3>2, <3>3, <3>4 DEF BuildOK, Known, InState
  <2> QED
    BY <2>1, <2>2
<1>9. ProcessOK'
  BY <1>1, <1>6 DEF ProcessOK, InState, PausedBuild, disk
<1> QED
  BY <1>5, <1>8, <1>9

\* The receiver's answer.
LEMMA AnsweredKeeps ==
    ASSUME SpoolInv, Answered PROVE SpoolInv'
<1> USE DEF SpoolInv
<1> DEFINE p == record[item].digest
<1>1. /\ pc = "await" /\ Receive(item, p)
      /\ pc' = "settle" /\ answer' = Verdict(item, p)
      /\ UNCHANGED <<now, disk, item, todo, attempt, late, history, faults>>
  BY DEF Answered, RoundOver
<1>2. item \in Builds /\ p \in Payloads
  BY <1>1, RoundItem
<1> HIDE DEF p
<1>3. /\ receipts' \in [Builds -> Meanings \cup {None}]
      /\ \A m \in Builds : receipts[m] # None => receipts'[m] = receipts[m]
      /\ Verdict(item, p) = "recorded" => receipts'[item] = Meaning[p]
  BY <1>1, <1>2, ReceiveFacts
<1>4. Verdict(item, p) \in Answers
  BY DEF Verdict, Answers
<1>5. SpoolTypes'
  BY <1>1, <1>3, <1>4 DEF SpoolTypes, disk, history
<1>6. \A m \in Builds : BuildOK(m)'
  BY <1>1, <1>3, StableBuild DEF disk, history
<1>7. record'[item'].digest = p /\ item' = item
  BY <1>1 DEF p, disk
<1>8. ProcessOK'
  BY <1>1, <1>3, <1>7 DEF ProcessOK, InState, PausedBuild, disk, history
<1> QED
  BY <1>5, <1>6, <1>8

\* A refusal, or no answer.
LEMMA UnansweredKeeps ==
    ASSUME SpoolInv, Unanswered \/ (\E a \in Refusals : Refused(a)) PROVE SpoolInv'
<1> USE DEF SpoolInv
<1>1. /\ pc = "await" /\ pc' \in {"send", "settle"}
      /\ pc' = "send" => attempt < Attempts
      /\ answer' \in Answers
      /\ pc' = "settle" => answer' # "recorded"
      /\ UNCHANGED <<now, disk, item, todo, attempt, receipts, history, faults>>
  <2>1. CASE Unanswered
    BY <2>1 DEF Unanswered, RoundOver, Answers, SpoolTypes
  <2>2. ASSUME NEW a \in Refusals, Refused(a)
        PROVE  /\ pc = "await" /\ pc' = "settle" /\ answer' = a /\ a \in Answers
               /\ a # "recorded"
               /\ UNCHANGED <<now, disk, item, todo, attempt, receipts, history, faults>>
    BY <2>2 DEF Refused, RoundOver, Answers, Refusals, Pauses
  <2> QED
    BY <2>1, <2>2
<1>2. late' \subseteq Request
  BY RequestTyped DEF Unanswered, Refused, SpoolTypes
<1>3. SpoolTypes'
  BY <1>1, <1>2 DEF SpoolTypes, disk, history
<1>4. \A m \in Builds : BuildOK(m)'
  BY <1>1, StableBuild DEF disk, history
<1>5. ProcessOK'
  BY <1>1 DEF ProcessOK, InState, PausedBuild, disk, history
<1> QED
  BY <1>3, <1>4, <1>5

\* The result of a round is saved.
LEMMA SettleKeeps ==
    ASSUME SpoolInv, Settle PROVE SpoolInv'
<1> USE DEF SpoolInv
<1>1. PICK d \in Delays :
          /\ pc = "settle"
          /\ SaveRecord(item, SettledRecord(record[item], answer, d),
                     CASE answer = "recorded" -> pc' = "ack" /\ UNCHANGED <<item, todo, attempt, answer>>
                       [] answer \in Pauses -> Exit
                       [] OTHER -> EndTick)
          /\ UNCHANGED <<now, input, ack, proof, receipts, late, history>>
  BY DEF Settle
<1> DEFINE r == SettledRecord(record[item], answer, d)
<1>2. /\ record' \in {record, [record EXCEPT ![item] = r]}
      /\ UNCHANGED <<now, input, ack, proof, receipts, late, history>>
      /\ \/ /\ record' = [record EXCEPT ![item] = r] /\ UNCHANGED faults
            /\ answer = "recorded" /\ pc' = "ack" /\ UNCHANGED <<item, todo, attempt, answer>>
         \/ UNCHANGED faults /\ (Exit \/ EndTick)
         \/ faults < MaxFaults /\ faults' = faults + 1 /\ Exit
  <2>1. CASE answer = "recorded"
    BY <1>1, <2>1 DEF SaveRecord
  <2>2. CASE answer \in Pauses
    BY <1>1, <2>2 DEF SaveRecord, Pauses
  <2>3. CASE answer # "recorded" /\ answer \notin Pauses
    BY <1>1, <2>3 DEF SaveRecord
  <2> QED
    BY <2>1, <2>2, <2>3
<1>3. /\ item \in Builds /\ Known(item)
      /\ record[item] \in SpoolRecord /\ record[item].state = "in_flight"
      /\ record[item].rounds \in Nat /\ now \in Nat /\ answer \in Answers /\ d \in Nat
  BY <1>1, RoundItem, SpoolAssumption DEF SpoolTypes
<1>4. /\ r \in SpoolRecord /\ r.digest = record[item].digest
      /\ r.state \in {"delivered", "retry_wait", "blocked"}
      /\ r.state = "delivered" <=> answer = "recorded"
      /\ r.rounds = record[item].rounds /\ r.resets = record[item].resets
  BY <1>3, SettledRecordFacts
<1> HIDE DEF r
<1>5. Writable(item, r)
  <2>1. ~InState(item, Finished)
    BY <1>3, KnownRecord DEF Finished
  <2>2. ack[item] = None /\ spent[item] <= PaidFor(r)
    BY <1>3, <1>4, <2>1, UnfinishedHasNoAck, SpentOfRecord DEF PaidFor
  <2>3. r.rounds <= MaxRounds /\ r.resets <= MaxResets
    BY <1>3, <1>4 DEF BuildOK
  <2>4. r.state \in Finished => receipts[item] = Meaning[r.digest]
    BY <1>1, <1>4 DEF ProcessOK, Finished
  <2> QED
    BY <1>4, <2>2, <2>3, <2>4 DEF Writable
<1>6. /\ record' \in [Builds -> SpoolRecord \cup {None}]
      /\ \A m \in Builds : BuildOK(m)'
  BY <1>2, <1>3, <1>5, SaveKeepsBuilds DEF history
<1>7. CASE /\ record' = [record EXCEPT ![item] = r] /\ UNCHANGED faults
           /\ answer = "recorded" /\ pc' = "ack" /\ UNCHANGED <<item, todo, attempt, answer>>
  <2>1. SpoolTypes'
    BY <1>2, <1>6, <1>7 DEF SpoolTypes, history
  <2>2. record'[item] = r /\ r # None /\ item # NoBuild
    BY <1>3, <1>4, <1>7, NoneAssumption, SpoolAssumption DEF SpoolTypes, NoBuild
  <2>3. ProcessOK'
    BY <1>4, <1>7, <2>2 DEF ProcessOK, InState
  <2> QED
    BY <1>6, <2>1, <2>3
<1>8. CASE faults' \in 0..MaxFaults /\ (Exit \/ EndTick)
  <2>1. SpoolTypes'
    BY <1>2, <1>6, <1>8, ExitTypes DEF SpoolTypes, history
  <2> QED
    BY <1>6, <1>8, <2>1, ExitKeeps
<1>9. faults \in 0..MaxFaults
  BY DEF SpoolTypes
<1> QED
  BY <1>2, <1>7, <1>8, <1>9, OneMoreFault

\* The ack of a delivered build is written.
LEMMA AcknowledgeKeeps ==
    ASSUME SpoolInv, Acknowledge PROVE SpoolInv'
<1> USE DEF SpoolInv
<1>1. /\ pc = "ack"
      /\ ack' \in {ack, [ack EXCEPT ![item] = record[item].digest]}
      /\ UNCHANGED <<now, input, record, proof, receipts, late, history>>
      /\ Exit \/ EndTick
      /\ faults' \in 0..MaxFaults
  BY OneMoreFault DEF Acknowledge, SaveAck, SpoolTypes
<1>2. item \in Builds /\ InState(item, Finished)
  BY <1>1, KnownRecord DEF ProcessOK, SpoolTypes, Finished
<1>3. /\ ack' \in [Builds -> Payloads \cup {None}]
      /\ \A m \in Builds : BuildOK(m)'
  BY <1>1, <1>2, AckKeepsBuilds DEF history
<1>4. SpoolTypes'
  BY <1>1, <1>3, ExitTypes DEF SpoolTypes, history
<1> QED
  BY <1>1, <1>3, <1>4, ExitKeeps

\* Explicit cleanup leaves a tombstone with the same identity.
LEMMA CleanupKeeps ==
    ASSUME SpoolInv, NEW n \in Builds, Cleanup(n) PROVE SpoolInv'
<1> USE DEF SpoolInv
<1> DEFINE r == CompactRecord(record[n])
<1>1. /\ record' = [record EXCEPT ![n] = r]
      /\ UNCHANGED <<now, input, ack, proof, worker, receipts, late, history, faults>>
      /\ pc = "down" /\ InState(n, {"delivered"}) /\ ack[n] = record[n].digest
  BY DEF Cleanup
<1>2. /\ Known(n) /\ record[n] \in SpoolRecord /\ record[n].state = "delivered"
      /\ record[n].rounds \in Nat
  BY <1>1, KnownRecord
<1>3. /\ r \in SpoolRecord /\ r.digest = record[n].digest /\ r.state = "compacted"
      /\ r.rounds = 0 /\ r.resets = 0
  BY <1>2, CompactRecordFacts
<1> HIDE DEF r
<1>4. Writable(n, r)
  <2>1. spent[n] <= PaidFor(r)
    <3>1. spent[n] <= Attempts * record[n].rounds /\ spent[n] \in Nat
      BY <1>2, SpentOfRecord DEF SpoolTypes
    <3>2. record[n].rounds <= MaxRounds
      BY <1>2 DEF BuildOK
    <3>3. Attempts * record[n].rounds <= Attempts * MaxRounds /\ Attempts * MaxRounds \in Nat
          /\ Attempts * record[n].rounds \in Nat
      BY <1>2, <3>2, MoreRoundsPayMore, OneMoreRound, SpoolAssumption
    <3>4. PaidFor(r) = Attempts * MaxRounds
      BY <1>3 DEF PaidFor
    <3> QED
      BY <3>1, <3>3, <3>4
  <2>2. receipts[n] = Meaning[r.digest]
    BY <1>1, <1>2, <1>3 DEF BuildOK, InState, Known, Finished
  <2> QED
    BY <1>1, <1>3, <2>1, <2>2, SpoolAssumption DEF Writable, Finished
<1>5. /\ record' \in [Builds -> SpoolRecord \cup {None}]
      /\ \A m \in Builds : BuildOK(m)'
  BY <1>1, <1>4, SaveKeepsBuilds DEF history
<1>6. SpoolTypes'
  BY <1>1, <1>5 DEF SpoolTypes, worker, history
<1>7. ProcessOK'
  BY <1>1 DEF ProcessOK, worker
<1> QED
  BY <1>5, <1>6, <1>7

\* Every step keeps the invariant.
LEMMA StepKeeps ==
    ASSUME SpoolInv, [Next]_spoolVars PROVE SpoolInv'
<1>1. CASE UNCHANGED spoolVars
  BY <1>1 DEF spoolVars, disk, worker, history, SpoolInv, SpoolTypes, BuildOK, ProcessOK,
              Known, InState, PausedBuild, PaidFor
<1>2. CASE Environment
  BY <1>2, EnvironmentKeeps
<1>3. CASE Operator \/ Crash \/ BeginTick
  BY <1>3, LifeCycleKeeps, CleanupKeeps DEF Operator
<1>4. CASE Import
  BY <1>4, ImportKeeps
<1>5. CASE Reset
  BY <1>5, ResetKeeps
<1>6. CASE Scan
  BY <1>6, ScanKeeps
<1>7. CASE Round
  BY <1>7, SendKeeps, AnsweredKeeps, UnansweredKeeps, SettleKeeps, AcknowledgeKeeps DEF Round
<1> QED
  BY <1>1, <1>2, <1>3, <1>4, <1>5, <1>6, <1>7 DEF Next

-----------------------------------------------------------------------------
(* The theorems. *)

\* The inductive invariant: types, the state of each build, the state of the worker.
THEOREM SpoolInvariant == Spec => []SpoolInv
<1>1. Init => SpoolInv
  BY InitKeeps
<1>2. SpoolInv /\ [Next]_spoolVars => SpoolInv'
  BY StepKeeps
<1> QED
  BY <1>1, <1>2, PTL DEF Spec

\* Types, for every value of the constants.
THEOREM SpoolTypesCorrect == Spec => []TypeOK
<1>1. SpoolInv => TypeOK
  BY DEF SpoolInv, SpoolTypes, BuildOK, TypeOK
<1> QED
  BY <1>1, SpoolInvariant, PTL

\* An ack stands for a build the receiver has recorded with the same meaning
\* (spool.go acknowledge, ci_run.go), whatever crashed or was answered late.
THEOREM AcksAreRight == Spec => []AckMeansRecorded
<1>1. SpoolInv => AckMeansRecorded
  BY DEF SpoolInv, BuildOK, AckMeansRecorded
<1> QED
  BY <1>1, SpoolInvariant, PTL

\* No crash and no failed write lets more requests leave than the persistent budget
\* allows (spool_worker.go:176).
THEOREM BudgetAlwaysHolds == Spec => []BudgetHolds
<1>1. SpoolInv => BudgetHolds
  <2> SUFFICES ASSUME SpoolInv, NEW n \in Builds
               PROVE  spent[n] <= MaxRounds * Attempts
    BY DEF BudgetHolds
  <2>1. /\ Attempts * MaxRounds = MaxRounds * Attempts
        /\ Attempts * MaxRounds \in Nat /\ Attempts * 0 <= Attempts * MaxRounds
    BY MoreRoundsPayMore, SpoolAssumption
  <2>2. CASE ~Known(n)
    BY <2>1, <2>2 DEF SpoolInv, BuildOK
  <2>3. CASE Known(n)
    <3>1. record[n].rounds \in Nat /\ record[n].rounds <= MaxRounds /\ spent[n] <= PaidFor(record[n])
      BY <2>3, KnownRecord DEF SpoolInv, BuildOK
    <3>2. /\ Attempts * record[n].rounds <= Attempts * MaxRounds
          /\ Attempts * record[n].rounds \in Nat
      BY <3>1, MoreRoundsPayMore, OneMoreRound, SpoolAssumption
    <3>3. spent[n] \in Nat
      BY DEF SpoolInv, SpoolTypes
    <3>4. PaidFor(record[n]) \in {Attempts * MaxRounds, Attempts * record[n].rounds}
      BY DEF PaidFor
    <3> QED
      BY <2>1, <3>1, <3>2, <3>3, <3>4
  <2> QED
    BY <2>2, <2>3
<1> QED
  BY <1>1, SpoolInvariant, PTL

-----------------------------------------------------------------------------
(* What a step can do to a build, for the two properties of steps and the  *)
(* refinement.                                                             *)

\* The record of an unfinished build is replaced by another one of the same bytes,
\* or the write failed.
Rewrite(n, r) ==
    /\ ~InState(n, Finished)
    /\ Known(n) /\ r \in SpoolRecord /\ r.digest = record[n].digest /\ r.state # "compacted"
    /\ record' \in {record, [record EXCEPT ![n] = r]}
    /\ UNCHANGED <<ack, proof, receipts>>
    /\ \A m \in Builds : m # n => spent'[m] = spent[m]

\* The receiver takes a request.
Arrival(n, p) == Receive(n, p) /\ UNCHANGED <<record, ack, proof, spent>>

\* A finished build is acknowledged, or the write failed.
AckWrite(n) ==
    /\ InState(n, Finished)
    /\ ack' \in {ack, [ack EXCEPT ![n] = record[n].digest]}
    /\ UNCHANGED <<record, proof, receipts, spent>>

\* Nothing a reader of the directories or of the receipts could see.
Quiet ==
    /\ UNCHANGED <<record, ack, proof, receipts>>
    /\ \A m \in Builds : InState(m, Finished) => spent'[m] = spent[m]

\* The four writes of a record that is already there.
LEMMA Rewrites ==
    ASSUME SpoolInv,
           Reset \/ Settle \/ (\E n \in Builds : ScanExhausted(n) \/ Reserve(n))
    PROVE  \E n \in Builds : \E r : Rewrite(n, r)
<1>1. CASE Reset
  <2>1. item \in Builds /\ InState(item, {"blocked"})
    BY <1>1 DEF Reset, SpoolInv, ProcessOK, SpoolTypes
  <2>2. /\ Known(item) /\ record[item] \in SpoolRecord /\ now \in Nat
        /\ ~InState(item, Finished)
    BY <2>1, KnownRecord, SpoolAssumption DEF SpoolInv, SpoolTypes, Finished
  <2>3. Rewrite(item, ResetRecord(record[item]))
    BY <1>1, <2>1, <2>2, ResetRecordFacts DEF Reset, SaveRecord, Rewrite, SpoolInv, SpoolTypes
  <2> QED
    BY <2>1, <2>3
<1>2. CASE Settle
  <2>1. PICK d \in Delays :
            record' \in {record, [record EXCEPT ![item] = SettledRecord(record[item], answer, d)]}
    BY <1>2 DEF Settle, SaveRecord
  <2>2. /\ item \in Builds /\ Known(item) /\ record[item] \in SpoolRecord
        /\ record[item].state = "in_flight" /\ answer \in Answers /\ now \in Nat /\ d \in Nat
    BY <1>2, RoundItem, SpoolAssumption DEF Settle, SpoolInv, SpoolTypes
  <2>3. ~InState(item, Finished)
    BY <2>2, KnownRecord DEF SpoolInv, Finished
  <2>4. Rewrite(item, SettledRecord(record[item], answer, d))
    BY <1>2, <2>1, <2>2, <2>3, SettledRecordFacts DEF Settle, Rewrite, history
  <2> QED
    BY <2>2, <2>4
<1>3. ASSUME NEW n \in Builds, ScanExhausted(n) \/ Reserve(n)
      PROVE  \E r : Rewrite(n, r)
  <2>1. InState(n, {"pending", "in_flight", "retry_wait"})
    BY <1>3 DEF ScanExhausted, Exhausted, Reserve, Chosen, Due, Active
  <2>2. /\ Known(n) /\ record[n] \in SpoolRecord /\ ~InState(n, Finished) /\ now \in Nat
    BY <2>1, KnownRecord, SpoolAssumption DEF SpoolInv, SpoolTypes, Finished
  <2>3. CASE ScanExhausted(n)
    <3>1. Rewrite(n, ExhaustedRecord(record[n]))
      BY <2>2, <2>3, ExhaustedRecordFacts DEF ScanExhausted, SaveRecord, Rewrite, history
    <3> QED
      BY <3>1
  <2>4. CASE Reserve(n)
    <3>1. Rewrite(n, ReservedRecord(record[n]))
      BY <2>2, <2>4, ReservedRecordFacts DEF Reserve, SaveRecord, Rewrite
    <3> QED
      BY <3>1
  <2> QED
    BY <1>3, <2>3, <2>4
<1> QED
  BY <1>1, <1>2, <1>3

\* Every step of the system is one of these.
LEMMA StepKinds ==
    ASSUME SpoolInv, [Next]_spoolVars
    PROVE  \/ Quiet
           \/ \E n \in Builds : \E r : Rewrite(n, r)
           \/ \E n \in Builds, p \in Payloads : Arrival(n, p)
           \/ \E n \in Builds : AckWrite(n)
           \/ \E n \in Builds : ImportNew(n) \/ HandOff(n) \/ Retire(n) \/ Cleanup(n)
<1>1. CASE UNCHANGED spoolVars
  BY <1>1 DEF spoolVars, disk, history, Quiet
<1>2. CASE Environment
  <2>1. ASSUME NEW n \in Builds, NEW p \in Payloads, Publish(n, p) \/ Restore(n, p)
        PROVE  Quiet
    BY <2>1 DEF Publish, Restore, Quiet, history
  <2>2. ASSUME NEW n \in Builds, NEW p \in Payloads, OneShot(n, p)
        PROVE  Arrival(n, p)
    BY <2>2 DEF OneShot, Arrival, disk, history
  <2>3. ASSUME NEW n \in Builds, RemoveInput(n)
        PROVE  Quiet
    BY <2>3 DEF RemoveInput, Quiet, history
  <2>4. ASSUME LateArrival
        PROVE  \E n \in Builds, p \in Payloads : Arrival(n, p)
    <3>1. PICK q \in late : Receive(q.build, q.payload) /\ UNCHANGED <<disk, history>>
      BY <2>4 DEF LateArrival
    <3>2. q.build \in Builds /\ q.payload \in Payloads
      BY <3>1 DEF SpoolInv, SpoolTypes, Request
    <3>3. Arrival(q.build, q.payload)
      BY <3>1 DEF Arrival, disk, history
    <3> QED
      BY <3>2, <3>3
  <2>5. ASSUME Tick
        PROVE  Quiet
    BY <2>5 DEF Tick, Quiet, disk, history
  <2> QED
    BY <1>2, <2>1, <2>2, <2>3, <2>4, <2>5 DEF Environment
<1>3. CASE Crash \/ BeginTick \/ Start \/ (\E n \in Builds : StartRetry(n))
  BY <1>3 DEF Crash, BeginTick, Start, StartRetry, Quiet, disk, history
<1>4. CASE Operator
  BY <1>3, <1>4 DEF Operator
<1>5. CASE Import
  <2>1. CASE EndImport \/ (\E n \in Builds : ImportKnown(n) \/ ImportFails(n))
    BY <2>1 DEF EndImport, ImportKnown, ImportFails, Quiet, disk, history
  <2> QED
    BY <1>5, <2>1 DEF Import
<1>6. CASE Scan
  <2>1. CASE StopPaused \/ NothingDue
    BY <2>1 DEF StopPaused, NothingDue, Quiet, disk, history
  <2>2. ASSUME NEW n \in Builds, ScanAck(n)
        PROVE  AckWrite(n)
    BY <2>2 DEF ScanAck, Unacked, SaveAck, AckWrite, history
  <2> QED
    BY <1>6, <2>1, <2>2, Rewrites DEF Scan
<1>7. CASE Round
  <2>1. CASE Send
    <3>1. item \in Builds /\ ~InState(item, Finished)
      BY <2>1, RoundItem, KnownRecord DEF Send, SpoolInv, Finished
    <3> QED
      BY <2>1, <3>1 DEF Send, Quiet, disk, SpoolInv, SpoolTypes
  <2>2. CASE Answered
    <3>1. item \in Builds /\ record[item].digest \in Payloads
      BY <2>2, RoundItem DEF Answered
    <3>2. Arrival(item, record[item].digest)
      BY <2>2 DEF Answered, Arrival, disk, history
    <3> QED
      BY <3>1, <3>2
  <2>3. CASE Unanswered \/ (\E a \in Refusals : Refused(a))
    BY <2>3 DEF Unanswered, Refused, Quiet, disk, history
  <2>4. CASE Acknowledge
    <3>1. item \in Builds /\ InState(item, Finished)
      BY <2>4, KnownRecord DEF Acknowledge, SpoolInv, ProcessOK, SpoolTypes, Finished
    <3>2. AckWrite(item)
      BY <2>4, <3>1 DEF Acknowledge, SaveAck, AckWrite, history
    <3> QED
      BY <3>1, <3>2
  <2> QED
    BY <1>7, <2>1, <2>2, <2>3, <2>4, Rewrites DEF Round
<1>8. CASE Reset
  BY <1>8, Rewrites
<1> QED
  BY <1>1, <1>2, <1>3, <1>4, <1>5, <1>6, <1>7, <1>8 DEF Next

\* What a record write does to the identity of a build.
LEMMA RewriteFacts ==
    ASSUME SpoolInv, NEW n \in Builds, NEW r, Rewrite(n, r)
    PROVE  \A m \in Builds :
              /\ Known(m) => Known(m)' /\ record'[m].digest = record[m].digest
              /\ ~Known(m) => record'[m] = record[m]
              /\ InState(m, Finished) => record'[m] = record[m] /\ spent'[m] = spent[m]
              /\ InState(m, {"compacted"})' <=> InState(m, {"compacted"})
<1>1. record \in [Builds -> SpoolRecord \cup {None}] /\ r # None
  BY NoneAssumption DEF SpoolInv, SpoolTypes, Rewrite
<1>2. record[n].state # "compacted"
  BY DEF Rewrite, InState, Known, Finished
<1>3. ASSUME NEW m \in Builds, m # n
      PROVE  record'[m] = record[m] /\ spent'[m] = spent[m]
  BY <1>1, <1>3 DEF Rewrite
<1>4. record'[n] \in {record[n], r}
  BY <1>1 DEF Rewrite
<1>5. record'[n] # None /\ record'[n].digest = record[n].digest /\ record'[n].state # "compacted"
  BY <1>1, <1>2, <1>4 DEF Rewrite, Known
<1>6. ~InState(n, {"compacted"}) /\ ~InState(n, {"compacted"})'
  BY <1>2, <1>5 DEF InState
<1>7. ASSUME NEW m \in Builds
      PROVE  /\ Known(m) => Known(m)' /\ record'[m].digest = record[m].digest
             /\ ~Known(m) => record'[m] = record[m]
             /\ InState(m, Finished) => record'[m] = record[m] /\ spent'[m] = spent[m]
             /\ InState(m, {"compacted"})' <=> InState(m, {"compacted"})
  <2>1. CASE m = n
    BY <1>5, <1>6, <2>1 DEF Rewrite, Known
  <2>2. CASE m # n
    BY <1>3, <2>2 DEF Known, InState
  <2> QED
    BY <2>1, <2>2
<1> QED
  BY <1>7

\* What importing a new build does to the others and to itself.
LEMMA ImportNewFacts ==
    ASSUME SpoolInv, NEW n \in Builds, ImportNew(n)
    PROVE  /\ input[n] \in Payloads /\ ~Known(n)
           /\ \A m \in Builds : m # n => record'[m] = record[m]
           /\ \/ record'[n] = record[n]
              \/ Known(n)' /\ record'[n].digest = input[n] /\ ~InState(n, {"compacted"})'
<1> DEFINE r == NewRecord(input[n])
<1>1. input[n] \in Payloads /\ now \in Nat /\ ~Known(n)
  BY SpoolAssumption DEF ImportNew, SpoolInv, SpoolTypes
<1>2. r \in SpoolRecord /\ r # None /\ r.digest = input[n] /\ r.state \in {"pending", "blocked"}
  BY <1>1, NewRecordFacts, NoneAssumption
<1>3. record' \in {record, [record EXCEPT ![n] = r]}
  BY DEF ImportNew, SaveRecord
<1> HIDE DEF r
<1>4. /\ \A m \in Builds : m # n => record'[m] = record[m]
      /\ record'[n] \in {record[n], r}
  BY <1>3 DEF SpoolInv, SpoolTypes
<1> QED
  BY <1>1, <1>2, <1>4 DEF Known, InState

\* What cleanup does to the others and to itself.
LEMMA CleanupFacts ==
    ASSUME SpoolInv, NEW n \in Builds, Cleanup(n)
    PROVE  /\ Known(n) /\ Known(n)' /\ record'[n].digest = record[n].digest
           /\ InState(n, {"compacted"})'
           /\ \A m \in Builds : m # n => record'[m] = record[m]
<1> DEFINE r == CompactRecord(record[n])
<1>1. record' = [record EXCEPT ![n] = r] /\ Known(n) /\ record[n] \in SpoolRecord
  BY KnownRecord DEF Cleanup, SpoolInv
<1>2. r \in SpoolRecord /\ r # None /\ r.digest = record[n].digest /\ r.state = "compacted"
  BY <1>1, CompactRecordFacts, NoneAssumption
<1> HIDE DEF r
<1>3. record'[n] = r /\ \A m \in Builds : m # n => record'[m] = record[m]
  BY <1>1 DEF SpoolInv, SpoolTypes
<1> QED
  BY <1>1, <1>2, <1>3 DEF Known, InState

\* One step never changes the bytes of a known build, and never sends a finished one.
LEMMA StepKeepsIdentity ==
    ASSUME SpoolInv, [Next]_spoolVars, NEW n \in Builds, Known(n)
    PROVE  /\ Known(n)'
           /\ record'[n].digest = record[n].digest
           /\ InState(n, Finished) => InState(n, Finished)' /\ spent'[n] = spent[n]
<1>1. CASE Quiet \/ (\E m \in Builds, p \in Payloads : Arrival(m, p))
           \/ (\E m \in Builds : AckWrite(m) \/ HandOff(m) \/ Retire(m))
  BY <1>1 DEF Quiet, Arrival, AckWrite, HandOff, Retire, Known, InState, history
<1>2. ASSUME NEW m \in Builds, NEW r, Rewrite(m, r)
      PROVE  /\ Known(n)'
             /\ record'[n].digest = record[n].digest
             /\ InState(n, Finished) => InState(n, Finished)' /\ spent'[n] = spent[n]
  BY <1>2, RewriteFacts DEF InState
<1>3. ASSUME NEW m \in Builds, ImportNew(m)
      PROVE  record'[n] = record[n] /\ spent'[n] = spent[n]
  <2>1. spent' = spent
    BY <1>3 DEF ImportNew, history
  <2> QED
    BY <1>3, <2>1, ImportNewFacts
<1>4. ASSUME NEW m \in Builds, Cleanup(m)
      PROVE  /\ Known(n)'
             /\ record'[n].digest = record[n].digest
             /\ InState(n, Finished) => InState(n, Finished)' /\ spent'[n] = spent[n]
  <2>1. spent' = spent
    BY <1>4 DEF Cleanup, history
  <2>2. CASE m = n
    BY <1>4, <2>1, <2>2, CleanupFacts DEF InState, Finished
  <2>3. CASE m # n
    BY <1>4, <2>1, <2>3, CleanupFacts DEF InState, Known
  <2> QED
    BY <2>2, <2>3
<1>5. CASE \E m \in Builds : ImportNew(m)
  BY <1>3, <1>5 DEF Known, InState
<1> QED
  BY <1>1, <1>2, <1>4, <1>5, StepKinds

\* A build keeps its identity and bytes and, once delivered, is never sent again
\* (spool_worker.go Import, spool_cleanup.go compactRecord).
THEOREM IdentityTheorem == Spec => IdentityIsPermanent
<1>1. SpoolInv /\ [Next]_spoolVars =>
        [\A n \in Builds : Known(n) =>
            /\ Known(n)'
            /\ record'[n].digest = record[n].digest
            /\ InState(n, Finished) => InState(n, Finished)' /\ spent'[n] = spent[n]]_spoolVars
  BY StepKeepsIdentity
<1> QED
  BY <1>1, SpoolInvariant, PTL DEF Spec, IdentityIsPermanent

\* Only a request spends.
LEMMA OnlySendSpends ==
    ASSUME SpoolInv, [Next]_spoolVars, NEW n \in Builds, spent'[n] > spent[n]
    PROVE  Send
<1>1. spent[n] \in Nat
  BY DEF SpoolInv, SpoolTypes
<1>2. spent'[n] # spent[n] /\ ~(spent[n] < 0)
  BY <1>1
<1>3. CASE UNCHANGED spoolVars
  BY <1>2, <1>3 DEF spoolVars, history
<1>4. CASE Environment
  BY <1>2, <1>4 DEF Environment, Publish, Restore, OneShot, HandOff, Retire, RemoveInput,
                    LateArrival, Tick, history
<1>5. CASE Operator \/ Crash \/ BeginTick \/ Import
  BY <1>2, <1>5 DEF Operator, Start, StartRetry, Cleanup, Crash, BeginTick, Import, EndImport,
                    ImportNew, ImportKnown, ImportFails, history
<1>6. CASE Reset
  <2>1. spent'[n] \in {spent[n], 0}
    BY <1>6 DEF Reset, SpoolInv, SpoolTypes
  <2> QED
    BY <1>1, <2>1
<1>7. CASE Scan
  BY <1>2, <1>7 DEF Scan, StopPaused, NothingDue, ScanAck, ScanExhausted, Reserve, history
<1>8. CASE Round
  BY <1>2, <1>8 DEF Round, Answered, Refused, Unanswered, Settle, Acknowledge, history
<1> QED
  BY <1>3, <1>4, <1>5, <1>6, <1>7, <1>8 DEF Next

\* While one build is blocked for a reason that pauses the source, no request leaves
\* for any build, over any number of restarts (spool_worker.go:133).
THEOREM PauseTheorem == Spec => PauseStopsSource
<1>1. SpoolInv /\ [Next]_spoolVars =>
        [(\E n \in Builds : spent'[n] > spent[n]) => \A m \in Builds : ~PausedBuild(m)]_spoolVars
  <2> SUFFICES ASSUME SpoolInv, [Next]_spoolVars, NEW n \in Builds, spent'[n] > spent[n]
               PROVE  \A m \in Builds : ~PausedBuild(m)
    OBVIOUS
  <2>1. pc = "send"
    BY OnlySendSpends DEF Send
  <2> QED
    BY <2>1 DEF SpoolInv, ProcessOK
<1> QED
  BY <1>1, SpoolInvariant, PTL DEF Spec, PauseStopsSource

-----------------------------------------------------------------------------
(* The worker implements the hand-off.  *)

\* Nothing the hand-off sees has changed.
LEMMA HandoffStutter ==
    ASSUME \A n \in Builds :
              /\ Known(n)' <=> Known(n)
              /\ Known(n) => record'[n].digest = record[n].digest
              /\ InState(n, {"compacted"})' <=> InState(n, {"compacted"}),
           UNCHANGED <<ack, proof, receipts>>
    PROVE  UNCHANGED Handoff!handoffVars
<1>1. [n \in Builds |-> IF Known(n) THEN record[n].digest ELSE None]'
        = [n \in Builds |-> IF Known(n) THEN record[n].digest ELSE None]
  OBVIOUS
<1>2. {n \in Builds : InState(n, {"compacted"})}' = {n \in Builds : InState(n, {"compacted"})}
  OBVIOUS
<1> QED
  BY <1>1, <1>2 DEF Handoff!handoffVars

\* The receiver records a run, or had recorded one.
LEMMA ArrivalImplements ==
    ASSUME SpoolInv, NEW n \in Builds, NEW p \in Payloads, Arrival(n, p)
    PROVE  Handoff!RecordRun(n, Meaning[p]) \/ UNCHANGED Handoff!handoffVars
<1>1. receipts \in [Builds -> Meanings \cup {None}]
  BY DEF SpoolInv, SpoolTypes
<1>2. /\ UNCHANGED <<record, ack, proof>>
      /\ receipts' = [receipts EXCEPT ![n] = IF receipts[n] = None THEN Meaning[p] ELSE receipts[n]]
  BY DEF Arrival, Receive
<1>3. UNCHANGED [m \in Builds |-> IF Known(m) THEN record[m].digest ELSE None]
  BY <1>2 DEF Known
<1>4. UNCHANGED {m \in Builds : InState(m, {"compacted"})}
  BY <1>2 DEF InState
<1>5. UNCHANGED {m \in Builds : ack[m] # None}
  BY <1>2
<1>6. UNCHANGED {m \in Builds : IF proof[m] = None THEN FALSE ELSE proof[m].retired}
  BY <1>2
<1>7. CASE receipts[n] = None
  <2>1. receipts' = [receipts EXCEPT ![n] = Meaning[p]]
    BY <1>2, <1>7
  <2> QED
    BY <1>3, <1>4, <1>5, <1>6, <1>7, <2>1 DEF Handoff!RecordRun
<1>8. CASE receipts[n] # None
  <2>1. receipts' = receipts
    BY <1>1, <1>2, <1>8
  <2> QED
    BY <1>3, <1>4, <1>5, <1>6, <2>1 DEF Handoff!handoffVars
<1> QED
  BY <1>7, <1>8

\* An ack confirms.
LEMMA AckImplements ==
    ASSUME SpoolInv, NEW n \in Builds, AckWrite(n)
    PROVE  Handoff!Confirm(n) \/ UNCHANGED Handoff!handoffVars
<1> DEFINE T == [m \in Builds |-> IF Known(m) THEN record[m].digest ELSE None]
           C == {m \in Builds : ack[m] # None}
<1>1. /\ Known(n) /\ record[n].digest \in Payloads /\ record[n].digest # None
      /\ receipts[n] = Meaning[record[n].digest]
  BY KnownRecord, NoneAssumption DEF AckWrite, SpoolInv, BuildOK
<1>2. T[n] = record[n].digest
  BY <1>1
<1>3. UNCHANGED <<record, proof, receipts>> /\ ack' \in {ack, [ack EXCEPT ![n] = record[n].digest]}
  BY DEF AckWrite
<1>4. UNCHANGED T /\ UNCHANGED {m \in Builds : InState(m, {"compacted"})}
  BY <1>3 DEF Known, InState
<1>5. UNCHANGED {m \in Builds : IF proof[m] = None THEN FALSE ELSE proof[m].retired}
  BY <1>3
<1>6. CASE ack' = ack
  BY <1>3, <1>4, <1>5, <1>6 DEF Handoff!handoffVars
<1>7. CASE ack' = [ack EXCEPT ![n] = record[n].digest]
  <2>1. C' = C \cup {n}
    BY <1>1, <1>7 DEF SpoolInv, SpoolTypes
  <2>2. T[n] # None /\ receipts[n] = Meaning[T[n]]
    BY <1>1, <1>2
  <2> HIDE DEF T, C
  <2> QED
    BY <1>3, <1>4, <1>5, <2>1, <2>2 DEF Handoff!Confirm, T, C
<1> QED
  BY <1>3, <1>6, <1>7

\* A new import takes a build in.
LEMMA ImportImplements ==
    ASSUME SpoolInv, NEW n \in Builds, ImportNew(n)
    PROVE  Handoff!TakeIn(n, input[n]) \/ UNCHANGED Handoff!handoffVars
<1> DEFINE T == [m \in Builds |-> IF Known(m) THEN record[m].digest ELSE None]
           G == {m \in Builds : InState(m, {"compacted"})}
<1>1. /\ ~Known(n) /\ UNCHANGED <<ack, proof, receipts>>
      /\ \A m \in Builds : m # n => record'[m] = record[m]
      /\ \/ record'[n] = record[n]
         \/ Known(n)' /\ record'[n].digest = input[n] /\ ~InState(n, {"compacted"})'
  BY ImportNewFacts DEF ImportNew
<1>2. CASE record'[n] = record[n]
  BY <1>1, <1>2, HandoffStutter DEF Known, InState
<1>3. CASE Known(n)' /\ record'[n].digest = input[n] /\ ~InState(n, {"compacted"})'
  <2>1. T[n] = None
    BY <1>1
  <2>2. T' = [T EXCEPT ![n] = input[n]]
    BY <1>1, <1>3 DEF Known
  <2>3. G' = G
    BY <1>1, <1>3 DEF InState, Known
  <2> HIDE DEF T, G
  <2> QED
    BY <1>1, <2>1, <2>2, <2>3 DEF Handoff!TakeIn, T, G
<1> QED
  BY <1>1, <1>2, <1>3

\* The collector's checkpoint: a hand-off alone is not yet a release.
LEMMA CollectorImplements ==
    ASSUME SpoolInv, NEW n \in Builds, HandOff(n) \/ Retire(n)
    PROVE  Handoff!Release(n) \/ UNCHANGED Handoff!handoffVars
<1> DEFINE R == {m \in Builds : IF proof[m] = None THEN FALSE ELSE proof[m].retired}
           T == [m \in Builds |-> IF Known(m) THEN record[m].digest ELSE None]
           G == {m \in Builds : InState(m, {"compacted"})}
           C == {m \in Builds : ack[m] # None}
<1>1. UNCHANGED <<record, ack, receipts>>
  BY DEF HandOff, Retire
<1>2. UNCHANGED T /\ UNCHANGED G /\ UNCHANGED C
  BY <1>1 DEF Known, InState
<1>3. proof \in [Builds -> Proof \cup {None}]
  BY DEF SpoolInv, SpoolTypes
<1>4. CASE HandOff(n)
  <2> DEFINE q == [digest |-> input[n], handoff |-> now, retired |-> FALSE]
  <2>1. proof[n] = None /\ proof' = [proof EXCEPT ![n] = q]
    BY <1>4 DEF HandOff
  <2>2. q \in Proof
    BY <1>4, SpoolAssumption DEF HandOff, Proof, SpoolInv, SpoolTypes
  <2>3. q # None /\ ~q.retired
    BY <2>2, NoneAssumption
  <2> HIDE DEF q
  <2>4. R' = R
    BY <1>3, <2>1, <2>3
  <2> QED
    BY <1>1, <1>2, <2>4 DEF Handoff!handoffVars
<1>5. CASE Retire(n)
  <2> DEFINE q == [proof[n] EXCEPT !.retired = TRUE]
  <2>1. proof[n] \in Proof /\ proof' = [proof EXCEPT ![n] = q]
    BY <1>3, <1>5 DEF Retire
  <2>2. q \in Proof /\ q.retired
    BY <2>1 DEF Proof
  <2>3. q # None
    BY <2>2, NoneAssumption
  <2>4. n \in C
    BY <1>5, <2>1, NoneAssumption DEF Retire, SpoolInv, BuildOK, Proof
  <2> HIDE DEF q
  <2>5. R' = R \cup {n}
    BY <1>3, <2>1, <2>2, <2>3
  <2> HIDE DEF R, T, G, C
  <2> QED
    BY <1>1, <1>2, <2>4, <2>5 DEF Handoff!Release, R, T, G, C
<1> QED
  BY <1>4, <1>5

\* Cleanup gives up what is confirmed and released.
LEMMA CleanupImplements ==
    ASSUME SpoolInv, NEW n \in Builds, Cleanup(n)
    PROVE  Handoff!GiveUp(n)
<1> DEFINE R == {m \in Builds : IF proof[m] = None THEN FALSE ELSE proof[m].retired}
           T == [m \in Builds |-> IF Known(m) THEN record[m].digest ELSE None]
           G == {m \in Builds : InState(m, {"compacted"})}
           C == {m \in Builds : ack[m] # None}
<1>1. /\ Known(n) /\ Known(n)' /\ record'[n].digest = record[n].digest
      /\ InState(n, {"compacted"})'
      /\ \A m \in Builds : m # n => record'[m] = record[m]
      /\ UNCHANGED <<ack, proof, receipts>>
  BY CleanupFacts DEF Cleanup
<1>2. ack[n] = record[n].digest /\ record[n].digest \in Payloads
  BY <1>1, KnownRecord DEF Cleanup, SpoolInv
<1>3. n \in C /\ n \in R
  BY <1>2, NoneAssumption DEF Cleanup, CollectorProof
<1>4. T' = T
  BY <1>1 DEF Known
<1>5. G' = G \cup {n}
  BY <1>1 DEF InState
<1>6. R' = R /\ C' = C
  BY <1>1
<1> HIDE DEF R, T, G, C
<1> QED
  BY <1>1, <1>3, <1>4, <1>5, <1>6 DEF Handoff!GiveUp, R, T, G, C

\* The durable delivery implements JenkinsHandoff: no bytes are taken in twice, no ack
\* is given without the receipt, and no copy is dropped out of order.
THEOREM SpoolImplementsHandoff == Spec => HandoffSpec
<1>1. Init => Handoff!Init
  BY DEF Init, Handoff!Init, Known, InState
<1>2. SpoolInv /\ [Next]_spoolVars => [Handoff!Next]_Handoff!handoffVars
  <2> SUFFICES ASSUME SpoolInv, [Next]_spoolVars
               PROVE  Handoff!Next \/ UNCHANGED Handoff!handoffVars
    BY DEF Handoff!handoffVars
  <2>1. CASE Quiet
    BY <2>1, HandoffStutter DEF Quiet, Known, InState
  <2>2. ASSUME NEW n \in Builds, NEW r, Rewrite(n, r)
        PROVE  UNCHANGED Handoff!handoffVars
    <3>1. /\ UNCHANGED <<ack, proof, receipts>>
          /\ \A m \in Builds : Known(m)' <=> Known(m)
      BY <2>2, RewriteFacts DEF Rewrite, Known
    <3> QED
      BY <2>2, <3>1, RewriteFacts, HandoffStutter
  <2>3. ASSUME NEW n \in Builds, NEW p \in Payloads, Arrival(n, p)
        PROVE  Handoff!Next \/ UNCHANGED Handoff!handoffVars
    BY <2>3, ArrivalImplements, SpoolAssumption DEF Handoff!Next
  <2>4. ASSUME NEW n \in Builds, AckWrite(n)
        PROVE  Handoff!Next \/ UNCHANGED Handoff!handoffVars
    BY <2>4, AckImplements DEF Handoff!Next
  <2>5. ASSUME NEW n \in Builds, ImportNew(n)
        PROVE  Handoff!Next \/ UNCHANGED Handoff!handoffVars
    <3>1. input[n] \in Payloads
      BY <2>5, ImportNewFacts
    <3>2. Handoff!TakeIn(n, input[n]) \/ UNCHANGED Handoff!handoffVars
      BY <2>5, ImportImplements
    <3> QED
      BY <3>1, <3>2 DEF Handoff!Next, Handoff!TakeIn
  <2>6. ASSUME NEW n \in Builds, HandOff(n) \/ Retire(n) \/ Cleanup(n)
        PROVE  Handoff!Next \/ UNCHANGED Handoff!handoffVars
    BY <2>6, CollectorImplements, CleanupImplements DEF Handoff!Next
  <2> QED
    BY <2>1, <2>2, <2>3, <2>4, <2>5, <2>6, StepKinds
<1> QED
  BY <1>1, <1>2, SpoolInvariant, PTL DEF Spec, HandoffSpec, Handoff!Spec
-----------------------------------------------------------------------------
(* Bounded overtaking.  Another build has one turn before n for each time  *)
(* its budget starts: at the import and at each manual reset.  The turns   *)
(* it still has are a set of pairs, and a round given to it while n is due *)
(* uses one up, because a round that is over leaves the build behind n.    *)
(* Only a fault gives a turn back: the round is then made again.           *)

\* A round of m is under way.
Serving(m) == pc \in {"send", "await", "settle"} /\ item = m

\* The worker would pick m before n.
Ahead(m, n) ==
    /\ Active(m) /\ ~Serving(m)
    /\ \/ record[m].next < record[n].next
       \/ record[m].next = record[n].next /\ m < n

\* m has not had its turn number k yet.
TurnLeft(m, k, n) ==
    \/ ~Known(m)
    \/ ~InState(m, Finished) /\ k > record[m].resets
    \/ Ahead(m, n) /\ k = record[m].resets

AllTurns(n) == (Builds \ {n}) \X (0..MaxResets)
Turns(n) == {t \in AllTurns(n) : TurnLeft(t[1], t[2], n)}

Unfinished == {"pending", "in_flight", "retry_wait", "blocked"}

\* What was passed over and what may still pass: never more than all turns and faults.
Overtaken(n) ==
    /\ Serving(n) => waited[n] = 0
    /\ waited[n] # 0 => /\ InState(n, Unfinished)
                        /\ record[n].next <= now
                        /\ waited[n] + Cardinality(Turns(n)) <= Cardinality(AllTurns(n)) + faults

\* The turns are finitely many.
LEMMA TurnsFinite ==
    ASSUME NEW n \in Builds
    PROVE  /\ IsFiniteSet(AllTurns(n)) /\ Cardinality(AllTurns(n)) \in Nat
           /\ Cardinality(AllTurns(n)) = Cardinality(Builds \ {n}) * (1 + MaxResets)
           /\ Cardinality(Builds \ {n}) \in Nat
<1>1. IsFiniteSet(Builds \ {n}) /\ Cardinality(Builds \ {n}) \in Nat
  BY FS_RemoveElement, FS_CardinalityType, SpoolAssumption
<1>2. IsFiniteSet(0..MaxResets) /\ Cardinality(0..MaxResets) = 1 + MaxResets
  BY FS_Interval, SpoolAssumption
<1>3. /\ IsFiniteSet(AllTurns(n))
      /\ Cardinality(AllTurns(n)) = Cardinality(Builds \ {n}) * (1 + MaxResets)
  BY <1>1, <1>2, FS_Product DEF AllTurns
<1>4. Cardinality(AllTurns(n)) \in Nat
  BY <1>3, FS_CardinalityType
<1> QED
  BY <1>1, <1>3, <1>4

\* Counting turns.
LEMMA FewerTurns ==
    ASSUME NEW A, IsFiniteSet(A), NEW S \in SUBSET A, NEW T \in SUBSET A
    PROVE  /\ Cardinality(S) \in Nat /\ Cardinality(T) \in Nat
           /\ Cardinality(A) \in Nat /\ Cardinality(S) <= Cardinality(A)
           /\ T \subseteq S => Cardinality(T) <= Cardinality(S)
           /\ \A x : T \subseteq S \cup {x} => Cardinality(T) <= Cardinality(S) + 1
           /\ \A x \in S : T \subseteq S \ {x} => Cardinality(T) + 1 <= Cardinality(S)
<1>1. /\ IsFiniteSet(S) /\ IsFiniteSet(T) /\ Cardinality(S) \in Nat /\ Cardinality(T) \in Nat
      /\ Cardinality(A) \in Nat /\ Cardinality(S) <= Cardinality(A)
  BY FS_Subset, FS_CardinalityType
<1>2. T \subseteq S => Cardinality(T) <= Cardinality(S)
  BY <1>1, FS_Subset
<1>3. ASSUME NEW x, T \subseteq S \cup {x}
      PROVE  Cardinality(T) <= Cardinality(S) + 1
  <2>1. IsFiniteSet(S \cup {x}) /\ Cardinality(S \cup {x}) \in {Cardinality(S), Cardinality(S) + 1}
    BY <1>1, FS_AddElement
  <2>2. Cardinality(T) <= Cardinality(S \cup {x})
    BY <1>3, <2>1, FS_Subset
  <2> QED
    BY <1>1, <2>1, <2>2
<1>4. ASSUME NEW x \in S, T \subseteq S \ {x}
      PROVE  Cardinality(T) + 1 <= Cardinality(S)
  <2>1. IsFiniteSet(S \ {x}) /\ Cardinality(S \ {x}) = Cardinality(S) - 1
    BY <1>1, FS_RemoveElement
  <2>2. Cardinality(T) <= Cardinality(S \ {x})
    BY <1>4, <2>1, FS_Subset
  <2> QED
    BY <1>1, <2>1, <2>2
<1> QED
  BY <1>1, <1>2, <1>3, <1>4

\* A step after which no more is owed than before.
LEMMA OvertakenCounts ==
    ASSUME SpoolInv, SpoolInv', NEW n \in Builds, Overtaken(n),
           \/ waited'[n] = waited[n] /\ Turns(n)' \subseteq Turns(n) /\ faults <= faults'
           \/ /\ waited'[n] = waited[n] /\ faults' = faults + 1
              /\ \E x : Turns(n)' \subseteq Turns(n) \cup {x}
           \/ /\ waited'[n] = waited[n] + 1 /\ faults' = faults + 1
              /\ Turns(n)' \subseteq Turns(n)
           \/ /\ waited'[n] = waited[n] + 1 /\ faults <= faults'
              /\ \E x \in Turns(n) : Turns(n)' \subseteq Turns(n) \ {x}
    PROVE  waited'[n] + Cardinality(Turns(n)') <= Cardinality(AllTurns(n)) + faults'
<1> DEFINE A == AllTurns(n)
           S == Turns(n)
           T == Turns(n)'
<1> SUFFICES waited'[n] + Cardinality(T) <= Cardinality(A) + faults'
  OBVIOUS
<1>1. IsFiniteSet(A) /\ S \subseteq A
  BY TurnsFinite DEF Turns
<1>2. T \subseteq A
  BY DEF Turns, AllTurns
<1>3. /\ Cardinality(S) \in Nat /\ Cardinality(T) \in Nat
      /\ Cardinality(A) \in Nat /\ Cardinality(S) <= Cardinality(A)
      /\ T \subseteq S => Cardinality(T) <= Cardinality(S)
      /\ \A x : T \subseteq S \cup {x} => Cardinality(T) <= Cardinality(S) + 1
      /\ \A x \in S : T \subseteq S \ {x} => Cardinality(T) + 1 <= Cardinality(S)
  BY <1>1, <1>2, FewerTurns
<1>4. waited[n] \in Nat /\ waited'[n] \in Nat /\ faults \in Nat /\ faults' \in Nat
  BY SpoolAssumption DEF SpoolInv, SpoolTypes
<1>5. waited[n] + Cardinality(S) <= Cardinality(A) + faults
  BY <1>3, <1>4 DEF Overtaken
<1> HIDE DEF A, S, T
<1>6. CASE waited'[n] = waited[n] /\ T \subseteq S /\ faults <= faults'
  BY <1>3, <1>4, <1>5, <1>6
<1>7. CASE /\ waited'[n] = waited[n] /\ faults' = faults + 1
           /\ \E x : T \subseteq S \cup {x}
  BY <1>3, <1>4, <1>5, <1>7
<1>8. CASE waited'[n] = waited[n] + 1 /\ faults' = faults + 1 /\ T \subseteq S
  BY <1>3, <1>4, <1>5, <1>8
<1>9. CASE /\ waited'[n] = waited[n] + 1 /\ faults <= faults'
           /\ \E x \in S : T \subseteq S \ {x}
  BY <1>3, <1>4, <1>5, <1>9
<1> QED
  BY <1>6, <1>7, <1>8, <1>9 DEF A, S, T

\* m gets no further turn before n.
Yields(m, n) == \A k \in 0..MaxResets : TurnLeft(m, k, n)' => TurnLeft(m, k, n)

LEMMA TurnsShrink ==
    ASSUME NEW n \in Builds, \A m \in Builds \ {n} : Yields(m, n)
    PROVE  Turns(n)' \subseteq Turns(n)
BY DEF Turns, AllTurns, Yields

\* Nothing happened to m, or what happened to it does not bring it before n.
LEMMA StillYields ==
    ASSUME NEW n \in Builds, NEW m \in Builds,
           record'[n] = record[n] \/ record'[n].next = record[n].next,
           \/ record'[m] = record[m] /\ (Serving(m) => Serving(m)')
           \/ ~Known(m)
           \/ InState(m, Finished) /\ InState(m, Finished)'
    PROVE  Yields(m, n)
<1>1. record'[n].next = record[n].next
  OBVIOUS
<1>2. CASE record'[m] = record[m] /\ (Serving(m) => Serving(m)')
  BY <1>1, <1>2 DEF Yields, TurnLeft, Ahead, Active, Known, InState
<1>3. CASE ~Known(m)
  BY <1>3 DEF Yields, TurnLeft
<1>4. CASE InState(m, Finished) /\ InState(m, Finished)'
  BY <1>4 DEF Yields, TurnLeft, Ahead, Active, Known, InState, Finished
<1> QED
  BY <1>2, <1>3, <1>4

\* A new record of m: no longer to be sent, begun, reset, or due after n.
LEMMA RewrittenYields ==
    ASSUME NEW n \in Builds, NEW m \in Builds, NEW r \in SpoolRecord, m # n,
           SpoolTypes, Known(m), ~InState(m, Finished),
           record' \in {record, [record EXCEPT ![m] = r]},
           record'[m] = record[m] => (Serving(m) => Serving(m)'),
           r.resets >= record[m].resets,
           \/ r.state \in {"blocked", "delivered"}
           \/ r.resets > record[m].resets
           \/ r.next > record[n].next /\ record[n].next \in Nat
           \/ record'[m] = r => Serving(m)'
           \/ Active(m) /\ ~Serving(m) /\ r.next = record[m].next
    PROVE  Yields(m, n)
<1>1. record \in [Builds -> SpoolRecord \cup {None}] /\ r # None
  BY NoneAssumption DEF SpoolTypes
<1>2. record'[n] = record[n] /\ record'[m] \in {record[m], r}
  BY <1>1
<1>3. CASE record'[m] = record[m]
  BY <1>2, <1>3, StillYields
<1>4. CASE record'[m] = r
  <2>1. /\ record[m] \in SpoolRecord /\ record[m].resets \in Nat /\ record[m].next \in Nat
        /\ record[m].state \in Unfinished
        /\ r.resets \in Nat /\ r.next \in Nat
    BY <1>1 DEF Known, InState, SpoolRecord, Unfinished, Finished, States
  <2>2. Known(m)' /\ ~InState(m, Finished) /\ (Active(m)' <=> r.state \in {"pending", "in_flight", "retry_wait"})
    BY <1>1, <1>4 DEF Known, Active, InState
  <2>3. SUFFICES ASSUME NEW k \in 0..MaxResets, TurnLeft(m, k, n)', ~(k > record[m].resets)
                 PROVE  TurnLeft(m, k, n)
    BY <2>2 DEF Yields, TurnLeft
  <2>4. /\ Ahead(m, n)' /\ k = r.resets /\ k = record[m].resets
    BY <1>4, <2>1, <2>2, <2>3, SpoolAssumption DEF TurnLeft
  <2>5. /\ r.state \in {"pending", "in_flight", "retry_wait"} /\ ~Serving(m)'
        /\ \/ r.next < record[n].next
           \/ r.next = record[n].next /\ m < n
    BY <1>2, <1>4, <2>2, <2>4 DEF Ahead
  <2>6. ~(r.next > record[n].next /\ record[n].next \in Nat)
    BY <2>1, <2>5
  <2>7. Active(m) /\ ~Serving(m) /\ r.next = record[m].next
    BY <1>4, <2>1, <2>4, <2>5, <2>6
  <2> QED
    BY <2>4, <2>5, <2>7 DEF TurnLeft, Ahead
<1> QED
  BY <1>2, <1>3, <1>4

\* A step that leaves n and what it has waited alone.
LEMMA OvertakenStays ==
    ASSUME SpoolInv, SpoolInv', NEW n \in Builds, Overtaken(n),
           record'[n] = record[n], waited'[n] = waited[n], now <= now',
           Serving(n)' => Serving(n),
           \/ Turns(n)' \subseteq Turns(n) /\ faults <= faults'
           \/ (\E x : Turns(n)' \subseteq Turns(n) \cup {x}) /\ faults' = faults + 1
    PROVE  Overtaken(n)'
<1>1. waited'[n] + Cardinality(Turns(n)') <= Cardinality(AllTurns(n)) + faults'
  BY OvertakenCounts
<1>2. Cardinality(AllTurns(n))' = Cardinality(AllTurns(n))
  BY DEF AllTurns
<1>3. waited[n] # 0 => record[n].next <= now' /\ InState(n, Unfinished)'
  <2>1. InState(n, Unfinished) => record[n].next \in Nat
    BY KnownRecord DEF SpoolInv, SpoolRecord
  <2>2. now \in Nat /\ now' \in Nat
    BY SpoolAssumption DEF SpoolInv, SpoolTypes
  <2> QED
    BY <2>1, <2>2 DEF Overtaken, InState
<1> QED
  BY <1>1, <1>2, <1>3 DEF Overtaken

\* A step that neither writes a record nor begins or ends a round.
LEMMA CalmStep ==
    ASSUME SpoolInv, SpoolInv', NEW n \in Builds, Overtaken(n),
           record' = record, waited' = waited, faults <= faults', now <= now',
           \A m \in Builds : Serving(m) <=> Serving(m)'
    PROVE  Overtaken(n)'
<1>1. Turns(n)' \subseteq Turns(n)
  BY StillYields, TurnsShrink
<1> QED
  BY <1>1, OvertakenStays

\* A round cut short gives its build one turn back.
LEMMA RoundLost ==
    ASSUME SpoolInv, NEW n \in Builds, record'[n] = record[n],
           \A m \in Builds : m # item => record'[m] = record[m],
           \/ record' = record
           \/ /\ item \in Builds /\ Known(item) /\ ~InState(item, Finished)
              /\ record'[item] # None /\ record'[item].resets = record[item].resets
    PROVE  Turns(n)' \subseteq Turns(n) \cup {<<item, record[item].resets>>}
<1> SUFFICES ASSUME NEW m \in Builds \ {n}, NEW k \in 0..MaxResets, TurnLeft(m, k, n)',
                    <<m, k>> # <<item, record[item].resets>>
             PROVE  TurnLeft(m, k, n)
  BY DEF Turns, AllTurns
<1>1. CASE m # item
  <2>1. record'[m] = record[m] /\ ~Serving(m)
    BY <1>1 DEF Serving
  <2>2. Yields(m, n)
    BY <2>1, StillYields
  <2> QED
    BY <2>2 DEF Yields
<1>2. CASE m = item
  <2>1. k # record[item].resets
    BY <1>2
  <2>2. CASE record' = record
    BY <1>2, <2>1, <2>2 DEF TurnLeft, Known, InState
  <2>3. CASE /\ Known(item) /\ ~InState(item, Finished)
             /\ record'[item] # None /\ record'[item].resets = record[item].resets
    BY <1>2, <2>1, <2>3 DEF TurnLeft, Known
  <2> QED
    BY <2>2, <2>3
<1> QED
  BY <1>1, <1>2

\* All steps that write no record, but for a crash.
LEMMA QuietOvertakes ==
    ASSUME SpoolInv, SpoolInv', NEW n \in Builds, Overtaken(n),
           \/ Environment \/ Start \/ BeginTick \/ EndImport
           \/ \E m \in Builds : StartRetry(m) \/ ImportKnown(m) \/ ImportFails(m) \/ ScanAck(m)
           \/ StopPaused \/ NothingDue
           \/ Send \/ Answered \/ (\E a \in Refusals : Refused(a)) \/ Unanswered \/ Acknowledge
           \/ UNCHANGED spoolVars
    PROVE  Overtaken(n)'
<1>1. now \in Nat /\ faults \in Nat
  BY SpoolAssumption DEF SpoolInv, SpoolTypes
<1>2. CASE Environment
  <2>1. /\ record' = record /\ waited' = waited /\ pc' = pc /\ item' = item
        /\ faults' \in {faults, faults + 1} /\ now' \in {now, now + 1}
    BY <1>2 DEF Environment, Publish, Restore, OneShot, HandOff, Retire, RemoveInput,
                LateArrival, Tick, disk, worker, history
  <2> QED
    BY <1>1, <2>1, CalmStep DEF Serving
<1>3. CASE \/ Start \/ BeginTick \/ EndImport
           \/ \E m \in Builds : StartRetry(m) \/ ImportKnown(m) \/ ImportFails(m) \/ ScanAck(m)
           \/ StopPaused \/ NothingDue \/ Acknowledge
  <2>1. /\ record' = record /\ waited' = waited /\ now' = now /\ faults' \in {faults, faults + 1}
        /\ pc \notin {"send", "await", "settle"} /\ pc' \notin {"send", "await", "settle"}
    BY <1>3 DEF Start, BeginTick, EndImport, StartRetry, ImportKnown, ImportFails, ScanAck,
                StopPaused, NothingDue, Acknowledge, ScanDone, Compared, SaveAck, Exit, EndTick,
                disk, worker, history
  <2> QED
    BY <1>1, <2>1, CalmStep DEF Serving
<1>4. CASE Send \/ Answered \/ (\E a \in Refusals : Refused(a)) \/ Unanswered
  <2>1. /\ record' = record /\ waited' = waited /\ now' = now /\ faults' = faults
        /\ pc \in {"send", "await", "settle"} /\ pc' \in {"send", "await", "settle"}
        /\ item' = item
    BY <1>4 DEF Send, Answered, Refused, Unanswered, RoundOver, disk, history
  <2> QED
    BY <1>1, <2>1, CalmStep DEF Serving
<1>5. CASE UNCHANGED spoolVars
  BY <1>1, <1>5, CalmStep DEF Serving, spoolVars, disk, worker, history
<1> QED
  BY <1>2, <1>3, <1>4, <1>5

\* A crash costs a fault.
LEMMA CrashOvertakes ==
    ASSUME SpoolInv, SpoolInv', NEW n \in Builds, Overtaken(n), Crash
    PROVE  Overtaken(n)'
<1>1. /\ record' = record /\ waited' = waited /\ now' = now /\ faults' = faults + 1
      /\ pc' = "down"
  BY DEF Crash, Exit, disk, history
<1>2. \E x : Turns(n)' \subseteq Turns(n) \cup {x}
  BY <1>1, RoundLost
<1>3. now \in Nat
  BY SpoolAssumption DEF SpoolInv, SpoolTypes
<1> QED
  BY <1>1, <1>2, <1>3, OvertakenStays DEF Serving

\* Importing m, and compacting it.
LEMMA ImportOvertakes ==
    ASSUME SpoolInv, SpoolInv', NEW n \in Builds, Overtaken(n),
           NEW b \in Builds, ImportNew(b) \/ Cleanup(b)
    PROVE  Overtaken(n)'
<1>1. /\ waited' = waited /\ now' = now /\ faults' \in {faults, faults + 1}
      /\ \A m \in Builds : m # b => record'[m] = record[m]
      /\ now \in Nat /\ faults \in Nat
      /\ pc \notin {"send", "await", "settle"} /\ pc' \notin {"send", "await", "settle"}
  <2>1. CASE ImportNew(b)
    BY <2>1, ImportNewFacts, SpoolAssumption
       DEF ImportNew, SaveRecord, Compared, Exit, history, SpoolInv, SpoolTypes
  <2>2. CASE Cleanup(b)
    BY <2>2, CleanupFacts, SpoolAssumption DEF Cleanup, worker, history, SpoolInv, SpoolTypes
  <2> QED
    BY <2>1, <2>2
<1>2. ~Known(b) \/ (InState(b, Finished) /\ InState(b, Finished)')
  <2>1. CASE ImportNew(b)
    BY <2>1 DEF ImportNew
  <2>2. CASE Cleanup(b)
    BY <2>2, CleanupFacts DEF Cleanup, InState, Finished
  <2> QED
    BY <2>1, <2>2
<1>3. CASE n = b
  <2>1. waited[n] = 0
    BY <1>2, <1>3 DEF Overtaken, InState, Known, Unfinished, Finished
  <2> QED
    BY <1>1, <2>1 DEF Overtaken, Serving
<1>4. CASE n # b
  <2>1. \A m \in Builds \ {n} : Yields(m, n)
    BY <1>1, <1>2, <1>4, StillYields DEF Serving
  <2> QED
    BY <1>1, <1>4, <2>1, TurnsShrink, OvertakenStays DEF Serving
<1> QED
  BY <1>3, <1>4

\* Giving up on b.
LEMMA ExhaustedOvertakes ==
    ASSUME SpoolInv, SpoolInv', NEW n \in Builds, Overtaken(n),
           NEW b \in Builds, ScanExhausted(b)
    PROVE  Overtaken(n)'
<1> DEFINE r == ExhaustedRecord(record[b])
<1>1. /\ record' \in {record, [record EXCEPT ![b] = r]}
      /\ waited' = waited /\ now' = now /\ faults' \in {faults, faults + 1}
      /\ now \in Nat /\ faults \in Nat
      /\ pc \notin {"send", "await", "settle"} /\ pc' \notin {"send", "await", "settle"}
  BY SpoolAssumption DEF ScanExhausted, SaveRecord, Exit, worker, history, SpoolInv, SpoolTypes
<1>2. /\ Known(b) /\ record[b] \in SpoolRecord /\ ~InState(b, Finished)
      /\ record[b].state \in {"pending", "in_flight", "retry_wait"}
  BY KnownRecord DEF ScanExhausted, Exhausted, Active, Finished, SpoolInv
<1>3. /\ r \in SpoolRecord /\ r.state = "blocked" /\ r.resets = record[b].resets
      /\ r.next = record[b].next /\ record[b].resets \in Nat /\ record[b].next \in Nat
  BY <1>2, ExhaustedRecordFacts DEF SpoolRecord
<1> HIDE DEF r
<1>4. record \in [Builds -> SpoolRecord \cup {None}] /\ r # None
  BY <1>3, NoneAssumption DEF SpoolInv, SpoolTypes
<1>5. \A m \in Builds \ {n} : Yields(m, n)
  <2> SUFFICES ASSUME NEW m \in Builds \ {n}
               PROVE  Yields(m, n)
    OBVIOUS
  <2>1. record'[n].next = record[n].next
    BY <1>1, <1>3, <1>4
  <2>2. CASE m # b
    BY <1>1, <1>4, <2>1, <2>2, StillYields DEF Serving
  <2>3. CASE m = b
    BY <1>1, <1>2, <1>3, <2>3, RewrittenYields DEF Serving, SpoolInv
  <2> QED
    BY <2>2, <2>3
<1>6. Turns(n)' \subseteq Turns(n)
  BY <1>5, TurnsShrink
<1>7. CASE record'[n] = record[n]
  BY <1>1, <1>6, <1>7, OvertakenStays DEF Serving
<1>8. CASE n = b /\ record'[n] = r
  <2>1. waited'[n] + Cardinality(Turns(n)') <= Cardinality(AllTurns(n)) + faults'
    BY <1>1, <1>6, OvertakenCounts
  <2>2. Cardinality(AllTurns(n))' = Cardinality(AllTurns(n))
    BY DEF AllTurns
  <2>3. InState(n, Unfinished)'
    BY <1>3, <1>4, <1>8 DEF InState, Unfinished
  <2>4. waited[n] # 0 => record'[n].next <= now'
    BY <1>1, <1>3, <1>8 DEF Overtaken
  <2> QED
    BY <1>1, <2>1, <2>2, <2>3, <2>4 DEF Overtaken, Serving
<1> QED
  BY <1>1, <1>4, <1>7, <1>8

\* A manual reset uses up a turn of the build, and ends what it has waited itself.
LEMMA ResetOvertakes ==
    ASSUME SpoolInv, SpoolInv', NEW n \in Builds, Overtaken(n), Reset
    PROVE  Overtaken(n)'
<1> DEFINE b == item
           r == ResetRecord(record[b])
<1>1. /\ b \in Builds /\ Known(b) /\ record[b] \in SpoolRecord /\ ~InState(b, Finished)
      /\ now \in Nat /\ record[b].resets \in Nat
  BY KnownRecord, SpoolAssumption DEF Reset, ProcessOK, Finished, SpoolInv, SpoolTypes
<1>2. /\ record' \in {record, [record EXCEPT ![b] = r]}
      /\ waited' = [waited EXCEPT ![b] = IF record' = record THEN @ ELSE 0]
      /\ now' = now /\ faults' \in {faults, faults + 1} /\ faults \in Nat
      /\ pc = "reset" /\ pc' = "down"
  BY SpoolAssumption DEF Reset, SaveRecord, Exit, SpoolInv, SpoolTypes
<1>3. r \in SpoolRecord /\ r.resets = record[b].resets + 1
  BY <1>1, ResetRecordFacts
<1>4. /\ record \in [Builds -> SpoolRecord \cup {None}] /\ r # None
      /\ waited \in [Builds -> Nat]
  BY <1>3, NoneAssumption DEF SpoolInv, SpoolTypes
<1> HIDE DEF r, b
<1>5. CASE record'[n] = record[n]
  <2>1. waited'[n] = waited[n]
    BY <1>1, <1>2, <1>3, <1>4, <1>5
  <2>2. ASSUME NEW m \in Builds \ {n}
        PROVE  Yields(m, n)
    <3>1. CASE m # b
      BY <1>2, <1>4, <1>5, <3>1, StillYields DEF Serving
    <3>2. CASE m = b
      <4>1. r.resets >= record[b].resets /\ r.resets > record[b].resets
        BY <1>1, <1>3
      <4> QED
        BY <1>1, <1>2, <1>3, <3>2, <4>1, RewrittenYields DEF Serving, SpoolInv
    <3> QED
      BY <3>1, <3>2
  <2> QED
    BY <1>1, <1>2, <1>5, <2>1, <2>2, TurnsShrink, OvertakenStays DEF Serving
<1>6. CASE record'[n] # record[n]
  <2>1. waited'[n] = 0
    BY <1>1, <1>2, <1>4, <1>6
  <2> QED
    BY <1>2, <2>1 DEF Overtaken, Serving
<1> QED
  BY <1>5, <1>6

\* A round given to b while n is due uses up a turn of b, or a fault.
LEMMA ReserveOvertakes ==
    ASSUME SpoolInv, SpoolInv', NEW n \in Builds, Overtaken(n),
           NEW b \in Builds, Reserve(b)
    PROVE  Overtaken(n)'
<1> DEFINE r == ReservedRecord(record[b])
<1>1. /\ Known(b) /\ record[b] \in SpoolRecord /\ ~InState(b, Finished)
      /\ Active(b) /\ now \in Nat /\ Chosen(b) /\ pc = "scan"
      /\ record[b].resets \in Nat /\ record[b].resets <= MaxResets
  <2>1. Chosen(b) /\ pc = "scan"
    BY DEF Reserve, ScanDone
  <2>2. InState(b, {"pending", "in_flight", "retry_wait"}) /\ Active(b)
    BY <2>1 DEF Chosen, Due, Active
  <2>3. /\ Known(b) /\ record[b] \in SpoolRecord /\ record[b].resets \in Nat
        /\ ~InState(b, Finished)
    BY <2>2, KnownRecord DEF SpoolInv, Finished
  <2>4. record[b].resets <= MaxResets /\ now \in Nat
    BY <2>3, SpoolAssumption DEF BuildOK, SpoolInv, SpoolTypes
  <2> QED
    BY <2>1, <2>2, <2>3, <2>4
<1>2. /\ waited' = [m \in Builds |-> IF m = b \/ ~Due(m) THEN 0 ELSE waited[m] + 1]
      /\ now' = now /\ faults \in Nat
      /\ \/ /\ record' = [record EXCEPT ![b] = r] /\ faults' = faults
            /\ pc' = "send" /\ item' = b
         \/ /\ record' \in {record, [record EXCEPT ![b] = r]} /\ faults' = faults + 1
            /\ pc' = "down"
  BY SpoolAssumption DEF Reserve, SaveRecord, Exit, SpoolInv, SpoolTypes
<1>3. r \in SpoolRecord /\ r.resets = record[b].resets /\ r.next = record[b].next
  BY <1>1, ReservedRecordFacts
<1>4. record \in [Builds -> SpoolRecord \cup {None}] /\ r # None
  BY <1>3, NoneAssumption DEF SpoolInv, SpoolTypes
<1> HIDE DEF r
<1>5. CASE n = b \/ ~Due(n)
  BY <1>2, <1>5 DEF Overtaken, Serving
<1>6. CASE n # b /\ Due(n)
  <2>1. /\ waited'[n] = waited[n] + 1 /\ record'[n] = record[n] /\ ~Serving(n)'
        /\ ~Serving(b) /\ ~Serving(n)
    BY <1>1, <1>2, <1>4, <1>6 DEF Serving
  <2>2. /\ InState(n, Unfinished)' /\ record'[n].next <= now'
    BY <1>2, <1>6, <2>1 DEF Due, Active, InState, Unfinished
  <2>3. ASSUME NEW m \in Builds \ {n}
        PROVE  Yields(m, n)
    <3>1. CASE m # b
      BY <1>1, <1>2, <1>4, <2>1, <3>1, StillYields DEF Serving
    <3>2. CASE m = b
      <4>1. record' \in {record, [record EXCEPT ![b] = r]}
        BY <1>2
      <4> QED
        BY <1>1, <1>3, <2>1, <3>2, <4>1, RewrittenYields DEF SpoolInv
    <3> QED
      BY <3>1, <3>2
  <2>4. Turns(n)' \subseteq Turns(n)
    BY <2>3, TurnsShrink
  <2> PICK k \in Nat : k = record[b].resets
    BY <1>1
  <2> DEFINE x == <<b, k>>
  <2>5. x \in Turns(n)
    <3>1. Ahead(b, n)
      BY <1>1, <1>6, <2>1 DEF Chosen, Ahead
    <3>2. x \in AllTurns(n)
      BY <1>1, <1>6, SpoolAssumption DEF AllTurns
    <3> QED
      BY <3>1, <3>2 DEF Turns, TurnLeft
  <2>6. CASE faults' = faults /\ record' = [record EXCEPT ![b] = r] /\ pc' = "send" /\ item' = b
    <3>1. Known(b)' /\ Serving(b)' /\ record'[b].resets = k
      BY <1>3, <1>4, <2>6 DEF Known, Serving
    <3>2. ~TurnLeft(b, k, n)'
      BY <1>1, <3>1 DEF TurnLeft, Ahead
    <3>3. x \notin Turns(n)'
      BY <3>2 DEF Turns
    <3>4. Turns(n)' \subseteq Turns(n) \ {x}
      BY <2>4, <3>3
    <3> HIDE DEF x
    <3>5. waited'[n] + Cardinality(Turns(n)') <= Cardinality(AllTurns(n)) + faults'
      BY <1>2, <2>1, <2>5, <2>6, <3>4, OvertakenCounts
    <3> QED
      BY <2>1, <2>2, <3>5 DEF Overtaken, AllTurns
  <2>7. CASE faults' = faults + 1
    <3>1. waited'[n] + Cardinality(Turns(n)') <= Cardinality(AllTurns(n)) + faults'
      BY <2>1, <2>4, <2>7, OvertakenCounts
    <3> QED
      BY <2>1, <2>2, <3>1 DEF Overtaken, AllTurns
  <2> QED
    BY <1>2, <2>6, <2>7
<1> QED
  BY <1>5, <1>6

\* A round that is over leaves its build behind n, or out of the race.
LEMMA SettleOvertakes ==
    ASSUME SpoolInv, SpoolInv', NEW n \in Builds, Overtaken(n), Settle
    PROVE  Overtaken(n)'
<1> DEFINE b == item
<1>1. PICK d \in Delays :
          /\ SaveRecord(b, SettledRecord(record[b], answer, d),
                     CASE answer = "recorded" -> pc' = "ack" /\ UNCHANGED <<item, todo, attempt, answer>>
                       [] answer \in Pauses -> Exit
                       [] OTHER -> EndTick)
          /\ UNCHANGED <<now, input, ack, proof, receipts, late, history>>
  BY DEF Settle
<1> DEFINE r == SettledRecord(record[b], answer, d)
<1>2. /\ pc = "settle" /\ waited' = waited /\ now' = now /\ faults \in Nat
      /\ pc' \in {"ack", "down", "idle"}
      /\ record' \in {record, [record EXCEPT ![b] = r]}
      /\ faults' = faults + 1 \/ (faults' = faults /\ record' = [record EXCEPT ![b] = r])
  <2>1. /\ pc = "settle" /\ waited' = waited /\ now' = now /\ faults \in Nat
    BY <1>1, SpoolAssumption DEF Settle, history, SpoolInv, SpoolTypes
  <2>2. CASE answer = "recorded"
    BY <1>1, <2>1, <2>2 DEF SaveRecord, Exit
  <2>3. CASE answer \in Pauses
    BY <1>1, <2>1, <2>3 DEF SaveRecord, Exit, Pauses
  <2>4. CASE answer # "recorded" /\ answer \notin Pauses
    BY <1>1, <2>1, <2>4 DEF SaveRecord, Exit, EndTick
  <2> QED
    BY <2>2, <2>3, <2>4
<1>3. /\ b \in Builds /\ Known(b) /\ record[b] \in SpoolRecord /\ ~InState(b, Finished)
      /\ now \in Nat /\ answer \in Answers /\ d \in Nat \ {0} /\ Serving(b)
      /\ record[b].resets \in Nat
  BY <1>2, RoundItem, KnownRecord, SpoolAssumption DEF Finished, Serving, SpoolInv, SpoolTypes
<1>4. /\ r \in SpoolRecord /\ r.resets = record[b].resets
      /\ r.state \in {"blocked", "delivered"} \/ (r.state = "retry_wait" /\ r.next = now + d)
  BY <1>3, SettledRecordFacts
<1>5. record \in [Builds -> SpoolRecord \cup {None}] /\ r # None
  BY <1>4, NoneAssumption DEF SpoolInv, SpoolTypes
<1> HIDE DEF r
<1>6. CASE n = b \/ waited[n] = 0
  BY <1>2, <1>3, <1>6 DEF Overtaken, Serving
<1>7. CASE n # b /\ waited[n] # 0
  <2>1. record'[n] = record[n] /\ ~Serving(n)'
    BY <1>2, <1>5, <1>7 DEF Serving
  <2>2. record[n].next \in Nat /\ record[n].next <= now
    BY <1>7, KnownRecord DEF Overtaken, SpoolInv, SpoolRecord
  <2>3. CASE faults' = faults + 1
    <3>1. /\ record'[b] # None /\ record'[b].resets = record[b].resets
          /\ \A m \in Builds : m # b => record'[m] = record[m]
      BY <1>2, <1>3, <1>4, <1>5 DEF Known
    <3>2. Turns(n)' \subseteq Turns(n) \cup {<<b, record[b].resets>>}
      BY <1>3, <2>1, <3>1, RoundLost
    <3>3. now' = now /\ now <= now /\ waited'[n] = waited[n]
      BY <1>2, <1>3
    <3> QED
      BY <2>1, <2>3, <3>2, <3>3, OvertakenStays
  <2>4. CASE faults' = faults /\ record' = [record EXCEPT ![b] = r]
    <3>1. ASSUME NEW m \in Builds \ {n}
          PROVE  Yields(m, n)
      <4>1. CASE m # b
        BY <1>2, <1>5, <2>1, <4>1, StillYields DEF Serving
      <4>2. CASE m = b
        <5>1. CASE r.state = "retry_wait" /\ r.next = now + d /\ record'[b] # record[b]
          <6>1. r.next > record[n].next
            BY <1>3, <2>2, <5>1
          <6>2. r.resets >= record[b].resets
            BY <1>3, <1>4
          <6> QED
            BY <1>2, <1>3, <1>4, <2>2, <4>2, <5>1, <6>1, <6>2, RewrittenYields DEF SpoolInv
        <5>2. CASE r.state \in {"blocked", "delivered"}
          <6>1. r.resets >= record[b].resets
            BY <1>3, <1>4
          <6>2. record'[b] # record[b]
            <7>1. record[b].state = "in_flight"
              BY <1>2, RoundItem
            <7> QED
              BY <1>3, <1>5, <2>4, <5>2, <7>1
          <6> QED
            BY <1>2, <1>3, <1>4, <4>2, <5>2, <6>1, <6>2, RewrittenYields DEF SpoolInv
        <5>3. CASE r.state = "retry_wait"
          <6>1. record[b].state = "in_flight"
            BY <1>2, RoundItem
          <6>2. record'[b] # record[b]
            BY <1>3, <1>5, <2>4, <5>3, <6>1
          <6> QED
            BY <1>4, <5>1, <5>3, <6>2
        <5> QED
          BY <1>4, <5>2, <5>3
      <4> QED
        BY <4>1, <4>2
    <3>2. Turns(n)' \subseteq Turns(n)
      BY <3>1, TurnsShrink
    <3> QED
      BY <1>2, <1>3, <2>1, <2>4, <3>2, OvertakenStays
  <2> QED
    BY <1>2, <2>3, <2>4
<1> QED
  BY <1>6, <1>7

\* Every step.
LEMMA StepOvertakes ==
    ASSUME SpoolInv, SpoolInv', NEW n \in Builds, Overtaken(n), [Next]_spoolVars
    PROVE  Overtaken(n)'
<1>1. CASE UNCHANGED spoolVars \/ Environment \/ Crash \/ BeginTick \/ Reset
  BY <1>1, QuietOvertakes, CrashOvertakes, ResetOvertakes
<1>2. CASE Operator
  BY <1>2, QuietOvertakes, ImportOvertakes DEF Operator
<1>3. CASE Import
  BY <1>3, QuietOvertakes, ImportOvertakes DEF Import
<1>4. CASE Scan
  BY <1>4, QuietOvertakes, ExhaustedOvertakes, ReserveOvertakes DEF Scan
<1>5. CASE Round
  BY <1>5, QuietOvertakes, SettleOvertakes DEF Round
<1> QED
  BY <1>1, <1>2, <1>3, <1>4, <1>5 DEF Next

\* A due build is passed over a bounded number of times, whatever crashes, is reset or
\* fails meanwhile (spool_worker.go:93).
THEOREM OvertakingIsBounded == Spec => []NoStarvation
<1> DEFINE Inv == SpoolInv /\ \A n \in Builds : Overtaken(n)
<1>1. Init => Inv
  BY InitKeeps DEF Init, Overtaken, Serving
<1>2. Inv /\ [Next]_spoolVars => Inv'
  BY StepKeeps, StepOvertakes
<1>3. Inv => NoStarvation
  <2> SUFFICES ASSUME Inv, NEW n \in Builds
               PROVE  waited[n] <= (1 + MaxResets) * Cardinality(Builds \ {n}) + faults
    BY DEF NoStarvation
  <2>1. /\ Cardinality(AllTurns(n)) \in Nat
        /\ Cardinality(AllTurns(n)) = (1 + MaxResets) * Cardinality(Builds \ {n})
    <3>1. /\ Cardinality(AllTurns(n)) \in Nat /\ Cardinality(Builds \ {n}) \in Nat
          /\ Cardinality(AllTurns(n)) = Cardinality(Builds \ {n}) * (1 + MaxResets)
      BY TurnsFinite
    <3> QED
      BY <3>1, SpoolAssumption
  <2>2. Cardinality(Turns(n)) \in Nat
    BY TurnsFinite, FewerTurns DEF Turns
  <2>3. waited[n] \in Nat /\ faults \in Nat
    BY SpoolAssumption DEF SpoolInv, SpoolTypes
  <2>4. waited[n] <= Cardinality(AllTurns(n)) + faults
    BY <2>1, <2>2, <2>3 DEF Overtaken
  <2> QED
    BY <2>1, <2>4
<1> QED
  BY <1>1, <1>2, <1>3, PTL DEF Spec

-----------------------------------------------------------------------------
(* One pause is for good.  *)

\* A retry under way is of a build that may be retried.
RetryOK == pc \in {"import", "reset"} /\ item # NoBuild => record[item].reason \notin NotRetryable

LEMMA RetryStaysOK ==
    ASSUME SpoolInv, RetryOK, [Next]_spoolVars PROVE RetryOK'
<1> SUFFICES ASSUME pc' \in {"import", "reset"}, item' # NoBuild
             PROVE  record'[item'].reason \notin NotRetryable
  BY DEF RetryOK
<1>1. CASE UNCHANGED spoolVars
  BY <1>1 DEF spoolVars, disk, worker, RetryOK
<1>2. CASE Environment
  BY <1>2 DEF Environment, Publish, Restore, OneShot, HandOff, Retire, RemoveInput,
              LateArrival, Tick, disk, worker, RetryOK
<1>3. CASE Operator
  BY <1>3 DEF Operator, Start, StartRetry, Cleanup, disk, worker, RetryOK
<1>4. CASE Crash \/ Reset
  <2>1. pc' = "down"
    BY <1>4 DEF Crash, Reset, SaveRecord, Exit
  <2> QED
    BY <2>1
<1>5. CASE BeginTick
  BY <1>5 DEF BeginTick, SpoolInv, ProcessOK
<1>6. CASE EndImport \/ (\E n \in Builds : ImportKnown(n) \/ ImportFails(n))
  BY <1>6 DEF EndImport, ImportKnown, ImportFails, Compared, Exit, disk, RetryOK
<1>7. ASSUME NEW n \in Builds, ImportNew(n)
      PROVE  record'[item'].reason \notin NotRetryable
  <2>1. pc = "import" /\ item' = item
    BY <1>7 DEF ImportNew, SaveRecord, Compared, Exit
  <2>2. item \in Builds /\ Known(item)
    BY <2>1, KnownRecord DEF SpoolInv, SpoolTypes, ProcessOK
  <2>3. record'[item] = record[item]
    BY <1>7, <2>2, ImportNewFacts
  <2> QED
    BY <2>1, <2>3 DEF RetryOK
<1>8. CASE Scan
  BY <1>8 DEF Scan, StopPaused, NothingDue, ScanAck, ScanExhausted, Reserve, ScanDone,
              SaveRecord, SaveAck, Exit, EndTick, worker
<1>9. CASE Round
  <2>1. CASE Settle
    BY <2>1 DEF Settle, SaveRecord, Exit, EndTick, Pauses
  <2> QED
    BY <1>9, <2>1 DEF Round, Send, Answered, Refused, Unanswered, RoundOver, Acknowledge,
                      SaveAck, Exit, EndTick
<1> QED
  BY <1>1, <1>2, <1>3, <1>4, <1>5, <1>6, <1>7, <1>8, <1>9 DEF Next, Import

\* No step writes the record of a mismatched build.
LEMMA MismatchStays ==
    ASSUME SpoolInv, RetryOK, [Next]_spoolVars, NEW n \in Builds, Mismatched(n)
    PROVE  record'[n] = record[n]
<1>1. /\ Known(n) /\ record[n].state = "blocked"
      /\ record \in [Builds -> SpoolRecord \cup {None}]
  BY KnownRecord DEF Mismatched, SpoolInv, SpoolTypes
<1>2. ASSUME NEW b, NEW r, record' \in {record, [record EXCEPT ![b] = r]}, b # n
      PROVE  record'[n] = record[n]
  BY <1>1, <1>2
<1>3. CASE Reset
  <2>1. item # n
    BY <1>3, SpoolAssumption DEF Reset, RetryOK, Mismatched, NotRetryable, NoBuild
  <2> QED
    BY <1>2, <1>3, <2>1 DEF Reset, SaveRecord
<1>4. CASE Settle
  <2>1. item # n
    BY <1>1, <1>4, RoundItem DEF Settle
  <2> QED
    BY <1>2, <1>4, <2>1 DEF Settle, SaveRecord
<1>5. ASSUME NEW b \in Builds, ScanExhausted(b) \/ Reserve(b)
      PROVE  record'[n] = record[n]
  <2>1. b # n
    BY <1>1, <1>5 DEF ScanExhausted, Exhausted, Reserve, Chosen, Due, Active, InState
  <2> QED
    BY <1>2, <1>5, <2>1 DEF ScanExhausted, Reserve, SaveRecord
<1>6. ASSUME NEW b \in Builds, ImportNew(b)
      PROVE  record'[n] = record[n]
  BY <1>1, <1>6, ImportNewFacts
<1>7. ASSUME NEW b \in Builds, Cleanup(b)
      PROVE  record'[n] = record[n]
  <2>1. b # n
    BY <1>1, <1>7 DEF Cleanup, InState
  <2> QED
    BY <1>7, <2>1, CleanupFacts
<1>8. CASE \/ UNCHANGED spoolVars \/ Environment \/ Crash \/ BeginTick \/ Start
           \/ \E b \in Builds : StartRetry(b) \/ ImportKnown(b) \/ ImportFails(b) \/ ScanAck(b)
           \/ EndImport \/ StopPaused \/ NothingDue \/ Send \/ Answered \/ Unanswered \/ Acknowledge
           \/ \E a \in Refusals : Refused(a)
  <2>1. record' = record
    BY <1>8 DEF Environment, Publish, Restore, OneShot, HandOff, Retire, RemoveInput,
                LateArrival, Tick, Crash, BeginTick, Start, StartRetry, ImportKnown, ImportFails,
                ScanAck, EndImport, StopPaused, NothingDue, Send, Answered, Unanswered,
                Acknowledge, Refused, spoolVars, disk
  <2> QED
    BY <2>1
<1> QED
  BY <1>3, <1>4, <1>5, <1>6, <1>7, <1>8 DEF Next, Operator, Import, Scan, Round

\* A source_binding_mismatch is never lifted, by no retry, restart, restored input or
\* cleanup, and while it stands no request leaves for any build (spool_worker.go:243,
\* where retry refuses it, and spool_worker.go:133).
THEOREM MismatchIsForGood == Spec => MismatchIsPermanent
<1> DEFINE Inv == SpoolInv /\ RetryOK
<1>1. Init => Inv
  BY InitKeeps DEF Init, RetryOK
<1>2. Inv /\ [Next]_spoolVars => Inv'
  BY StepKeeps, RetryStaysOK
<1>3. Inv /\ [Next]_spoolVars =>
        [\A n \in Builds : Mismatched(n) =>
             /\ Mismatched(n)'
             /\ \A m \in Builds : ~(spent'[m] > spent[m])]_spoolVars
  <2> SUFFICES ASSUME Inv, [Next]_spoolVars, NEW n \in Builds, Mismatched(n)
               PROVE  /\ Mismatched(n)'
                      /\ \A m \in Builds : ~(spent'[m] > spent[m])
    OBVIOUS
  <2>1. Mismatched(n)'
    BY MismatchStays DEF Mismatched, InState
  <2>2. PausedBuild(n)
    BY DEF Mismatched, PausedBuild, Pauses
  <2>3. ASSUME NEW m \in Builds, spent'[m] > spent[m]
        PROVE  FALSE
    <3>1. pc = "send"
      BY <2>3, OnlySendSpends DEF Send
    <3> QED
      BY <2>2, <3>1 DEF SpoolInv, ProcessOK
  <2> QED
    BY <2>1, <2>3
<1> QED
  BY <1>1, <1>2, <1>3, PTL DEF Spec, MismatchIsPermanent

=============================================================================
