------------------------------ MODULE Accounts ------------------------------
(***************************************************************************)
(* Local accounts of the server: the login guard, password login with its  *)
(* lockout, logout, the recovery command of the operator and the mapping   *)
(* of legacy accounts to e-mail addresses                                  *)
(* (server/internal/platform/authn, authn/postgres, httptransport          *)
(* auth.go and limiter.go, cmd/nexus-account-recover).                     *)
(*                                                                         *)
(* A login reads the credential without a lock, verifies the password and  *)
(* takes its time, and only then opens the transaction that counts a       *)
(* failure or creates a Session; a recovery works in the same way. Those   *)
(* transactions lock the account row first, so each is one step. What lies *)
(* between the steps is where other requests come in.                      *)
(*                                                                         *)
(* Left out: disabled accounts and credentials (nothing in the program     *)
(* disables one), the spelling of names, addresses and passwords, and the  *)
(* difference between the clocks of the server and of the database.        *)
(***************************************************************************)
EXTENDS Naturals, Sequences, FiniteSets

CONSTANTS Users,      \* accounts with a local credential
          Legacy,     \* those that have no e-mail address yet
          Passwords,
          Clients,    \* client addresses
          Logins,     \* login requests
          Runs,       \* runs of nexus-account-recover apply
          Operations, \* operation IDs of recoveries
          LoginFailureLimit, LoginLockDuration, SessionLifetime,
          AttemptLimit, WindowDuration, MaxClients, PasswordSlots, \* the login guard
          MaxTime,    \* bound of the clock
          Casts,      \* how many logins and runs happen, for which clients
          None

ASSUME AccountsAssumption ==
    /\ Legacy \subseteq Users
    /\ {LoginFailureLimit, LoginLockDuration, SessionLifetime, AttemptLimit,
        WindowDuration, MaxClients, PasswordSlots, MaxTime} \subseteq Nat \ {0}
    /\ None \notin Runs
    /\ IsFiniteSet(Clients) /\ IsFiniteSet(Logins)
    /\ Casts \subseteq [logins : Nat, runs : Nat, clients : SUBSET Clients]

VARIABLES cast,       \* who takes part, chosen once
          now,
          credential, \* local_credentials by user
          login,      \* what each login request knows
          session,    \* the Session a login request created
          window,     \* login guard: attempts of a client in its window
          slots,      \* login guard: passwords being verified
          run,        \* what each recovery run knows
          audit,      \* identity_audit: the recoveries, in commit order
          blamed      \* history: guesses counted as failures since the last reset

guard == <<window, slots>>
vars == <<cast, now, credential, login, session, guard, run, audit, blamed>>

\* A hash stands for one act of hashing: its salt is fresh. `by` is the recovery
\* run that made it, None for the hash the account was created with.
Hash(password, by) == [password |-> password, by |-> by]
Hashes == [password : Passwords, by : Runs \cup {None}]

Verify(hash, password) == hash.password = password

\* locked_until is 0 while it is NULL.
LockedAt(c, t) == c.lockedUntil > t

-----------------------------------------------------------------------------
(* The login guard *)

WindowExpired(k) == now >= window[k].startedAt + WindowDuration

Without(S) == [k \in DOMAIN window \ S |-> window[k]]

\* The windows that remain when client k knocks: its own expired one goes, and all
\* expired ones go when there is no room for a new client.
Remaining(k) ==
    LET expired == {c \in DOMAIN window : WindowExpired(c)}
        mine == Without(expired \cap {k})
    IN  IF k \notin DOMAIN mine /\ Cardinality(DOMAIN mine) >= MaxClients
        THEN Without(expired) ELSE mine

\* Is there room for the client, and has it attempts left?
MayTry(k) ==
    LET left == Remaining(k)
    IN  IF k \in DOMAIN left THEN left[k].attempts < AttemptLimit
        ELSE Cardinality(DOMAIN left) < MaxClients

Counted(k) ==
    LET left == Remaining(k)
    IN  [c \in DOMAIN left \cup {k} |->
            IF c # k THEN left[c]
            ELSE IF k \in DOMAIN left THEN [left[k] EXCEPT !.attempts = @ + 1]
            ELSE [startedAt |-> now, attempts |-> 1]]

InFlight == {a \in Logins : login[a].at \in {"admitted", "found", "wrong", "right", "created"}}

-----------------------------------------------------------------------------
NoLogin == [at |-> "idle", user |-> None, password |-> None,
            seen |-> None, time |-> 0]
NoRun == [at |-> "idle", user |-> None, op |-> None, expected |-> 0, seen |-> None,
          password |-> None]

Credentials == [hash : Hashes, changedAt : 0..MaxTime, failures : 0..(LoginFailureLimit - 1),
                lockedUntil : 0..(MaxTime + LoginLockDuration), mapped : BOOLEAN]

\* What a login or a recovery reads of a credential before it locks anything.
Seen(c) == [hash |-> c.hash, changedAt |-> c.changedAt, lockedUntil |-> c.lockedUntil]
Snapshots == [hash : Hashes, changedAt : 0..MaxTime, lockedUntil : 0..(MaxTime + LoginLockDuration)]

LoginStates == {"idle", "admitted", "found", "wrong", "right", "created", "over"}
RunStates == {"idle", "inspected", "checked", "hashed", "applied", "recorded", "ineligible",
              "conflict", "same", "clock", "failed", "unconfirmed"}

LoginRecord == [at : LoginStates, user : Users \cup {None}, password : Passwords \cup {None},
                seen : Snapshots \cup {None}, time : 0..MaxTime]
RunRecord == [at : RunStates, user : Users \cup {None}, op : Operations \cup {None},
              expected : 0..MaxTime, seen : Snapshots \cup {None}, password : Passwords \cup {None}]
Recovery == [user : Users, op : Operations, by : Runs, previous : 0..MaxTime, applied : 1..MaxTime]
Guess == [by : Logins, hash : Hashes, password : Passwords]

TypeOK ==
    /\ cast \in Casts
    /\ now \in 1..MaxTime
    /\ credential \in [Users -> Credentials]
    /\ login \in [Logins -> LoginRecord]
    /\ session \in [Logins -> {"none", "live", "revoked"}]
    /\ DOMAIN window \subseteq Clients
    /\ \A k \in DOMAIN window :
           window[k] \in [startedAt : 1..MaxTime, attempts : 1..AttemptLimit]
    /\ slots \in 0..PasswordSlots
    /\ run \in [Runs -> RunRecord]
    /\ audit \in Seq(Recovery)
    /\ blamed \in [Users -> SUBSET Guess]

Init ==
    /\ cast \in Casts
    /\ now = 1
    /\ \E first \in Passwords :
           credential = [u \in Users |-> [hash |-> Hash(first, None), changedAt |-> 0, failures |-> 0,
                                          lockedUntil |-> 0, mapped |-> u \notin Legacy]]
    /\ login = [a \in Logins |-> NoLogin]
    /\ session = [a \in Logins |-> "none"]
    /\ window = <<>>
    /\ slots = 0
    /\ run = [r \in Runs |-> NoRun]
    /\ audit = <<>>
    /\ blamed = [u \in Users |-> {}]

-----------------------------------------------------------------------------
(* Login *)

\* The guard counts the attempt first; then it may still refuse for want of a slot.
Begin(a, k, u, p) ==
    /\ login[a].at = "idle" /\ k \in cast.clients
    /\ Cardinality({b \in Logins : login[b].at # "idle"}) < cast.logins
    /\ LET admitted == MayTry(k) /\ slots < PasswordSlots
       IN  /\ window' = IF MayTry(k) THEN Counted(k) ELSE Remaining(k)
           /\ slots' = IF admitted THEN slots + 1 ELSE slots
           /\ login' = [login EXCEPT ![a] = [NoLogin EXCEPT
                  !.at = IF admitted THEN "admitted" ELSE "over",
                  !.user = IF admitted THEN u ELSE None, !.password = IF admitted THEN p ELSE None]]
    /\ UNCHANGED <<cast, now, credential, session, run, audit, blamed>>

\* What is left of a request that has been answered: who got a Session, and how.
Ended(a) == IF session[a] = "none" THEN [NoLogin EXCEPT !.at = "over"] ELSE [login[a] EXCEPT !.at = "over"]

\* The handler is done with the request and gives its slot back.
Release(a) ==
    /\ login' = [login EXCEPT ![a] = Ended(a)]
    /\ slots' = slots - 1
    /\ UNCHANGED window

\* An account without an e-mail address is not found.
Find(a) ==
    /\ login[a].at = "admitted"
    /\ LET c == credential[login[a].user]
       IN  IF c.mapped
           THEN /\ login' = [login EXCEPT ![a].at = "found", ![a].seen = Seen(c)]
                /\ UNCHANGED guard
           ELSE Release(a)
    /\ UNCHANGED <<cast, now, credential, session, run, audit, blamed>>

\* Decided on the credential as it was read; the time is taken after the hash.
Decide(a) ==
    /\ login[a].at = "found"
    /\ IF LockedAt(login[a].seen, now)
       THEN Release(a)
       ELSE /\ login' = [login EXCEPT ![a].time = now,
                  ![a].at = IF Verify(login[a].seen.hash, login[a].password) THEN "right" ELSE "wrong"]
            /\ UNCHANGED guard
    /\ UNCHANGED <<cast, now, credential, session, run, audit, blamed>>

\* Counts whatever credential the user has by now.
BugStillFails(a) == ~LockedAt(credential[login[a].user], login[a].time)

\* A failure counts only against the credential it was checked with.
StillFails(a) ==
    LET c == credential[login[a].user]
    IN  /\ ~LockedAt(c, login[a].time)
        /\ c.hash = login[a].seen.hash /\ c.changedAt = login[a].seen.changedAt

\* Locks the account without clearing the count.
BugAfterFailure(c, t) ==
    IF c.failures + 1 >= LoginFailureLimit
    THEN [c EXCEPT !.failures = 0]
    ELSE [c EXCEPT !.failures = @ + 1]

AfterFailure(c, t) ==
    IF c.failures + 1 >= LoginFailureLimit
    THEN [c EXCEPT !.failures = 0, !.lockedUntil = t + LoginLockDuration]
    ELSE [c EXCEPT !.failures = @ + 1]

RecordFailedLogin(a) ==
    /\ login[a].at = "wrong"
    /\ LET u == login[a].user
           c == credential[u]
       IN  IF StillFails(a)
           THEN /\ credential' = [credential EXCEPT ![u] = AfterFailure(c, login[a].time)]
                /\ blamed' = [blamed EXCEPT ![u] =
                       IF c.failures + 1 >= LoginFailureLimit THEN {} ELSE @ \cup {[by |-> a, hash |-> login[a].seen.hash, password |-> login[a].password]}]
           ELSE UNCHANGED <<credential, blamed>>
    /\ Release(a)
    /\ UNCHANGED <<cast, now, session, run, audit>>

\* The UPDATE of the credential hits its row.
StillAdmits(a) ==
    LET c == credential[login[a].user]
    IN  c.hash = login[a].seen.hash /\ ~LockedAt(c, login[a].time)

CreateSession(a) ==
    /\ login[a].at = "right"
    /\ IF StillAdmits(a)
       THEN /\ credential' = [credential EXCEPT ![login[a].user].failures = 0,
                                                ![login[a].user].lockedUntil = 0]
            /\ blamed' = [blamed EXCEPT ![login[a].user] = {}]
            /\ session' = [session EXCEPT ![a] = "live"]
            /\ login' = [login EXCEPT ![a].at = "created"]
            /\ UNCHANGED guard
       ELSE /\ Release(a)
            /\ UNCHANGED <<credential, blamed, session>>
    /\ UNCHANGED <<cast, now, run, audit>>

Usable(a) == session[a] = "live" /\ now < login[a].time + SessionLifetime

\* The new Session is resolved for the answer; if it is gone already the answer is
\* an error.
AnswerLogin(a) ==
    /\ login[a].at = "created"
    /\ Release(a)
    /\ UNCHANGED <<cast, now, credential, session, run, audit, blamed>>

\* The request is cancelled or a statement fails. A Session may have been created.
FailLogin(a) ==
    /\ a \in InFlight
    /\ Release(a)
    /\ UNCHANGED <<cast, now, credential, session, run, audit, blamed>>

Logout(a) ==
    /\ login[a].at = "over" /\ Usable(a)
    /\ session' = [session EXCEPT ![a] = "revoked"]
    /\ UNCHANGED <<cast, now, credential, login, guard, run, audit, blamed>>

-----------------------------------------------------------------------------
(* Recovery by the operator *)

RevokeAll(u) == [a \in Logins |-> IF login[a].user = u /\ session[a] = "live"
                                  THEN "revoked" ELSE session[a]]

\* What the operator asks a run to do, with the credential's time as inspected.
Request(u, op, p) == [NoRun EXCEPT !.at = "inspected", !.user = u, !.op = op,
                                   !.expected = credential[u].changedAt, !.password = p]

\* The operator inspects the account and writes down what the run has to meet.
Inspect(r, u, op, p) ==
    /\ run[r].at = "idle" /\ credential[u].mapped
    /\ Cardinality({q \in Runs : run[q].at # "idle"}) < cast.runs
    /\ run' = [run EXCEPT ![r] = Request(u, op, p)]
    /\ UNCHANGED <<cast, now, credential, login, session, guard, audit, blamed>>

Recorded(op) == \E i \in DOMAIN audit : audit[i].op = op

CheckOperation(r) ==
    /\ run[r].at = "inspected"
    /\ run' = [run EXCEPT ![r].at = IF Recorded(run[r].op) THEN "recorded" ELSE "checked"]
    /\ UNCHANGED <<cast, now, credential, login, session, guard, audit, blamed>>

\* The candidate is read, compared with what the operator saw, and the new
\* password is hashed.
ReadCandidate(r) ==
    /\ run[r].at = "checked"
    /\ LET c == credential[run[r].user]
       IN  run' = [run EXCEPT ![r].seen = Seen(c),
                      ![r].at = IF c.changedAt # run[r].expected THEN "conflict"
                                ELSE IF Verify(c.hash, run[r].password) THEN "same"
                                ELSE "hashed"]
    /\ UNCHANGED <<cast, now, credential, login, session, guard, audit, blamed>>

\* The candidate read before the lock is not compared with the locked row.
BugVerdict(r) == IF Recorded(run[r].op) THEN "recorded" ELSE "applied"

\* What is found under the locks of account and credential.
Verdict(r) ==
    LET c == credential[run[r].user]
    IN  IF Recorded(run[r].op) THEN "recorded"
        ELSE IF c.hash # run[r].seen.hash \/ c.changedAt # run[r].seen.changedAt THEN "conflict"
        ELSE IF now <= c.changedAt THEN "clock"
        ELSE "applied"

\* Sessions are left alone.
BugRecovered(r) == UNCHANGED session

Recovered(r) == session' = RevokeAll(run[r].user)

\* A lost acknowledgement is taken for a failure.
BugReport(r, acknowledged) == IF acknowledged THEN Verdict(r) ELSE "failed"

Report(r, acknowledged) == IF acknowledged THEN Verdict(r) ELSE "unconfirmed"

\* One transaction. When the acknowledgement of its COMMIT is lost the run ends
\* unconfirmed, whether or not the COMMIT took place.
ApplyRecovery(r, acknowledged, committed) ==
    /\ run[r].at = "hashed"
    /\ Verdict(r) # "applied" => acknowledged /\ ~committed
    /\ Verdict(r) = "applied" => (acknowledged => committed)
    /\ run' = [run EXCEPT ![r].at = Report(r, acknowledged)]
    /\ IF committed
       THEN LET u == run[r].user
            IN  /\ credential' = [credential EXCEPT ![u].hash = Hash(run[r].password, r),
                                     ![u].changedAt = now, ![u].failures = 0, ![u].lockedUntil = 0]
                /\ Recovered(r)
                /\ blamed' = [blamed EXCEPT ![u] = {}]
                /\ audit' = Append(audit, [user |-> u, op |-> run[r].op, by |-> r,
                                           previous |-> credential[u].changedAt, applied |-> now])
       ELSE UNCHANGED <<credential, session, blamed, audit>>
    /\ UNCHANGED <<cast, now, login, guard>>

\* A lock timeout, a cancelled context or a failed statement before the COMMIT.
FailRecovery(r) ==
    /\ run[r].at \in {"inspected", "checked", "hashed"}
    /\ run' = [run EXCEPT ![r].at = "failed"]
    /\ UNCHANGED <<cast, now, credential, login, session, guard, audit, blamed>>

\* The status command: what it tells of an operation on an account.
RecoveryStatus(u, op) ==
    IF \E i \in DOMAIN audit : audit[i].user = u /\ audit[i].op = op THEN "applied" ELSE "not_observed"

-----------------------------------------------------------------------------
\* nexus-identity-migrate gives a batch of legacy accounts their addresses and
\* ends their Sessions; one bad entry undoes the batch.
MapLegacyEmails(batch) ==
    /\ batch # {} /\ \A u \in batch : ~credential[u].mapped
    /\ credential' = [u \in Users |-> IF u \in batch THEN [credential[u] EXCEPT !.mapped = TRUE]
                                      ELSE credential[u]]
    /\ session' = [a \in Logins |-> IF login[a].user \in batch /\ session[a] = "live"
                                    THEN "revoked" ELSE session[a]]
    /\ UNCHANGED <<cast, now, login, guard, run, audit, blamed>>

Tick ==
    /\ now < MaxTime
    /\ now' = now + 1
    /\ UNCHANGED <<cast, credential, login, session, guard, run, audit, blamed>>

Next ==
    \/ \E a \in Logins :
           \/ \E k \in Clients, u \in Users, p \in Passwords : Begin(a, k, u, p)
           \/ Find(a) \/ Decide(a) \/ RecordFailedLogin(a) \/ CreateSession(a)
           \/ AnswerLogin(a) \/ FailLogin(a) \/ Logout(a)
    \/ \E r \in Runs :
           \/ \E u \in Users, op \in Operations, p \in Passwords : Inspect(r, u, op, p)
           \/ CheckOperation(r) \/ ReadCandidate(r) \/ FailRecovery(r)
           \/ \E acknowledged, committed \in BOOLEAN : ApplyRecovery(r, acknowledged, committed)
    \/ \E batch \in SUBSET Users : MapLegacyEmails(batch)
    \/ Tick

Spec == Init /\ [][Next]_vars

-----------------------------------------------------------------------------
(* Properties *)

\* A slot of the guard is taken exactly while a request is being handled, whatever
\* way it ends, and the guard remembers no more clients than it may (LoginGuard).
GuardHolds ==
    /\ slots = Cardinality(InFlight)
    /\ Cardinality(DOMAIN window) <= MaxClients

\* A password that was replaced opens nothing: every Session in force was created
\* with the credential the account has now (ADR-0041: whichever comes first, a
\* recovery leaves no usable Session of the old credential behind).
SessionsOfThisPassword ==
    \A a \in Logins : session[a] = "live" => login[a].seen.hash = credential[login[a].user].hash

\* The count of failures is the number of wrong guesses against the password in
\* force since it was last reset; guesses at an old one that end late do not lock
\* the account out of the new one (ADR-0041).
FailuresAreCurrent ==
    \A u \in Users :
        /\ credential[u].failures = Cardinality(blamed[u])
        /\ \A guess \in blamed[u] :
               guess.hash = credential[u].hash /\ ~Verify(credential[u].hash, guess.password)

\* The lockout. While an account is locked no login creates a Session for it, also
\* none that read the credential before the lock, and only a recovery ends the lock
\* early; and the LoginFailureLimit-th counted guess is the one that locks.
Lockout ==
    [][\A u \in Users :
           /\ LockedAt(credential[u], now) =>
                  /\ \A a \in Logins : login[a].user = u /\ session[a] = "none" => session'[a] = "none"
                  /\ credential'[u].hash = credential[u].hash =>
                         credential'[u].lockedUntil = credential[u].lockedUntil
           /\ \A a \in Logins :
                  /\ login[a].user = u /\ login[a].at = "wrong" /\ login'[a].at # "wrong"
                  /\ credential'[u] # credential[u]
                  /\ Cardinality(blamed[u]) = LoginFailureLimit - 1
                  => LockedAt(credential'[u], login[a].time)]_vars

\* The recoveries of an account form one chain: each was made for the credential
\* the one before left (two for the same credential never both apply), its time is
\* later, and an operation ID is spent once.
RecoveriesChain ==
    /\ \A i, j \in DOMAIN audit : audit[i].op = audit[j].op => i = j
    /\ \A i \in DOMAIN audit :
           LET before == {audit[j].applied : j \in {j \in 1..(i - 1) : audit[j].user = audit[i].user}}
           IN  /\ audit[i].previous \in before \cup {0}
               /\ \A t \in before : t <= audit[i].previous
               /\ audit[i].previous < audit[i].applied

\* What a run reports is so: "applied" if and only if its change is on record; after
\* a lost acknowledgement the status command of that operation tells which it was.
AnswersAreTrue ==
    \A r \in Runs :
        LET mine == {i \in DOMAIN audit : audit[i].by = r}
        IN  /\ run[r].at = "applied" => mine # {}
            /\ mine # {} =>
                   /\ run[r].at \in {"applied", "unconfirmed"}
                   /\ RecoveryStatus(run[r].user, run[r].op) = "applied"
=============================================================================
