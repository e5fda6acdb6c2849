-------------------------- MODULE Accounts_proofs --------------------------
(***************************************************************************)
(* Proofs about Accounts for any number of accounts, logins and recovery   *)
(* runs and every value of the limits.                                     *)
(***************************************************************************)
EXTENDS Accounts, FiniteSetTheorems, TLAPS

\* What the stage of a login says about what the login knows.
LoginOK(a) ==
    /\ login[a].at \in {"admitted", "found", "wrong", "right", "created"} =>
           login[a].user \in Users /\ login[a].password \in Passwords
    /\ login[a].at \in {"found", "wrong", "right"} => login[a].seen \in Snapshots
    /\ login[a].at = "wrong" => ~Verify(login[a].seen.hash, login[a].password)
    /\ login[a].time <= now
    /\ session[a] # "none" => login[a].at \in {"created", "over"} /\ login[a].user \in Users

\* The same for a recovery, and how its change is on record.
RunOK(r) ==
    /\ run[r].at # "idle" => /\ run[r].user \in Users /\ run[r].op \in Operations
                             /\ run[r].password \in Passwords
    /\ run[r].at = "hashed" => run[r].seen \in Snapshots

AccountInv ==
    /\ TypeOK
    /\ \A a \in Logins : LoginOK(a)
    /\ \A r \in Runs : RunOK(r)

\* The limits one by one.
LEMMA Positive ==
    /\ LoginFailureLimit \in Nat \ {0} /\ LoginLockDuration \in Nat \ {0}
    /\ AttemptLimit \in Nat \ {0} /\ MaxTime \in Nat \ {0} /\ PasswordSlots \in Nat \ {0}
    /\ MaxClients \in Nat \ {0} /\ WindowDuration \in Nat \ {0}
    /\ None \notin Runs
BY AccountsAssumption

\* Accounts start well typed and with nothing under way.
LEMMA InitInv == Init => AccountInv
<1> SUFFICES ASSUME Init PROVE AccountInv
  OBVIOUS
<1>1. TypeOK
  BY Positive DEF Init, TypeOK, Credentials, Hash, Hashes, NoLogin, NoRun, LoginStates,
     RunStates, LoginRecord, RunRecord, Guess
<1>2. \A a \in Logins : LoginOK(a)
  BY DEF Init, LoginOK, NoLogin
<1>3. \A r \in Runs : RunOK(r)
  BY DEF Init, RunOK, NoRun
<1> QED BY <1>1, <1>2, <1>3 DEF AccountInv

-----------------------------------------------------------------------------
(* Types *)

\* Names the fields of a login, whatever is in them.
LEMMA LoginFields ==
    ASSUME NEW l \in LoginRecord, NEW at \in LoginStates
    PROVE  /\ [l EXCEPT !.at = at] \in LoginRecord
           /\ \A x \in Snapshots : [l EXCEPT !.at = at, !.seen = x] \in LoginRecord
           /\ \A t \in 0..MaxTime : [l EXCEPT !.at = at, !.time = t] \in LoginRecord
BY DEF LoginRecord

\* A request before it begins.
LEMMA EmptyLogin == NoLogin \in LoginRecord
BY Positive DEF NoLogin, LoginRecord, LoginStates

\* A request that was answered is still a login.
LEMMA EndedTypes ==
    ASSUME TypeOK, NEW a \in Logins
    PROVE  Ended(a) \in LoginRecord
<1>1. "over" \in LoginStates
  BY DEF LoginStates
<1>2. login[a] \in LoginRecord
  BY DEF TypeOK
<1> QED BY <1>1, <1>2, LoginFields, EmptyLogin DEF Ended

\* Release ends one request, gives its slot back and leaves the others alone.
LEMMA ReleaseFacts ==
    ASSUME TypeOK, NEW a \in Logins, Release(a)
    PROVE  /\ login' \in [Logins -> LoginRecord]
           /\ login'[a] = Ended(a) /\ login'[a].at = "over"
           /\ \A b \in Logins \ {a} : login'[b] = login[b]
           /\ window' = window /\ slots' = slots - 1
<1>1. Ended(a) \in LoginRecord
  BY EndedTypes
<1>2. login[a] \in LoginRecord /\ NoLogin \in LoginRecord
  BY EmptyLogin DEF TypeOK
<1>3. Ended(a).at = "over"
  BY <1>2 DEF Ended, LoginRecord
<1> QED BY <1>1, <1>3 DEF Release, TypeOK

-----------------------------------------------------------------------------
(* The login guard *)

\* The requests being handled can be counted.
LEMMA InFlightIsFinite == IsFiniteSet(InFlight) /\ Cardinality(InFlight) \in Nat
<1>1. InFlight \in SUBSET Logins
  BY DEF InFlight
<1> QED BY <1>1, FS_Subset, FS_CardinalityType, AccountsAssumption

Handled == {"admitted", "found", "wrong", "right", "created"}

\* A step within the handling of a request needs no other slot.
LEMMA GuardKept ==
    ASSUME GuardHolds, UNCHANGED guard,
           \A b \in Logins : login'[b].at \in Handled <=> login[b].at \in Handled
    PROVE  GuardHolds'
<1>1. InFlight' = InFlight
  BY DEF InFlight, Handled
<1> QED BY <1>1 DEF GuardHolds, guard

\* A request that is handled holds a slot, so there is one to give back.
LEMMA GuardReleased ==
    ASSUME TypeOK, GuardHolds, NEW a \in InFlight, Release(a)
    PROVE  GuardHolds' /\ slots' \in 0..PasswordSlots
<1>1. a \in Logins
  BY DEF InFlight
<1>2. InFlight' = InFlight \ {a}
  BY <1>1, ReleaseFacts DEF InFlight
<1>3. Cardinality(InFlight \ {a}) = Cardinality(InFlight) - 1
  BY InFlightIsFinite, FS_RemoveElement
<1>4. IsFiniteSet(InFlight \ {a})
  BY InFlightIsFinite, FS_RemoveElement
<1>5. Cardinality(InFlight \ {a}) \in Nat
  BY <1>4, FS_CardinalityType
<1>6. slots' = Cardinality(InFlight')
  BY <1>1, <1>2, <1>3, ReleaseFacts DEF GuardHolds
<1>7. slots' \in 0..PasswordSlots
  <2>1. slots \in 0..PasswordSlots
    BY DEF TypeOK
  <2>2. slots' = slots - 1
    BY DEF Release
  <2>3. slots' \in Nat
    BY <1>2, <1>5, <1>6
  <2> QED BY <2>1, <2>2, <2>3, Positive
<1> QED BY <1>1, <1>6, <1>7, ReleaseFacts DEF GuardHolds

\* The windows of the guard can be counted.
LEMMA WindowsAreFinite ==
    ASSUME TypeOK, NEW S \in SUBSET DOMAIN window
    PROVE  IsFiniteSet(S) /\ Cardinality(S) \in Nat /\ Cardinality(S) <= Cardinality(DOMAIN window)
<1>1. IsFiniteSet(DOMAIN window)
  BY FS_Subset, AccountsAssumption DEF TypeOK
<1> QED BY <1>1, FS_Subset, FS_CardinalityType

\* Dropping expired windows changes none of those that remain.
LEMMA RemainingFacts ==
    ASSUME TypeOK, NEW k
    PROVE  /\ DOMAIN Remaining(k) \in SUBSET DOMAIN window
           /\ \A c \in DOMAIN Remaining(k) : Remaining(k)[c] = window[c]
BY DEF Remaining, Without

\* A new client is remembered only where there is room.
LEMMA GuardBegun ==
    ASSUME TypeOK, GuardHolds, NEW k \in Clients
    PROVE  /\ Cardinality(DOMAIN Remaining(k)) <= MaxClients
           /\ MayTry(k) => Cardinality(DOMAIN Counted(k)) <= MaxClients
<1> DEFINE D == DOMAIN Remaining(k)
<1>1. D \in SUBSET DOMAIN window
  BY RemainingFacts
<1>2. IsFiniteSet(D) /\ Cardinality(D) \in Nat /\ Cardinality(D) <= Cardinality(DOMAIN window)
  BY <1>1, WindowsAreFinite
<1>3. Cardinality(DOMAIN window) \in Nat
  BY WindowsAreFinite
<1>4. Cardinality(D) <= MaxClients
  BY <1>2, <1>3, Positive DEF GuardHolds
<1>5. ASSUME MayTry(k) PROVE Cardinality(DOMAIN Counted(k)) <= MaxClients
  <2>1. DOMAIN Counted(k) = D \cup {k}
    BY DEF Counted
  <2>2. CASE k \in D
    BY <1>4, <2>1, <2>2
  <2>3. CASE k \notin D
    <3>1. Cardinality(D) < MaxClients
      BY <1>5, <2>3 DEF MayTry
    <3>2. Cardinality(D \cup {k}) = Cardinality(D) + 1
      BY <1>2, <2>3, FS_AddElement
    <3> QED BY <1>2, <2>1, <3>1, <3>2, Positive
  <2> QED BY <2>2, <2>3
<1> QED BY <1>4, <1>5

\* Begin takes a slot exactly when it admits the request.
LEMMA BeginTypes ==
    ASSUME TypeOK, GuardHolds,
           NEW a \in Logins, NEW k \in Clients, NEW u \in Users, NEW p \in Passwords,
           Begin(a, k, u, p)
    PROVE  TypeOK' /\ GuardHolds'
<1> DEFINE admitted == MayTry(k) /\ slots < PasswordSlots
           asked == [NoLogin EXCEPT !.at = IF admitted THEN "admitted" ELSE "over",
                                    !.user = IF admitted THEN u ELSE None,
                                    !.password = IF admitted THEN p ELSE None]
<1>1. asked \in LoginRecord
  <2>1. \A l \in LoginRecord, at \in LoginStates, v \in Users \cup {None}, w \in Passwords \cup {None} :
            [l EXCEPT !.at = at, !.user = v, !.password = w] \in LoginRecord
    BY DEF LoginRecord
  <2>2. (IF admitted THEN "admitted" ELSE "over") \in LoginStates
    BY DEF LoginStates
  <2>3. /\ (IF admitted THEN u ELSE None) \in Users \cup {None}
        /\ (IF admitted THEN p ELSE None) \in Passwords \cup {None}
    OBVIOUS
  <2> HIDE DEF admitted
  <2> QED BY <2>1, <2>2, <2>3, EmptyLogin
<1>2. login' = [login EXCEPT ![a] = asked]
  BY DEF Begin
<1>3. login' \in [Logins -> LoginRecord]
  BY <1>1, <1>2 DEF TypeOK
<1>4. asked.at = IF admitted THEN "admitted" ELSE "over"
  BY DEF NoLogin
<1>5. InFlight' = IF admitted THEN InFlight \cup {a} ELSE InFlight
  <2>1. \A b \in Logins : login'[b] = IF b = a THEN asked ELSE login[b]
    BY <1>2 DEF TypeOK
  <2>2. login[a].at = "idle"
    BY DEF Begin
  <2> HIDE DEF asked
  <2> QED BY <1>4, <2>1, <2>2 DEF InFlight
<1>6. a \notin InFlight
  BY DEF Begin, InFlight
<1>7. slots' = Cardinality(InFlight') /\ slots' \in 0..PasswordSlots
  <2>1. Cardinality(InFlight \cup {a}) = Cardinality(InFlight) + 1
    BY <1>6, InFlightIsFinite, FS_AddElement
  <2>2. slots' = IF admitted THEN slots + 1 ELSE slots
    BY DEF Begin
  <2>3. slots \in 0..PasswordSlots /\ slots = Cardinality(InFlight)
    BY DEF TypeOK, GuardHolds
  <2> QED BY <1>5, <2>1, <2>2, <2>3, Positive
<1>8. window' = IF MayTry(k) THEN Counted(k) ELSE Remaining(k)
  BY DEF Begin
<1>9. Cardinality(DOMAIN window') <= MaxClients
  BY <1>8, GuardBegun
<1>10. /\ DOMAIN window' \subseteq Clients
       /\ \A c \in DOMAIN window' :
              window'[c] \in [startedAt : 1..MaxTime, attempts : 1..AttemptLimit]
  <2> DEFINE Windows == [startedAt : 1..MaxTime, attempts : 1..AttemptLimit]
  <2>1. DOMAIN Remaining(k) \subseteq Clients /\ \A c \in DOMAIN Remaining(k) : Remaining(k)[c] \in Windows
    BY RemainingFacts DEF TypeOK
  <2>2. ASSUME MayTry(k), NEW c \in DOMAIN Counted(k) PROVE c \in Clients /\ Counted(k)[c] \in Windows
    <3>1. c \in DOMAIN Remaining(k) \cup {k}
      BY <2>2 DEF Counted
    <3>2. CASE c # k
      BY <2>1, <3>1, <3>2 DEF Counted
    <3>3. CASE c = k /\ k \in DOMAIN Remaining(k)
      <4>1. Counted(k)[c] = [Remaining(k)[k] EXCEPT !.attempts = @ + 1]
        BY <3>1, <3>3 DEF Counted
      <4>2. Remaining(k)[k] \in Windows /\ Remaining(k)[k].attempts < AttemptLimit
        BY <2>1, <2>2, <3>3 DEF MayTry
      <4> QED BY <3>3, <4>1, <4>2, Positive
    <3>4. CASE c = k /\ k \notin DOMAIN Remaining(k)
      <4>1. Counted(k)[c] = [startedAt |-> now, attempts |-> 1]
        BY <3>1, <3>4 DEF Counted
      <4> QED BY <3>4, <4>1, Positive DEF TypeOK
    <3> QED BY <3>2, <3>3, <3>4
  <2> HIDE DEF Windows
  <2>3. CASE MayTry(k)
    BY <1>8, <2>2, <2>3 DEF Windows
  <2>4. CASE ~MayTry(k)
    BY <1>8, <2>1, <2>4 DEF Windows
  <2> QED BY <2>3, <2>4
<1> QED BY <1>3, <1>7, <1>9, <1>10 DEF Begin, TypeOK, GuardHolds

\* A step of a request that stays in the handler.
LEMMA HandledTypes ==
    ASSUME TypeOK, GuardHolds, NEW a \in Logins, login[a].at \in Handled,
           NEW l \in LoginRecord, l.at \in Handled,
           login' = [login EXCEPT ![a] = l], UNCHANGED guard
    PROVE  login' \in [Logins -> LoginRecord] /\ GuardHolds'
<1>1. \A b \in Logins : login'[b].at \in Handled <=> login[b].at \in Handled
  BY DEF TypeOK
<1> QED BY <1>1, GuardKept DEF TypeOK

\* What is read of a credential is a snapshot.
LEMMA SeenTypes ==
    ASSUME NEW c \in Credentials
    PROVE  Seen(c) \in Snapshots
BY DEF Seen, Credentials, Snapshots

\* Find keeps types and guard.
LEMMA FindTypes ==
    ASSUME TypeOK, GuardHolds, NEW a \in Logins, LoginOK(a), Find(a)
    PROVE  TypeOK' /\ GuardHolds'
<1> DEFINE c == credential[login[a].user]
           l == [login[a] EXCEPT !.at = "found", !.seen = Seen(c)]
<1>1. c \in Credentials /\ login[a] \in LoginRecord
  BY DEF Find, LoginOK, TypeOK
<1>2. CASE c.mapped
  <2>1. l \in LoginRecord /\ l.at = "found"
    <3>1. Seen(c) \in Snapshots /\ "found" \in LoginStates
      BY <1>1, SeenTypes DEF LoginStates
    <3> QED BY <1>1, <3>1, LoginFields DEF LoginRecord
  <2>2. login' = [login EXCEPT ![a] = l] /\ UNCHANGED guard
    BY <1>2 DEF Find
  <2>3. login[a].at \in Handled
    BY DEF Find, Handled
  <2> HIDE DEF l
  <2>4. login' \in [Logins -> LoginRecord] /\ GuardHolds'
    BY <2>1, <2>2, <2>3, HandledTypes DEF Handled
  <2> QED BY <2>2, <2>4 DEF Find, TypeOK, guard
<1>3. CASE ~c.mapped
  <2>1. Release(a) /\ a \in InFlight
    BY <1>3 DEF Find, InFlight
  <2>2. GuardHolds' /\ slots' \in 0..PasswordSlots
    BY <2>1, GuardReleased
  <2> QED BY <2>1, <2>2, ReleaseFacts DEF Find, TypeOK
<1> QED BY <1>2, <1>3

\* Decide keeps types and guard.
LEMMA DecideTypes ==
    ASSUME TypeOK, GuardHolds, NEW a \in Logins, LoginOK(a), Decide(a)
    PROVE  TypeOK' /\ GuardHolds'
<1> DEFINE locked == LockedAt(login[a].seen, now)
           to == IF Verify(login[a].seen.hash, login[a].password) THEN "right" ELSE "wrong"
           l == [login[a] EXCEPT !.time = now, !.at = to]
<1>1. login[a] \in LoginRecord /\ now \in 0..MaxTime /\ to \in LoginStates /\ to \in Handled
  BY Positive DEF TypeOK, LoginStates, Handled
<1>2. CASE ~locked
  <2>1. l \in LoginRecord /\ l.at = to
    <3> HIDE DEF to
    <3> QED BY <1>1 DEF LoginRecord
  <2>2. login' = [login EXCEPT ![a] = l] /\ UNCHANGED guard
    BY <1>2 DEF Decide
  <2>3. login[a].at \in Handled
    BY DEF Decide, Handled
  <2> HIDE DEF l, to
  <2>4. login' \in [Logins -> LoginRecord] /\ GuardHolds'
    BY <1>1, <2>1, <2>2, <2>3, HandledTypes
  <2> QED BY <2>2, <2>4 DEF Decide, TypeOK, guard
<1>3. CASE locked
  <2>1. Release(a) /\ a \in InFlight
    BY <1>3 DEF Decide, InFlight
  <2>2. GuardHolds' /\ slots' \in 0..PasswordSlots
    BY <2>1, GuardReleased
  <2> QED BY <2>1, <2>2, ReleaseFacts DEF Decide, TypeOK
<1> QED BY <1>2, <1>3

\* The count stays below the limit, at which the account locks.
LEMMA AfterFailureTypes ==
    ASSUME NEW c \in Credentials, NEW t \in 0..MaxTime
    PROVE  AfterFailure(c, t) \in Credentials
<1>1. t + LoginLockDuration \in 0..(MaxTime + LoginLockDuration)
  BY Positive
<1>2. CASE c.failures + 1 >= LoginFailureLimit
  <2>1. 0 \in 0..(LoginFailureLimit - 1)
    BY Positive
  <2> QED BY <1>1, <1>2, <2>1 DEF AfterFailure, Credentials
<1>3. CASE ~(c.failures + 1 >= LoginFailureLimit)
  <2>1. c.failures + 1 \in 0..(LoginFailureLimit - 1)
    BY <1>3, Positive DEF Credentials
  <2> QED BY <1>3, <2>1 DEF AfterFailure, Credentials
<1> QED BY <1>2, <1>3

\* RecordFailedLogin keeps types and guard.
LEMMA RecordFailedTypes ==
    ASSUME TypeOK, GuardHolds, NEW a \in Logins, LoginOK(a), RecordFailedLogin(a)
    PROVE  TypeOK' /\ GuardHolds'
<1> DEFINE u == login[a].user
           guess == [by |-> a, hash |-> login[a].seen.hash, password |-> login[a].password]
<1>1. Release(a) /\ a \in InFlight
  BY DEF RecordFailedLogin, InFlight
<1>2. GuardHolds' /\ slots' \in 0..PasswordSlots
  BY <1>1, GuardReleased
<1>3. u \in Users /\ login[a].seen \in Snapshots /\ login[a].password \in Passwords
      /\ login[a].time \in 0..MaxTime
  BY DEF RecordFailedLogin, LoginOK, TypeOK, LoginRecord
<1>4. credential' \in [Users -> Credentials]
  <2>1. AfterFailure(credential[u], login[a].time) \in Credentials
    BY <1>3, AfterFailureTypes DEF TypeOK
  <2> QED BY <2>1 DEF RecordFailedLogin, TypeOK
<1>5. guess \in Guess
  BY <1>3 DEF Guess, Snapshots
<1>6. blamed' \in [Users -> SUBSET Guess]
  BY <1>5 DEF RecordFailedLogin, TypeOK
<1> QED BY <1>1, <1>2, <1>4, <1>6, ReleaseFacts DEF RecordFailedLogin, TypeOK

\* CreateSession keeps types and guard.
LEMMA CreateSessionTypes ==
    ASSUME TypeOK, GuardHolds, NEW a \in Logins, LoginOK(a), CreateSession(a)
    PROVE  TypeOK' /\ GuardHolds'
<1> DEFINE u == login[a].user
           l == [login[a] EXCEPT !.at = "created"]
<1>1. login[a] \in LoginRecord /\ u \in Users
  BY DEF CreateSession, LoginOK, TypeOK
<1>2. CASE StillAdmits(a)
  <2>1. l \in LoginRecord /\ l.at = "created"
    <3>1. "created" \in LoginStates
      BY DEF LoginStates
    <3> QED BY <1>1, <3>1, LoginFields DEF LoginRecord
  <2>2. login' = [login EXCEPT ![a] = l] /\ UNCHANGED guard
    BY <1>2 DEF CreateSession
  <2>3. login[a].at \in Handled
    BY DEF CreateSession, Handled
  <2>4. login' \in [Logins -> LoginRecord] /\ GuardHolds'
    <3> HIDE DEF l
    <3> QED BY <2>1, <2>2, <2>3, HandledTypes DEF Handled
  <2>5. credential' \in [Users -> Credentials]
    <3>1. 0 \in 0..(LoginFailureLimit - 1) /\ 0 \in 0..(MaxTime + LoginLockDuration)
      BY Positive
    <3>2. credential' = [credential EXCEPT ![u] = [@ EXCEPT !.failures = 0, !.lockedUntil = 0]]
      BY <1>1, <1>2 DEF CreateSession, TypeOK
    <3>3. \A c \in Credentials : [c EXCEPT !.failures = 0, !.lockedUntil = 0] \in Credentials
      BY <3>1 DEF Credentials
    <3> QED BY <1>1, <3>2, <3>3 DEF TypeOK
  <2>6. blamed' \in [Users -> SUBSET Guess] /\ session' \in [Logins -> {"none", "live", "revoked"}]
    BY <1>2 DEF CreateSession, TypeOK
  <2> QED BY <2>2, <2>4, <2>5, <2>6 DEF CreateSession, TypeOK, guard
<1>3. CASE ~StillAdmits(a)
  <2>1. Release(a) /\ a \in InFlight
    BY <1>3 DEF CreateSession, InFlight
  <2>2. GuardHolds' /\ slots' \in 0..PasswordSlots
    BY <2>1, GuardReleased
  <2>3. UNCHANGED <<credential, blamed, session>>
    BY <1>3 DEF CreateSession
  <2> QED BY <2>1, <2>2, <2>3, ReleaseFacts DEF CreateSession, TypeOK
<1> QED BY <1>2, <1>3

\* Answering and failing keep types and guard.
LEMMA EndTypes ==
    ASSUME TypeOK, GuardHolds, NEW a \in Logins, AnswerLogin(a) \/ FailLogin(a)
    PROVE  TypeOK' /\ GuardHolds'
<1>1. Release(a) /\ a \in InFlight
  BY DEF AnswerLogin, FailLogin, InFlight
<1>2. GuardHolds' /\ slots' \in 0..PasswordSlots
  BY <1>1, GuardReleased
<1> QED BY <1>1, <1>2, ReleaseFacts DEF AnswerLogin, FailLogin, TypeOK

\* Steps that leave requests and guard alone.
LEMMA GuardUntouched ==
    ASSUME GuardHolds, UNCHANGED <<login, guard>>
    PROVE  GuardHolds'
BY DEF GuardHolds, InFlight, guard

\* What a run is asked to do.
LEMMA RequestFacts ==
    ASSUME NEW u \in Users, NEW op \in Operations, NEW p \in Passwords,
           credential[u].changedAt \in 0..MaxTime
    PROVE  /\ Request(u, op, p) \in RunRecord
           /\ Request(u, op, p).at = "inspected"
           /\ Request(u, op, p).user = u
           /\ Request(u, op, p).op = op
           /\ Request(u, op, p).password = p
<1>1. NoRun \in RunRecord
  BY Positive DEF NoRun, RunRecord, RunStates
<1>2. "inspected" \in RunStates
  BY DEF RunStates
<1>3. PICK e \in 0..MaxTime :
          Request(u, op, p) = [NoRun EXCEPT !.at = "inspected", !.user = u, !.op = op,
                                            !.expected = e, !.password = p]
  BY DEF Request
<1>4. Request(u, op, p) \in RunRecord
  BY <1>1, <1>2, <1>3 DEF RunRecord
<1>5. /\ Request(u, op, p).at = "inspected" /\ Request(u, op, p).user = u
      /\ Request(u, op, p).op = op /\ Request(u, op, p).password = p
  BY <1>3 DEF NoRun
<1> QED BY <1>4, <1>5

\* The steps of a recovery before its transaction keep the types of runs.
LEMMA RunTypes ==
    ASSUME TypeOK, NEW r \in Runs, NEW u \in Users, NEW op \in Operations, NEW p \in Passwords,
           Inspect(r, u, op, p) \/ CheckOperation(r) \/ ReadCandidate(r) \/ FailRecovery(r),
           \A q \in Runs : RunOK(q)
    PROVE  run' \in [Runs -> RunRecord]
<1>1. run[r] \in RunRecord /\ credential[u] \in Credentials
  BY DEF TypeOK
<1>2. CASE Inspect(r, u, op, p)
  <2>1. credential[u].changedAt \in 0..MaxTime
    BY <1>1 DEF Credentials
  <2> QED BY <1>2, <2>1, RequestFacts DEF Inspect, TypeOK
<1>3. CASE CheckOperation(r) \/ FailRecovery(r)
  <2>1. \A at \in RunStates : [run[r] EXCEPT !.at = at] \in RunRecord
    BY <1>1 DEF RunRecord
  <2>2. \E at \in RunStates : run' = [run EXCEPT ![r].at = at]
    BY <1>3 DEF CheckOperation, FailRecovery, RunStates
  <2> QED BY <2>1, <2>2 DEF TypeOK
<1>4. CASE ReadCandidate(r)
  <2>1. credential[run[r].user] \in Credentials
    BY <1>4 DEF ReadCandidate, RunOK, TypeOK
  <2>2. Seen(credential[run[r].user]) \in Snapshots
    BY <2>1, SeenTypes
  <2>3. \A at \in RunStates, x \in Snapshots : [run[r] EXCEPT !.seen = x, !.at = at] \in RunRecord
    BY <1>1 DEF RunRecord
  <2>4. \E at \in RunStates, x \in Snapshots : run' = [run EXCEPT ![r].seen = x, ![r].at = at]
    <3> DEFINE c == credential[run[r].user]
               at == IF c.changedAt # run[r].expected THEN "conflict"
                     ELSE IF Verify(c.hash, run[r].password) THEN "same" ELSE "hashed"
    <3>1. at \in RunStates
      BY DEF RunStates
    <3>2. run' = [run EXCEPT ![r].seen = Seen(c), ![r].at = at]
      BY <1>4 DEF ReadCandidate
    <3> HIDE DEF at, c
    <3> QED BY <2>2, <3>1, <3>2 DEF c
  <2>5. PICK at \in RunStates, x \in Snapshots : run' = [run EXCEPT ![r] = [@ EXCEPT !.seen = x, !.at = at]]
    BY <2>4 DEF TypeOK
  <2> QED BY <2>3, <2>5 DEF TypeOK
<1> QED BY <1>2, <1>3, <1>4

\* ApplyRecovery keeps types and guard.
LEMMA ApplyTypes ==
    ASSUME TypeOK, GuardHolds, NEW r \in Runs, RunOK(r),
           NEW acknowledged \in BOOLEAN, NEW committed \in BOOLEAN,
           ApplyRecovery(r, acknowledged, committed)
    PROVE  TypeOK' /\ GuardHolds'
<1> DEFINE u == run[r].user
           report == Report(r, acknowledged)
           change == [user |-> u, op |-> run[r].op, by |-> r,
                      previous |-> credential[u].changedAt, applied |-> now]
<1>1. /\ u \in Users /\ run[r].op \in Operations /\ run[r].password \in Passwords
      /\ run[r] \in RunRecord /\ credential[u] \in Credentials
  BY DEF ApplyRecovery, RunOK, TypeOK
<1>2. report \in RunStates
  BY DEF Report, Verdict, RunStates
<1>3. run' \in [Runs -> RunRecord]
  <2>1. [run[r] EXCEPT !.at = report] \in RunRecord
    BY <1>1, <1>2 DEF RunRecord
  <2>2. run' = [run EXCEPT ![r] = [@ EXCEPT !.at = report]]
    BY DEF ApplyRecovery, TypeOK
  <2> HIDE DEF report
  <2> QED BY <2>1, <2>2 DEF TypeOK
<1>4. GuardHolds'
  BY GuardUntouched DEF ApplyRecovery
<1>5. CASE committed
  <2>1. change \in Recovery
    BY <1>1, Positive DEF Recovery, Credentials, TypeOK
  <2>2. audit' = Append(audit, change)
    BY <1>5 DEF ApplyRecovery
  <2>3. audit' \in Seq(Recovery)
    <3> HIDE DEF change
    <3> QED BY <2>1, <2>2 DEF TypeOK
  <2>4. credential' \in [Users -> Credentials]
    <3> DEFINE h == Hash(run[r].password, r)
    <3>1. h \in Hashes /\ now \in 0..MaxTime /\ 0 \in 0..(LoginFailureLimit - 1)
          /\ 0 \in 0..(MaxTime + LoginLockDuration)
      BY <1>1, Positive DEF Hash, Hashes, TypeOK
    <3>2. credential' = [credential EXCEPT ![u] = [@ EXCEPT !.hash = h, !.changedAt = now,
                             !.failures = 0, !.lockedUntil = 0]]
      BY <1>1, <1>5 DEF ApplyRecovery, TypeOK
    <3>3. \A c \in Credentials : [c EXCEPT !.hash = h, !.changedAt = now,
                             !.failures = 0, !.lockedUntil = 0] \in Credentials
      BY <3>1 DEF Credentials
    <3> HIDE DEF h
    <3> QED BY <1>1, <3>2, <3>3 DEF TypeOK
  <2>5. session' \in [Logins -> {"none", "live", "revoked"}]
    BY <1>5 DEF ApplyRecovery, Recovered, RevokeAll, TypeOK
  <2>6. blamed' \in [Users -> SUBSET Guess]
    BY <1>5 DEF ApplyRecovery, TypeOK
  <2> QED BY <1>3, <1>4, <2>3, <2>4, <2>5, <2>6 DEF ApplyRecovery, TypeOK, guard
<1>6. CASE ~committed
  <2>1. UNCHANGED <<credential, session, blamed, audit>>
    BY <1>6 DEF ApplyRecovery
  <2> QED BY <1>3, <1>4, <2>1 DEF ApplyRecovery, TypeOK, guard
<1> QED BY <1>5, <1>6

\* MapLegacyEmails keeps types and guard.
LEMMA MapTypes ==
    ASSUME TypeOK, GuardHolds, NEW batch \in SUBSET Users, MapLegacyEmails(batch)
    PROVE  TypeOK' /\ GuardHolds'
<1>1. credential' \in [Users -> Credentials]
  <2>1. \A c \in Credentials : [c EXCEPT !.mapped = TRUE] \in Credentials
    BY DEF Credentials
  <2> QED BY <2>1 DEF MapLegacyEmails, TypeOK
<1>2. session' \in [Logins -> {"none", "live", "revoked"}]
  BY DEF MapLegacyEmails, TypeOK
<1> QED BY <1>1, <1>2, GuardUntouched DEF MapLegacyEmails, TypeOK, guard

\* Every step keeps the types and the guard.
LEMMA TypesKept ==
    ASSUME AccountInv, GuardHolds, [Next]_vars
    PROVE  TypeOK' /\ GuardHolds'
<1> USE DEF AccountInv
<1>1. ASSUME NEW a \in Logins, NEW k \in Clients, NEW u \in Users, NEW p \in Passwords,
             Begin(a, k, u, p)
      PROVE  TypeOK' /\ GuardHolds'
  BY <1>1, BeginTypes
<1>2. ASSUME NEW a \in Logins, Find(a) PROVE TypeOK' /\ GuardHolds'
  BY <1>2, FindTypes
<1>3. ASSUME NEW a \in Logins, Decide(a) PROVE TypeOK' /\ GuardHolds'
  BY <1>3, DecideTypes
<1>4. ASSUME NEW a \in Logins, RecordFailedLogin(a) PROVE TypeOK' /\ GuardHolds'
  BY <1>4, RecordFailedTypes
<1>5. ASSUME NEW a \in Logins, CreateSession(a) PROVE TypeOK' /\ GuardHolds'
  BY <1>5, CreateSessionTypes
<1>6. ASSUME NEW a \in Logins, AnswerLogin(a) \/ FailLogin(a) PROVE TypeOK' /\ GuardHolds'
  BY <1>6, EndTypes
<1>7. ASSUME NEW a \in Logins, Logout(a) PROVE TypeOK' /\ GuardHolds'
  BY <1>7, GuardUntouched DEF Logout, TypeOK, guard
<1>8. ASSUME NEW r \in Runs, NEW u \in Users, NEW op \in Operations, NEW p \in Passwords,
             Inspect(r, u, op, p)
      PROVE  TypeOK' /\ GuardHolds'
  BY <1>8, RunTypes, GuardUntouched DEF Inspect, TypeOK, guard
<1>9. ASSUME NEW r \in Runs, CheckOperation(r) \/ ReadCandidate(r) \/ FailRecovery(r)
      PROVE  TypeOK' /\ GuardHolds'
  <2>1. run[r].at # "idle"
    BY <1>9 DEF CheckOperation, ReadCandidate, FailRecovery
  <2>2. run[r].user \in Users /\ run[r].op \in Operations /\ run[r].password \in Passwords
    BY <2>1 DEF RunOK
  <2>3. run' \in [Runs -> RunRecord]
    BY <1>9, <2>2, RunTypes
  <2> QED BY <1>9, <2>3, GuardUntouched DEF CheckOperation, ReadCandidate, FailRecovery, TypeOK, guard
<1>10. ASSUME NEW r \in Runs, NEW acknowledged \in BOOLEAN, NEW committed \in BOOLEAN,
              ApplyRecovery(r, acknowledged, committed)
       PROVE  TypeOK' /\ GuardHolds'
  BY <1>10, ApplyTypes
<1>11. ASSUME NEW batch \in SUBSET Users, MapLegacyEmails(batch) PROVE TypeOK' /\ GuardHolds'
  BY <1>11, MapTypes
<1>12. CASE Tick
  BY <1>12, GuardUntouched, Positive DEF Tick, TypeOK, guard
<1>13. CASE UNCHANGED vars
  BY <1>13, GuardUntouched DEF vars, TypeOK, guard
<1> QED
  BY <1>1, <1>2, <1>3, <1>4, <1>5, <1>6, <1>7, <1>8, <1>9, <1>10, <1>11, <1>12, <1>13 DEF Next

-----------------------------------------------------------------------------
(* What logins and recoveries know *)

\* What holds of a login still holds while only time passes or its Session ends.
LEMMA LoginStays ==
    ASSUME TypeOK, NEW b \in Logins, LoginOK(b), login'[b] = login[b],
           session'[b] # "none" => session[b] # "none", now' \in Nat, now <= now'
    PROVE  LoginOK(b)'
<1>1. login[b].time \in Nat /\ now \in Nat
  BY Positive DEF TypeOK, LoginRecord
<1> QED BY <1>1 DEF LoginOK

\* What holds of a login holds of what is left of it after its answer.
LEMMA LoginReleased ==
    ASSUME TypeOK, NEW a \in Logins, LoginOK(a), Release(a), UNCHANGED <<now, session>>
    PROVE  LoginOK(a)'
<1>1. login'[a] = Ended(a) /\ login'[a].at = "over" /\ login[a] \in LoginRecord
  BY ReleaseFacts DEF TypeOK
<1>2. now \in Nat
  BY Positive DEF TypeOK
<1>3. login'[a].time <= now'
  BY <1>1, <1>2 DEF Ended, NoLogin, LoginRecord, LoginOK
<1>4. session[a] # "none" => login'[a].user = login[a].user
  BY <1>1 DEF Ended, LoginRecord
<1> QED BY <1>1, <1>3, <1>4 DEF LoginOK

\* A step of one request leaves the others as they were.
LEMMA OthersStay ==
    ASSUME TypeOK, TypeOK', NEW a \in Logins, \A b \in Logins : LoginOK(b),
           UNCHANGED now, LoginOK(a)',
           \A b \in Logins \ {a} : login'[b] = login[b] /\ session'[b] = session[b]
    PROVE  \A b \in Logins : LoginOK(b)'
<1>1. now' \in Nat /\ now <= now'
  BY Positive DEF TypeOK
<1>2. ASSUME NEW b \in Logins, b # a PROVE LoginOK(b)'
  BY <1>1, <1>2, LoginStays
<1> QED BY <1>2

\* Every step keeps what the stage of a login says about it.
LEMMA LoginsKept ==
    ASSUME AccountInv, [Next]_vars, TypeOK'
    PROVE  \A b \in Logins : LoginOK(b)'
<1> USE DEF AccountInv
<1> DEFINE Goal == \A b \in Logins : LoginOK(b)'
<1> SUFFICES Goal
  OBVIOUS
<1>0. /\ now' \in Nat /\ now \in Nat
      /\ \A b \in Logins : login[b] \in LoginRecord /\ login'[b] \in LoginRecord
  BY Positive DEF TypeOK
<1>1. ASSUME NEW a \in Logins, Release(a), UNCHANGED <<now, session>> PROVE Goal
  BY <1>1, LoginReleased, ReleaseFacts, OthersStay
<1>2. ASSUME NEW a \in Logins, NEW k \in Clients, NEW u \in Users, NEW p \in Passwords,
             Begin(a, k, u, p)
      PROVE  Goal
  <2>1. login'[a].at \in {"admitted", "over"} /\ login'[a].time = 0
    BY <1>2 DEF Begin, NoLogin, TypeOK
  <2>2. login'[a].at = "admitted" => login'[a].user = u /\ login'[a].password = p
    BY <1>2 DEF Begin, NoLogin, TypeOK
  <2>3. session'[a] = "none"
    BY <1>2 DEF Begin, LoginOK, TypeOK
  <2>4. LoginOK(a)'
    BY <1>0, <2>1, <2>2, <2>3 DEF LoginOK
  <2>5. \A b \in Logins \ {a} : login'[b] = login[b] /\ session'[b] = session[b]
    BY <1>2 DEF Begin, TypeOK
  <2> QED BY <1>2, <2>4, <2>5, OthersStay DEF Begin
<1>3. ASSUME NEW a \in Logins, Find(a) PROVE Goal
  <2>1. CASE Release(a)
    BY <1>1, <1>3, <2>1 DEF Find
  <2>2. CASE ~Release(a)
    <3> DEFINE c == credential[login[a].user]
    <3>1. Seen(c) \in Snapshots
      BY <1>3, SeenTypes DEF Find, LoginOK, TypeOK
    <3>2. login' = [login EXCEPT ![a].at = "found", ![a].seen = Seen(c)]
      BY <1>3, <2>2 DEF Find
    <3>3. /\ login'[a].at = "found" /\ login'[a].seen = Seen(c)
          /\ login'[a].user = login[a].user /\ login'[a].password = login[a].password
          /\ login'[a].time = login[a].time
      BY <1>0, <3>2 DEF TypeOK, LoginRecord
    <3>4. session[a] = "none" /\ UNCHANGED <<now, session>>
      BY <1>3 DEF Find, LoginOK, TypeOK
    <3>5. LoginOK(a)'
      BY <1>3, <3>1, <3>3, <3>4 DEF LoginOK, Find
    <3>6. \A b \in Logins \ {a} : login'[b] = login[b] /\ session'[b] = session[b]
      BY <3>2, <3>4 DEF TypeOK
    <3> QED BY <3>4, <3>5, <3>6, OthersStay
  <2> QED BY <2>1, <2>2
<1>4. ASSUME NEW a \in Logins, Decide(a) PROVE Goal
  <2>1. CASE Release(a)
    BY <1>1, <1>4, <2>1 DEF Decide
  <2>2. CASE ~Release(a)
    <3> DEFINE to == IF Verify(login[a].seen.hash, login[a].password) THEN "right" ELSE "wrong"
    <3>2. login' = [login EXCEPT ![a].time = now, ![a].at = to]
      BY <1>4, <2>2 DEF Decide
    <3>3. /\ login'[a].at = to /\ login'[a].seen = login[a].seen
          /\ login'[a].user = login[a].user /\ login'[a].password = login[a].password
          /\ login'[a].time = now
      BY <1>0, <3>2 DEF TypeOK, LoginRecord
    <3>4. session[a] = "none" /\ UNCHANGED <<now, session>>
      BY <1>4 DEF Decide, LoginOK, TypeOK
    <3>5. LoginOK(a)'
      BY <1>0, <1>4, <3>3, <3>4 DEF LoginOK, Decide
    <3>6. \A b \in Logins \ {a} : login'[b] = login[b] /\ session'[b] = session[b]
      BY <3>2, <3>4 DEF TypeOK
    <3> QED BY <3>4, <3>5, <3>6, OthersStay
  <2> QED BY <2>1, <2>2
<1>5. ASSUME NEW a \in Logins, RecordFailedLogin(a) \/ AnswerLogin(a) \/ FailLogin(a) PROVE Goal
  BY <1>1, <1>5 DEF RecordFailedLogin, AnswerLogin, FailLogin
<1>6. ASSUME NEW a \in Logins, CreateSession(a) PROVE Goal
  <2>1. CASE ~StillAdmits(a)
    BY <1>1, <1>6, <2>1 DEF CreateSession
  <2>2. CASE StillAdmits(a)
    <3>1. login' = [login EXCEPT ![a].at = "created"] /\ session' = [session EXCEPT ![a] = "live"]
          /\ now' = now
      BY <1>6, <2>2 DEF CreateSession
    <3>2. /\ login'[a].at = "created"
          /\ login'[a].user = login[a].user /\ login'[a].password = login[a].password
          /\ login'[a].time = login[a].time
      BY <1>0, <3>1 DEF TypeOK, LoginRecord
    <3>3. LoginOK(a)'
      BY <1>6, <3>1, <3>2 DEF LoginOK, CreateSession
    <3>4. \A b \in Logins \ {a} : login'[b] = login[b] /\ session'[b] = session[b]
      BY <3>1 DEF TypeOK
    <3> QED BY <3>1, <3>3, <3>4, OthersStay
  <2> QED BY <2>1, <2>2
<1>7. ASSUME login' = login, now <= now',
             \A b \in Logins : session'[b] # "none" => session[b] # "none"
      PROVE  Goal
  BY <1>0, <1>7, LoginStays
<1>8. ASSUME NEW a \in Logins, Logout(a) PROVE Goal
  BY <1>0, <1>7, <1>8 DEF Logout, Usable, TypeOK
<1>9. ASSUME NEW r \in Runs, NEW acknowledged \in BOOLEAN, NEW committed \in BOOLEAN,
             ApplyRecovery(r, acknowledged, committed)
      PROVE  Goal
  BY <1>0, <1>7, <1>9 DEF ApplyRecovery, Recovered, RevokeAll
<1>10. ASSUME NEW batch \in SUBSET Users, MapLegacyEmails(batch) PROVE Goal
  BY <1>0, <1>7, <1>10 DEF MapLegacyEmails
<1>11. CASE Tick
  BY <1>0, <1>7, <1>11 DEF Tick
<1>12. ASSUME NEW r \in Runs, NEW u \in Users, NEW op \in Operations, NEW p \in Passwords,
              Inspect(r, u, op, p)
       PROVE  Goal
  BY <1>0, <1>7, <1>12 DEF Inspect
<1>13. ASSUME NEW r \in Runs, CheckOperation(r) \/ ReadCandidate(r) \/ FailRecovery(r)
       PROVE  Goal
  <2>1. login' = login /\ session' = session /\ now' = now
    BY <1>13 DEF CheckOperation, ReadCandidate, FailRecovery
  <2> QED BY <1>0, <1>7, <2>1
<1>14. CASE UNCHANGED vars
  BY <1>0, <1>7, <1>14 DEF vars
<1> HIDE DEF Goal, AccountInv
<1> QED
  BY <1>2, <1>3, <1>4, <1>5, <1>6, <1>8, <1>9, <1>10, <1>11, <1>12, <1>13, <1>14 DEF Next

\* Every step keeps what the stage of a recovery says about it.
LEMMA RunsKept ==
    ASSUME AccountInv, [Next]_vars
    PROVE  \A q \in Runs : RunOK(q)'
<1> USE DEF AccountInv
<1> DEFINE Goal == \A q \in Runs : RunOK(q)'
<1> SUFFICES Goal
  OBVIOUS
<1>0. \A q \in Runs : run[q] \in RunRecord
  BY DEF TypeOK
<1>1. ASSUME NEW r \in Runs, run[r].at # "idle", \A q \in Runs \ {r} : run'[q] = run[q],
             run'[r].user = run[r].user, run'[r].op = run[r].op, run'[r].password = run[r].password,
             run'[r].at = "hashed" => run'[r].seen \in Snapshots
      PROVE  Goal
  BY <1>1 DEF RunOK
<1>2. ASSUME NEW r \in Runs, NEW u \in Users, NEW op \in Operations, NEW p \in Passwords,
             Inspect(r, u, op, p)
      PROVE  Goal
  <2>1. credential[u].changedAt \in 0..MaxTime
    BY DEF TypeOK, Credentials
  <2>2. run' = [run EXCEPT ![r] = Request(u, op, p)]
    BY <1>2 DEF Inspect
  <2> QED BY <2>1, <2>2, RequestFacts DEF RunOK, TypeOK
<1>3. ASSUME NEW r \in Runs, NEW at \in RunStates \ {"hashed"}, run[r].at # "idle",
             run' = [run EXCEPT ![r].at = at]
      PROVE  Goal
  <2>1. run'[r] = [run[r] EXCEPT !.at = at] /\ \A q \in Runs \ {r} : run'[q] = run[q]
    BY <1>3 DEF TypeOK
  <2> QED BY <1>0, <1>1, <1>3, <2>1 DEF RunRecord
<1>4. ASSUME NEW r \in Runs, CheckOperation(r) \/ FailRecovery(r) PROVE Goal
  BY <1>3, <1>4 DEF CheckOperation, FailRecovery, RunStates
<1>5. ASSUME NEW r \in Runs, ReadCandidate(r) PROVE Goal
  <2> DEFINE c == credential[run[r].user]
             at == IF c.changedAt # run[r].expected THEN "conflict"
                   ELSE IF Verify(c.hash, run[r].password) THEN "same" ELSE "hashed"
  <2>1. Seen(c) \in Snapshots
    BY <1>5, SeenTypes DEF ReadCandidate, RunOK, TypeOK
  <2>2. run' = [run EXCEPT ![r].seen = Seen(c), ![r].at = at]
    BY <1>5 DEF ReadCandidate
  <2> HIDE DEF at
  <2>3. /\ run'[r].user = run[r].user /\ run'[r].op = run[r].op
        /\ run'[r].password = run[r].password /\ run'[r].seen = Seen(c)
        /\ \A q \in Runs \ {r} : run'[q] = run[q]
    BY <1>0, <2>2 DEF TypeOK, RunRecord
  <2> QED BY <1>1, <1>5, <2>1, <2>3 DEF ReadCandidate
<1>6. ASSUME NEW r \in Runs, NEW acknowledged \in BOOLEAN, NEW committed \in BOOLEAN,
             ApplyRecovery(r, acknowledged, committed)
      PROVE  Goal
  <2>1. Report(r, acknowledged) \in RunStates \ {"hashed"}
    BY DEF Report, Verdict, RunStates
  <2> QED BY <1>3, <1>6, <2>1 DEF ApplyRecovery
<1>7. ASSUME run' = run PROVE Goal
  BY <1>7 DEF RunOK
<1>8. ASSUME NEW a \in Logins,
             \/ \E k \in Clients, u \in Users, p \in Passwords : Begin(a, k, u, p)
             \/ Find(a) \/ Decide(a) \/ RecordFailedLogin(a) \/ CreateSession(a)
             \/ AnswerLogin(a) \/ FailLogin(a) \/ Logout(a)
      PROVE  Goal
  <2>1. run' = run
    BY <1>8 DEF Begin, Find, Decide, RecordFailedLogin, CreateSession, AnswerLogin, FailLogin, Logout
  <2> QED BY <1>7, <2>1
<1>9. CASE Tick \/ UNCHANGED vars \/ \E batch \in SUBSET Users : MapLegacyEmails(batch)
  <2>1. run' = run
    BY <1>9 DEF Tick, vars, MapLegacyEmails
  <2> QED BY <1>7, <2>1
<1> HIDE DEF Goal, AccountInv
<1> QED BY <1>2, <1>4, <1>5, <1>6, <1>8, <1>9 DEF Next

\* The guard starts empty.
LEMMA InitGuard == Init => GuardHolds
<1> SUFFICES ASSUME Init PROVE GuardHolds
  OBVIOUS
<1>1. InFlight = {} /\ DOMAIN window = {}
  BY DEF Init, InFlight, NoLogin
<1> QED BY <1>1, FS_EmptySet, Positive DEF Init, GuardHolds

\* The inductive invariant the other proofs rest on.
LEMMA AccountInvariant == Spec => [](AccountInv /\ GuardHolds)
<1>1. Init => AccountInv /\ GuardHolds
  BY InitInv, InitGuard
<1>2. AccountInv /\ GuardHolds /\ [Next]_vars => (AccountInv /\ GuardHolds)'
  <2> SUFFICES ASSUME AccountInv, GuardHolds, [Next]_vars
               PROVE  AccountInv' /\ GuardHolds'
    OBVIOUS
  <2>1. TypeOK' /\ GuardHolds'
    BY TypesKept
  <2>2. (\A a \in Logins : LoginOK(a)') /\ (\A r \in Runs : RunOK(r)')
    BY <2>1, LoginsKept, RunsKept
  <2> QED BY <2>1, <2>2 DEF AccountInv
<1> QED BY <1>1, <1>2, PTL DEF Spec

\* Accounts, logins, recoveries and the login guard keep their types, every slot of
\* the guard is held by a request being handled, and the guard remembers no more
\* clients than it may (LoginGuard, LoginHandler).
THEOREM GuardIsExact == Spec => [](TypeOK /\ GuardHolds)
<1>1. AccountInv /\ GuardHolds => TypeOK /\ GuardHolds
  BY DEF AccountInv
<1> QED BY <1>1, AccountInvariant, PTL

-----------------------------------------------------------------------------
(* What a step does to credentials, Sessions and the record *)

\* The four steps that write a credential, and the rest.
Counts(a) == RecordFailedLogin(a) /\ StillFails(a)
Admits(a) == CreateSession(a) /\ StillAdmits(a)
Commits(r) == \E acknowledged \in BOOLEAN : ApplyRecovery(r, acknowledged, TRUE)
Others == UNCHANGED <<credential, blamed, audit>>

\* A step that changes a credential is one of the four that write credentials.
LEMMA FourWriters ==
    ASSUME [Next]_vars
    PROVE  \/ \E a \in Logins : Counts(a) \/ Admits(a)
           \/ \E r \in Runs : Commits(r)
           \/ \E batch \in SUBSET Users : MapLegacyEmails(batch)
           \/ Others
<1> USE DEF Others
<1>1. ASSUME NEW a \in Logins, \E k \in Clients, u \in Users, p \in Passwords : Begin(a, k, u, p)
      PROVE  Others
  BY <1>1 DEF Begin
<1>2. ASSUME NEW a \in Logins, Find(a) \/ Decide(a) \/ AnswerLogin(a) \/ FailLogin(a) \/ Logout(a)
      PROVE  Others
  BY <1>2 DEF Find, Decide, AnswerLogin, FailLogin, Logout
<1>3. ASSUME NEW a \in Logins, RecordFailedLogin(a) PROVE Counts(a) \/ Others
  BY <1>3 DEF RecordFailedLogin, Counts
<1>4. ASSUME NEW a \in Logins, CreateSession(a) PROVE Admits(a) \/ Others
  BY <1>4 DEF CreateSession, Admits
<1>5. ASSUME NEW r \in Runs, \E u \in Users, op \in Operations, p \in Passwords : Inspect(r, u, op, p)
      PROVE  Others
  BY <1>5 DEF Inspect
<1>6. ASSUME NEW r \in Runs, CheckOperation(r) \/ ReadCandidate(r) \/ FailRecovery(r)
      PROVE  Others
  BY <1>6 DEF CheckOperation, ReadCandidate, FailRecovery
<1>7. ASSUME NEW r \in Runs, NEW acknowledged \in BOOLEAN, NEW committed \in BOOLEAN,
             ApplyRecovery(r, acknowledged, committed)
      PROVE  Commits(r) \/ Others
  <2>1. CASE committed
    <3>1. committed = TRUE
      BY <2>1
    <3> QED BY <1>7, <3>1 DEF Commits
  <2>2. CASE ~committed
    BY <1>7, <2>2 DEF ApplyRecovery
  <2> QED BY <2>1, <2>2
<1>8. CASE Tick \/ UNCHANGED vars
  BY <1>8 DEF Tick, vars
<1> QED BY <1>1, <1>2, <1>3, <1>4, <1>5, <1>6, <1>7, <1>8 DEF Next

\* A login that has been answered stays as it is, and a Session in force was in
\* force before, with the same login behind it, or has just been created.
LEMMA LoginSteps ==
    ASSUME AccountInv, [Next]_vars, NEW b \in Logins
    PROVE  /\ login[b].at = "over" => login'[b] = login[b]
           /\ session'[b] = "live" =>
                  /\ login'[b].seen = login[b].seen /\ login'[b].user = login[b].user
                  /\ login[b].user \in Users
                  /\ session[b] = "live" \/ Admits(b)
           /\ session[b] = "none" => session'[b] = "none" \/ Admits(b)
<1> USE DEF AccountInv
<1> DEFINE Goal ==
        /\ login[b].at = "over" => login'[b] = login[b]
        /\ session'[b] = "live" =>
               /\ login'[b].seen = login[b].seen /\ login'[b].user = login[b].user
               /\ login[b].user \in Users
               /\ session[b] = "live" \/ Admits(b)
        /\ session[b] = "none" => session'[b] = "none" \/ Admits(b)
<1> SUFFICES Goal
  OBVIOUS
<1>0. /\ login[b] \in LoginRecord /\ LoginOK(b)
      /\ session[b] \in {"none", "live", "revoked"}
  BY DEF TypeOK
<1>1. ASSUME login'[b] = login[b], session'[b] \in {session[b], "revoked"},
             session[b] = "none" => session'[b] = "none"
      PROVE  Goal
  BY <1>0, <1>1 DEF LoginOK
<1>2. ASSUME NEW a \in Logins, a # b, \A c \in Logins \ {a} : login'[c] = login[c] /\ session'[c] = session[c]
      PROVE  Goal
  BY <1>1, <1>2
<1>3. ASSUME NEW a \in Logins, Release(a), UNCHANGED session, login[a].at # "over" PROVE Goal
  <2>1. CASE a # b
    BY <1>2, <1>3, <2>1, ReleaseFacts
  <2>2. CASE a = b
    BY <1>0, <1>3, <2>2, ReleaseFacts DEF Ended, LoginOK, LoginRecord
  <2> QED BY <2>1, <2>2
<1>4. ASSUME NEW a \in Logins, NEW k \in Clients, NEW u \in Users, NEW p \in Passwords,
             Begin(a, k, u, p)
      PROVE  Goal
  <2>1. CASE a # b
    BY <1>2, <1>4, <2>1 DEF Begin, TypeOK
  <2>2. CASE a = b
    BY <1>0, <1>4, <2>2 DEF Begin, LoginOK
  <2> QED BY <2>1, <2>2
<1>5. ASSUME NEW a \in Logins, Find(a) \/ Decide(a) PROVE Goal
  <2>1. login[a].at \in {"admitted", "found"} /\ session' = session
    BY <1>5 DEF Find, Decide
  <2>2. CASE a # b
    <3>1. login'[b] = login[b]
      BY <1>5, <2>2 DEF Find, Decide, Release, TypeOK
    <3> QED BY <1>1, <2>1, <3>1
  <2>3. CASE a = b
    BY <1>0, <2>1, <2>3 DEF LoginOK
  <2> QED BY <2>2, <2>3
<1>6. ASSUME NEW a \in Logins, RecordFailedLogin(a) \/ AnswerLogin(a) \/ FailLogin(a) PROVE Goal
  BY <1>3, <1>6 DEF RecordFailedLogin, AnswerLogin, FailLogin, InFlight
<1>7. ASSUME NEW a \in Logins, CreateSession(a) PROVE Goal
  <2>1. CASE ~StillAdmits(a)
    BY <1>3, <1>7, <2>1 DEF CreateSession
  <2>2. CASE StillAdmits(a)
    <3>1. login' = [login EXCEPT ![a].at = "created"] /\ session' = [session EXCEPT ![a] = "live"]
          /\ login[a].at = "right"
      BY <1>7, <2>2 DEF CreateSession
    <3>2. CASE a # b
      BY <1>1, <3>1, <3>2 DEF TypeOK
    <3>3. CASE a = b
      <4>1. /\ login'[b].seen = login[b].seen /\ login'[b].user = login[b].user
            /\ login[b].at # "over"
        BY <1>0, <3>1, <3>3 DEF TypeOK, LoginRecord
      <4>2. login[b].user \in Users
        BY <1>0, <3>1, <3>3 DEF LoginOK
      <4> QED BY <1>7, <2>2, <3>3, <4>1, <4>2 DEF Admits
    <3> QED BY <3>2, <3>3
  <2> QED BY <2>1, <2>2
<1>8. ASSUME NEW a \in Logins, Logout(a) PROVE Goal
  BY <1>1, <1>8 DEF Logout, Usable, TypeOK
<1>9. ASSUME NEW r \in Runs, NEW acknowledged \in BOOLEAN, NEW committed \in BOOLEAN,
             ApplyRecovery(r, acknowledged, committed)
      PROVE  Goal
  BY <1>1, <1>9 DEF ApplyRecovery, Recovered, RevokeAll
<1>10. ASSUME NEW batch \in SUBSET Users, MapLegacyEmails(batch) PROVE Goal
  BY <1>1, <1>10 DEF MapLegacyEmails
<1>11. ASSUME NEW r \in Runs, NEW u \in Users, NEW op \in Operations, NEW p \in Passwords,
              Inspect(r, u, op, p)
       PROVE  Goal
  BY <1>1, <1>11 DEF Inspect
<1>12. ASSUME NEW r \in Runs, CheckOperation(r) \/ ReadCandidate(r) \/ FailRecovery(r)
       PROVE  Goal
  <2>1. login' = login /\ session' = session
    BY <1>12 DEF CheckOperation, ReadCandidate, FailRecovery
  <2> QED BY <1>1, <2>1
<1>13. CASE Tick \/ UNCHANGED vars
  BY <1>1, <1>13 DEF Tick, vars
<1> HIDE DEF Goal, AccountInv
<1> QED
  BY <1>4, <1>5, <1>6, <1>7, <1>8, <1>9, <1>10, <1>11, <1>12, <1>13 DEF Next

\* A failure that counts.
LEMMA CountsFacts ==
    ASSUME AccountInv, NEW a \in Logins, Counts(a)
    PROVE  LET u == login[a].user
               c == credential[u]
           IN  /\ u \in Users /\ login[a].at = "wrong" /\ login'[a].at = "over"
               /\ \A v \in Users \ {u} : credential'[v] = credential[v] /\ blamed'[v] = blamed[v]
               /\ ~LockedAt(c, login[a].time)
               /\ c.hash = login[a].seen.hash
               /\ ~Verify(c.hash, login[a].password)
               /\ credential'[u] = AfterFailure(c, login[a].time)
               /\ credential'[u].hash = c.hash /\ credential'[u].changedAt = c.changedAt
               /\ blamed'[u] = IF c.failures + 1 >= LoginFailureLimit THEN {}
                               ELSE blamed[u] \cup {[by |-> a, hash |-> login[a].seen.hash,
                                                     password |-> login[a].password]}
               /\ UNCHANGED <<now, session, run, audit>>
<1> DEFINE u == login[a].user
           c == credential[u]
<1>1. u \in Users /\ c \in Credentials
  BY DEF Counts, RecordFailedLogin, AccountInv, LoginOK, TypeOK
<1>2. login[a].at = "wrong" /\ login'[a].at = "over"
  BY ReleaseFacts DEF Counts, RecordFailedLogin, AccountInv
<1>3. /\ credential' = [credential EXCEPT ![u] = AfterFailure(c, login[a].time)]
      /\ blamed' = [blamed EXCEPT ![u] =
             IF c.failures + 1 >= LoginFailureLimit THEN {}
             ELSE @ \cup {[by |-> a, hash |-> login[a].seen.hash, password |-> login[a].password]}]
      /\ UNCHANGED <<now, session, run, audit>>
  BY DEF Counts, RecordFailedLogin
<1>4. AfterFailure(c, login[a].time).hash = c.hash /\ AfterFailure(c, login[a].time).changedAt = c.changedAt
  BY <1>1 DEF AfterFailure, Credentials
<1>5. ~LockedAt(c, login[a].time) /\ c.hash = login[a].seen.hash
  BY DEF Counts, StillFails
<1>6. ~Verify(c.hash, login[a].password)
  BY <1>2, <1>5 DEF AccountInv, LoginOK
<1> QED BY <1>1, <1>2, <1>3, <1>4, <1>5, <1>6 DEF AccountInv, TypeOK

\* A login that opens a Session.
LEMMA AdmitsFacts ==
    ASSUME AccountInv, NEW a \in Logins, Admits(a)
    PROVE  LET u == login[a].user
           IN  /\ u \in Users /\ login[a].at = "right" /\ login'[a].at = "created"
               /\ \A v \in Users \ {u} : credential'[v] = credential[v] /\ blamed'[v] = blamed[v]
               /\ ~LockedAt(credential[u], login[a].time)
               /\ credential[u].hash = login[a].seen.hash
               /\ credential'[u].hash = credential[u].hash
               /\ credential'[u].changedAt = credential[u].changedAt
               /\ credential'[u].failures = 0 /\ credential'[u].lockedUntil = 0
               /\ blamed'[u] = {}
               /\ UNCHANGED <<now, run, audit>>
<1> DEFINE u == login[a].user
<1>1. u \in Users /\ login[a] \in LoginRecord
  BY DEF Admits, CreateSession, AccountInv, LoginOK, TypeOK
<1>2. credential[u] \in Credentials
  BY <1>1 DEF AccountInv, TypeOK
<1>3. /\ credential' = [credential EXCEPT ![u].failures = 0, ![u].lockedUntil = 0]
      /\ blamed' = [blamed EXCEPT ![u] = {}]
      /\ login' = [login EXCEPT ![a].at = "created"]
      /\ login[a].at = "right"
      /\ UNCHANGED <<now, run, audit>>
  BY DEF Admits, CreateSession
<1>4. login'[a].at = "created"
  BY <1>1, <1>3 DEF AccountInv, TypeOK, LoginRecord
<1>5. /\ credential'[u].hash = credential[u].hash /\ credential'[u].changedAt = credential[u].changedAt
      /\ credential'[u].failures = 0 /\ credential'[u].lockedUntil = 0
  BY <1>1, <1>2, <1>3 DEF AccountInv, TypeOK, Credentials
<1>6. ~LockedAt(credential[u], login[a].time) /\ credential[u].hash = login[a].seen.hash
  BY DEF Admits, StillAdmits
<1> QED BY <1>1, <1>3, <1>4, <1>5, <1>6 DEF AccountInv, TypeOK

\* A recovery that commits.
LEMMA CommitsFacts ==
    ASSUME AccountInv, NEW r \in Runs, Commits(r)
    PROVE  LET u == run[r].user
               c == credential[u]
           IN  /\ u \in Users /\ run[r].at = "hashed"
               /\ run'[r].at \in {"applied", "unconfirmed"}
               /\ run'[r].user = u /\ run'[r].op = run[r].op
               /\ \A q \in Runs \ {r} : run'[q] = run[q]
               /\ \A v \in Users \ {u} : credential'[v] = credential[v] /\ blamed'[v] = blamed[v]
               /\ credential'[u].hash = Hash(run[r].password, r)
               /\ credential'[u].changedAt = now /\ credential'[u].failures = 0
               /\ blamed'[u] = {}
               /\ ~Recorded(run[r].op) /\ now > c.changedAt
               /\ session' = RevokeAll(u)
               /\ audit' = Append(audit, [user |-> u, op |-> run[r].op, by |-> r,
                                          previous |-> c.changedAt, applied |-> now])
               /\ UNCHANGED <<now, login>>
<1> DEFINE u == run[r].user
           c == credential[u]
<1>1. PICK acknowledged \in BOOLEAN : ApplyRecovery(r, acknowledged, TRUE)
  BY DEF Commits
<1>2. run[r].at = "hashed" /\ u \in Users /\ run[r] \in RunRecord
  BY <1>1 DEF ApplyRecovery, AccountInv, RunOK, TypeOK
<1>3. c \in Credentials /\ now \in Nat
  BY <1>2, Positive DEF AccountInv, TypeOK
<1>4. Verdict(r) = "applied"
  BY <1>1 DEF ApplyRecovery
<1>5. ~Recorded(run[r].op) /\ now > c.changedAt
  BY <1>3, <1>4 DEF Verdict, Credentials
<1>6. /\ credential' = [credential EXCEPT ![u].hash = Hash(run[r].password, r),
                                          ![u].changedAt = now, ![u].failures = 0, ![u].lockedUntil = 0]
      /\ session' = RevokeAll(u)
      /\ blamed' = [blamed EXCEPT ![u] = {}]
      /\ audit' = Append(audit, [user |-> u, op |-> run[r].op, by |-> r,
                                 previous |-> c.changedAt, applied |-> now])
      /\ run' = [run EXCEPT ![r].at = Report(r, acknowledged)]
      /\ UNCHANGED <<now, login>>
  BY <1>1 DEF ApplyRecovery, Recovered
<1>7. Report(r, acknowledged) \in {"applied", "unconfirmed"}
  BY <1>4 DEF Report
<1>8. /\ run'[r].at \in {"applied", "unconfirmed"} /\ run'[r].user = u /\ run'[r].op = run[r].op
      /\ \A q \in Runs \ {r} : run'[q] = run[q]
  BY <1>2, <1>6, <1>7 DEF AccountInv, TypeOK, RunRecord
<1>9. /\ credential'[u].hash = Hash(run[r].password, r)
      /\ credential'[u].changedAt = now /\ credential'[u].failures = 0
  BY <1>2, <1>3, <1>6 DEF AccountInv, TypeOK, Credentials
<1> QED BY <1>2, <1>5, <1>6, <1>8, <1>9 DEF AccountInv, TypeOK

\* Mapping an address touches neither password, count nor lock.
LEMMA MapFacts ==
    ASSUME AccountInv, NEW batch \in SUBSET Users, MapLegacyEmails(batch), NEW u \in Users
    PROVE  /\ credential'[u].hash = credential[u].hash
           /\ credential'[u].changedAt = credential[u].changedAt
           /\ credential'[u].failures = credential[u].failures
           /\ credential'[u].lockedUntil = credential[u].lockedUntil
           /\ UNCHANGED <<now, login, run, audit, blamed>>
           /\ \A a \in Logins : session[a] = "none" => session'[a] = "none"
BY DEF MapLegacyEmails, AccountInv, TypeOK, Credentials

-----------------------------------------------------------------------------
(* The properties *)

\* A password that was replaced opens nothing: every Session in force was created
\* with the credential the account has now, however logins and recoveries
\* interleave (CreateSession compares the hash, ApplyRecovery revokes).
THEOREM ReplacedPasswordsOpenNothing == Spec => []SessionsOfThisPassword
<1>1. Init => SessionsOfThisPassword
  BY DEF Init, SessionsOfThisPassword
<1>2. AccountInv /\ SessionsOfThisPassword /\ [Next]_vars => SessionsOfThisPassword'
  <2> SUFFICES ASSUME AccountInv, SessionsOfThisPassword, [Next]_vars,
                      NEW a \in Logins, session'[a] = "live"
               PROVE  login'[a].seen.hash = credential'[login'[a].user].hash
    BY DEF SessionsOfThisPassword
  <2> DEFINE u == login[a].user
  <2>1. /\ login'[a].seen = login[a].seen /\ login'[a].user = u /\ u \in Users
        /\ session[a] = "live" \/ Admits(a)
    BY LoginSteps
  <2>2. login[a].seen.hash = credential[u].hash
    BY <2>1, AdmitsFacts DEF SessionsOfThisPassword
  <2>3. credential'[u].hash = credential[u].hash
    <3>1. CASE \E b \in Logins : Counts(b)
      BY <2>1, <3>1, CountsFacts
    <3>2. CASE \E b \in Logins : Admits(b)
      BY <2>1, <3>2, AdmitsFacts
    <3>3. CASE \E r \in Runs : Commits(r)
      <4>1. PICK r \in Runs : Commits(r)
        BY <3>3
      <4>2. session' = RevokeAll(run[r].user)
        BY <4>1, CommitsFacts
      <4>3. u # run[r].user
        BY <4>2 DEF RevokeAll
      <4>4. \A v \in Users \ {run[r].user} : credential'[v] = credential[v]
        BY <4>1, CommitsFacts
      <4> QED BY <2>1, <4>3, <4>4
    <3>4. CASE \E batch \in SUBSET Users : MapLegacyEmails(batch)
      BY <2>1, <3>4, MapFacts
    <3>5. CASE Others
      BY <3>5 DEF Others
    <3> QED BY <3>1, <3>2, <3>3, <3>4, <3>5, FourWriters
  <2> QED BY <2>1, <2>2, <2>3
<1> QED BY <1>1, <1>2, AccountInvariant, PTL DEF Spec

\* What the count of failures rests on: the guesses counted are those of different
\* logins, all answered.
BlamedOK ==
    \A u \in Users :
        /\ IsFiniteSet(blamed[u])
        /\ \A guess \in blamed[u] : login[guess.by].at = "over"

\* No step breaks the count: of the writers of a credential one adds a guess nobody
\* has counted yet, two reset the count, one leaves it alone.
LEMMA FailuresKept ==
    ASSUME AccountInv, FailuresAreCurrent, BlamedOK, [Next]_vars
    PROVE  FailuresAreCurrent' /\ BlamedOK'
<1> DEFINE Counted1(u) == /\ credential'[u].failures = Cardinality(blamed'[u])
                          /\ \A guess \in blamed'[u] :
                                 /\ guess.hash = credential'[u].hash
                                 /\ ~Verify(credential'[u].hash, guess.password)
           Answered(u) == /\ IsFiniteSet(blamed'[u])
                          /\ \A guess \in blamed'[u] : login'[guess.by].at = "over"
<1> SUFFICES ASSUME NEW u \in Users PROVE Counted1(u) /\ Answered(u)
  BY DEF FailuresAreCurrent, BlamedOK
<1>1. /\ credential[u].failures = Cardinality(blamed[u]) /\ IsFiniteSet(blamed[u])
      /\ \A guess \in blamed[u] :
             /\ guess.hash = credential[u].hash /\ ~Verify(credential[u].hash, guess.password)
             /\ guess.by \in Logins /\ login[guess.by].at = "over"
  BY DEF FailuresAreCurrent, BlamedOK, AccountInv, TypeOK, Guess
<1>2. \A guess \in blamed[u] : login'[guess.by].at = "over"
  BY <1>1, LoginSteps
<1>3. ASSUME credential'[u].failures = credential[u].failures,
             credential'[u].hash = credential[u].hash, blamed'[u] = blamed[u]
      PROVE  Counted1(u) /\ Answered(u)
  BY <1>1, <1>2, <1>3
<1>4. ASSUME credential'[u].failures = 0, blamed'[u] = {} PROVE Counted1(u) /\ Answered(u)
  BY <1>4, FS_EmptySet
<1>5. ASSUME NEW a \in Logins, Counts(a) PROVE Counted1(u) /\ Answered(u)
  <2> DEFINE c == credential[u]
             guess == [by |-> a, hash |-> login[a].seen.hash, password |-> login[a].password]
  <2>1. CASE login[a].user # u
    <3>1. credential'[u] = credential[u] /\ blamed'[u] = blamed[u]
      BY <1>5, <2>1, CountsFacts
    <3> QED BY <1>3, <3>1
  <2>2. CASE login[a].user = u
    <3>1. /\ login[a].at = "wrong" /\ login'[a].at = "over"
          /\ c.hash = login[a].seen.hash /\ ~Verify(c.hash, login[a].password)
          /\ credential'[u] = AfterFailure(c, login[a].time) /\ credential'[u].hash = c.hash
          /\ blamed'[u] = IF c.failures + 1 >= LoginFailureLimit THEN {} ELSE blamed[u] \cup {guess}
      BY <1>5, <2>2, CountsFacts
    <3>2. c \in Credentials
      BY DEF AccountInv, TypeOK
    <3>3. CASE c.failures + 1 >= LoginFailureLimit
      <4>1. credential'[u].failures = 0
        BY <3>1, <3>2, <3>3 DEF AfterFailure, Credentials
      <4> QED BY <1>4, <3>1, <3>3, <4>1
    <3>4. CASE ~(c.failures + 1 >= LoginFailureLimit)
      <4>1. credential'[u].failures = c.failures + 1
        BY <3>1, <3>2, <3>4 DEF AfterFailure, Credentials
      <4>2. guess \notin blamed[u]
        BY <1>1, <3>1
      <4>3. blamed'[u] = blamed[u] \cup {guess}
        BY <3>1, <3>4
      <4>4. IsFiniteSet(blamed'[u]) /\ Cardinality(blamed'[u]) = Cardinality(blamed[u]) + 1
        <5>1. \A g : g \notin blamed[u] =>
                  /\ IsFiniteSet(blamed[u] \cup {g})
                  /\ Cardinality(blamed[u] \cup {g}) = Cardinality(blamed[u]) + 1
          BY <1>1, FS_AddElement
        <5> HIDE DEF guess
        <5> QED BY <4>2, <4>3, <5>1
      <4>5. \A g \in blamed'[u] : /\ g.hash = credential'[u].hash
                                  /\ ~Verify(credential'[u].hash, g.password)
                                  /\ login'[g.by].at = "over"
        BY <1>1, <1>2, <3>1, <4>3
      <4> QED BY <1>1, <4>1, <4>4, <4>5
    <3> QED BY <3>3, <3>4
  <2> QED BY <2>1, <2>2
<1>6. ASSUME NEW a \in Logins, Admits(a) PROVE Counted1(u) /\ Answered(u)
  <2>1. \/ credential'[u] = credential[u] /\ blamed'[u] = blamed[u]
        \/ credential'[u].failures = 0 /\ blamed'[u] = {}
    BY <1>6, AdmitsFacts
  <2> QED BY <1>3, <1>4, <2>1
<1>7. ASSUME NEW r \in Runs, Commits(r) PROVE Counted1(u) /\ Answered(u)
  <2>1. \/ credential'[u] = credential[u] /\ blamed'[u] = blamed[u]
        \/ credential'[u].failures = 0 /\ blamed'[u] = {}
    BY <1>7, CommitsFacts
  <2> QED BY <1>3, <1>4, <2>1
<1>8. ASSUME NEW batch \in SUBSET Users, MapLegacyEmails(batch) PROVE Counted1(u) /\ Answered(u)
  BY <1>3, <1>8, MapFacts
<1>9. CASE Others
  BY <1>3, <1>9 DEF Others
<1> HIDE DEF Counted1, Answered
<1> QED BY <1>5, <1>6, <1>7, <1>8, <1>9, FourWriters

\* The count is right in every reachable state.
LEMMA FailuresInvariant == Spec => [](AccountInv /\ FailuresAreCurrent /\ BlamedOK)
<1>1. Init => FailuresAreCurrent /\ BlamedOK
  BY FS_EmptySet DEF Init, FailuresAreCurrent, BlamedOK
<1>2. AccountInv /\ FailuresAreCurrent /\ BlamedOK /\ [Next]_vars => (FailuresAreCurrent /\ BlamedOK)'
  BY FailuresKept
<1> QED BY <1>1, <1>2, AccountInvariant, PTL DEF Spec

\* The count of failures is the number of wrong guesses at the password in force
\* since the last reset, however many logins are under way: RecordFailedLogin counts
\* a guess only against the credential it was checked with, and counts it once.
THEOREM FailuresAreOfThisPassword == Spec => []FailuresAreCurrent
BY FailuresInvariant, PTL

\* A run whose change is on record ends so, and no other run reports "applied".
LEMMA RunSteps ==
    ASSUME AccountInv, [Next]_vars, NEW q \in Runs
    PROVE  /\ run[q].at \in {"applied", "unconfirmed"} => run'[q] = run[q]
           /\ run'[q].at = "applied" => run[q].at = "applied" \/ Commits(q)
<1> USE DEF AccountInv
<1> DEFINE Goal ==
        /\ run[q].at \in {"applied", "unconfirmed"} => run'[q] = run[q]
        /\ run'[q].at = "applied" => run[q].at = "applied" \/ Commits(q)
<1> SUFFICES Goal
  OBVIOUS
<1>0. run[q] \in RunRecord
  BY DEF TypeOK
<1>1. ASSUME run'[q] = run[q] PROVE Goal
  BY <1>1
<1>2. ASSUME NEW r \in Runs, NEW u \in Users, NEW op \in Operations, NEW p \in Passwords,
             Inspect(r, u, op, p)
      PROVE  Goal
  <2>1. CASE q # r
    BY <1>1, <1>2, <2>1 DEF Inspect, TypeOK
  <2>2. CASE q = r
    <3>1. run'[q] = Request(u, op, p) /\ run[q].at = "idle"
      BY <1>2, <2>2 DEF Inspect, TypeOK
    <3>2. credential[u].changedAt \in 0..MaxTime
      BY DEF TypeOK, Credentials
    <3> QED BY <3>1, <3>2, RequestFacts
  <2> QED BY <2>1, <2>2
<1>3. ASSUME NEW r \in Runs, CheckOperation(r) \/ FailRecovery(r) PROVE Goal
  <2>1. CASE q # r
    BY <1>1, <1>3, <2>1 DEF CheckOperation, FailRecovery, TypeOK
  <2>2. CASE q = r
    <3>1. PICK at \in {"recorded", "checked", "failed"} : run' = [run EXCEPT ![r].at = at]
      BY <1>3 DEF CheckOperation, FailRecovery
    <3>2. run'[q].at = at
      BY <1>0, <2>2, <3>1 DEF TypeOK, RunRecord
    <3>3. run[q].at \in {"inspected", "checked", "hashed"}
      BY <1>3, <2>2 DEF CheckOperation, FailRecovery
    <3> QED BY <3>2, <3>3
  <2> QED BY <2>1, <2>2
<1>4. ASSUME NEW r \in Runs, ReadCandidate(r) PROVE Goal
  <2>0. PICK at \in {"conflict", "same", "hashed"} :
            \E x : run' = [run EXCEPT ![r].seen = x, ![r].at = at]
    BY <1>4 DEF ReadCandidate
  <2>1. PICK x : run' = [run EXCEPT ![r].seen = x, ![r].at = at]
    BY <2>0
  <2>2. CASE q # r
    BY <1>1, <2>1, <2>2 DEF TypeOK
  <2>3. CASE q = r
    <3>1. run'[q].at = at
      BY <1>0, <2>1, <2>3 DEF TypeOK, RunRecord
    <3> QED BY <1>4, <2>3, <3>1 DEF ReadCandidate
  <2> QED BY <2>2, <2>3
<1>5. ASSUME NEW r \in Runs, NEW acknowledged \in BOOLEAN, NEW committed \in BOOLEAN,
             ApplyRecovery(r, acknowledged, committed)
      PROVE  Goal
  <2> DEFINE report == Report(r, acknowledged)
  <2>1. run' = [run EXCEPT ![r].at = report] /\ run[r].at = "hashed"
    BY <1>5 DEF ApplyRecovery
  <2>2. report = "applied" => Commits(r)
    <3>1. ASSUME report = "applied" PROVE committed = TRUE
      BY <1>5, <3>1 DEF ApplyRecovery, Report
    <3> QED BY <1>5, <3>1 DEF Commits
  <2> HIDE DEF report
  <2>3. CASE q # r
    BY <1>1, <2>1, <2>3 DEF TypeOK
  <2>4. CASE q = r
    <3>1. run'[q].at = report
      BY <1>0, <2>1, <2>4 DEF TypeOK, RunRecord
    <3> QED BY <2>1, <2>2, <2>4, <3>1
  <2> QED BY <2>3, <2>4
<1>6. ASSUME NEW a \in Logins,
             \/ \E k \in Clients, u \in Users, p \in Passwords : Begin(a, k, u, p)
             \/ Find(a) \/ Decide(a) \/ RecordFailedLogin(a) \/ CreateSession(a)
             \/ AnswerLogin(a) \/ FailLogin(a) \/ Logout(a)
      PROVE  Goal
  <2>1. run' = run
    BY <1>6 DEF Begin, Find, Decide, RecordFailedLogin, CreateSession, AnswerLogin, FailLogin, Logout
  <2> QED BY <1>1, <2>1
<1>7. CASE Tick \/ UNCHANGED vars \/ \E batch \in SUBSET Users : MapLegacyEmails(batch)
  <2>1. run' = run
    BY <1>7 DEF Tick, vars, MapLegacyEmails
  <2> QED BY <1>1, <2>1
<1> HIDE DEF Goal, AccountInv
<1> QED BY <1>2, <1>3, <1>4, <1>5, <1>6, <1>7 DEF Next

\* What is on record and the runs that put it there agree, and a password a run made
\* is in force only after that run's change.
RecordOK ==
    /\ \A i \in DOMAIN audit :
           LET q == audit[i].by
           IN  /\ run[q].at \in {"applied", "unconfirmed"}
               /\ run[q].user = audit[i].user /\ run[q].op = audit[i].op
    /\ \A q \in Runs : run[q].at = "applied" => \E i \in DOMAIN audit : audit[i].by = q
    /\ \A u \in Users : LET q == credential[u].hash.by
                        IN  q \in Runs => run[q].at \in {"applied", "unconfirmed"}

\* Appending to the record keeps what is on it.
LEMMA AuditGrows ==
    ASSUME AccountInv, NEW x, audit' = Append(audit, x)
    PROVE  LET n == Len(audit)
           IN  /\ n \in Nat /\ DOMAIN audit = 1..n /\ DOMAIN audit' = 1..(n + 1)
               /\ \A i \in 1..n : audit'[i] = audit[i]
               /\ audit'[n + 1] = x
BY DEF AccountInv, TypeOK

\* Every step keeps record and runs in agreement.
LEMMA RecordKept ==
    ASSUME AccountInv, RecordOK, [Next]_vars
    PROVE  RecordOK'
<1>1. \A i \in DOMAIN audit : audit[i] \in Recovery
  BY DEF AccountInv, TypeOK
<1>2. \A i \in DOMAIN audit : run'[audit[i].by] = run[audit[i].by]
  BY <1>1, RunSteps DEF RecordOK, Recovery
<1>3. \A q \in Runs : run[q].at \in {"applied", "unconfirmed"} => run'[q] = run[q]
  BY RunSteps
<1>4. ASSUME \A q \in Runs : ~Commits(q), audit' = audit,
             \A u \in Users : credential'[u].hash = credential[u].hash
      PROVE  RecordOK'
  <2>1. \A q \in Runs : run'[q].at = "applied" => run[q].at = "applied"
    BY <1>4, RunSteps
  <2> QED BY <1>2, <1>3, <1>4, <2>1 DEF RecordOK
<1>5. ASSUME NEW r \in Runs, Commits(r) PROVE RecordOK'
  <2> DEFINE u == run[r].user
             change == [user |-> u, op |-> run[r].op, by |-> r,
                        previous |-> credential[u].changedAt, applied |-> now]
  <2>1. /\ run'[r].at \in {"applied", "unconfirmed"}
        /\ run'[r].user = u /\ run'[r].op = run[r].op
        /\ \A q \in Runs \ {r} : run'[q] = run[q]
        /\ audit' = Append(audit, change)
    BY <1>5, CommitsFacts
  <2>2. /\ \A v \in Users \ {u} : credential'[v] = credential[v]
        /\ credential'[u].hash = Hash(run[r].password, r)
    BY <1>5, CommitsFacts
  <2>3. change.by = r /\ change.user = u /\ change.op = run[r].op
    OBVIOUS
  <2> HIDE DEF change
  <2>4. /\ Len(audit) \in Nat /\ DOMAIN audit = 1..Len(audit) /\ DOMAIN audit' = 1..(Len(audit) + 1)
        /\ \A i \in 1..Len(audit) : audit'[i] = audit[i]
        /\ audit'[Len(audit) + 1] = change
    BY <2>1, AuditGrows
  <2>5. ASSUME NEW i \in DOMAIN audit'
        PROVE  LET q == audit'[i].by
               IN  /\ run'[q].at \in {"applied", "unconfirmed"}
                   /\ run'[q].user = audit'[i].user /\ run'[q].op = audit'[i].op
    <3>1. CASE i \in DOMAIN audit
      BY <1>2, <2>4, <3>1 DEF RecordOK
    <3>2. CASE i = Len(audit) + 1
      BY <2>1, <2>3, <2>4, <3>2
    <3> QED BY <2>4, <3>1, <3>2
  <2>6. ASSUME NEW q \in Runs, run'[q].at = "applied" PROVE \E i \in DOMAIN audit' : audit'[i].by = q
    <3>1. CASE q = r
      BY <2>3, <2>4, <3>1
    <3>2. CASE q # r
      <4>1. run[q].at = "applied"
        BY <2>1, <2>6, <3>2
      <4>2. PICK i \in DOMAIN audit : audit[i].by = q
        BY <4>1 DEF RecordOK
      <4> QED BY <2>4, <4>2
    <3> QED BY <3>1, <3>2
  <2>7. ASSUME NEW v \in Users, credential'[v].hash.by \in Runs
        PROVE  run'[credential'[v].hash.by].at \in {"applied", "unconfirmed"}
    <3>1. CASE v = u
      BY <2>1, <2>2, <3>1 DEF Hash
    <3>2. CASE v # u
      BY <1>3, <2>2, <2>7, <3>2 DEF RecordOK
    <3> QED BY <3>1, <3>2
  <2> QED BY <2>5, <2>6, <2>7 DEF RecordOK
<1>6. CASE \E r \in Runs : Commits(r)
  BY <1>5, <1>6
<1>7. CASE \A r \in Runs : ~Commits(r)
  <2>1. CASE \E a \in Logins : Counts(a)
    <3>1. PICK a \in Logins : Counts(a)
      BY <2>1
    <3>2. audit' = audit /\ \A u \in Users : credential'[u].hash = credential[u].hash
      BY <3>1, CountsFacts
    <3> QED BY <1>4, <1>7, <3>2
  <2>2. CASE \E a \in Logins : Admits(a)
    <3>1. PICK a \in Logins : Admits(a)
      BY <2>2
    <3>2. audit' = audit /\ \A u \in Users : credential'[u].hash = credential[u].hash
      BY <3>1, AdmitsFacts
    <3> QED BY <1>4, <1>7, <3>2
  <2>3. CASE \E batch \in SUBSET Users : MapLegacyEmails(batch)
    <3>1. audit' = audit /\ \A u \in Users : credential'[u].hash = credential[u].hash
      BY <2>3, MapFacts DEF MapLegacyEmails
    <3> QED BY <1>4, <1>7, <3>1
  <2>4. CASE Others
    BY <1>4, <1>7, <2>4 DEF Others
  <2> QED BY <1>7, <2>1, <2>2, <2>3, <2>4, FourWriters
<1> QED BY <1>6, <1>7

\* Record and runs agree in every reachable state.
LEMMA RecordInvariant == Spec => [](AccountInv /\ RecordOK)
<1>1. Init => RecordOK
  BY Positive DEF Init, RecordOK, NoRun, Hash
<1>2. AccountInv /\ RecordOK /\ [Next]_vars => RecordOK'
  BY RecordKept
<1> QED BY <1>1, <1>2, AccountInvariant, PTL DEF Spec

\* What a recovery reports is so: it says "applied" if and only if its change is on
\* record, and after a lost acknowledgement the status command tells (AnswersAreTrue).
THEOREM ReportsAreTrue == Spec => []AnswersAreTrue
<1>1. AccountInv /\ RecordOK => AnswersAreTrue
  <2> SUFFICES ASSUME AccountInv, RecordOK, NEW r \in Runs
               PROVE  LET mine == {i \in DOMAIN audit : audit[i].by = r}
                      IN  /\ run[r].at = "applied" => mine # {}
                          /\ mine # {} =>
                                 /\ run[r].at \in {"applied", "unconfirmed"}
                                 /\ RecoveryStatus(run[r].user, run[r].op) = "applied"
    BY DEF AnswersAreTrue
  <2>1. run[r].at = "applied" => \E i \in DOMAIN audit : audit[i].by = r
    BY DEF RecordOK
  <2>2. ASSUME NEW i \in DOMAIN audit, audit[i].by = r
        PROVE  /\ run[r].at \in {"applied", "unconfirmed"}
               /\ RecoveryStatus(run[r].user, run[r].op) = "applied"
    BY <2>2 DEF RecordOK, RecoveryStatus
  <2> QED BY <2>1, <2>2
<1> QED BY <1>1, RecordInvariant, PTL

-----------------------------------------------------------------------------
(* The chain of recoveries *)

\* One link: what RecoveriesChain says of one recovery.
LinkOK(i) ==
    /\ \/ audit[i].previous = 0
       \/ \E j \in 1..(i - 1) : audit[j].user = audit[i].user /\ audit[j].applied = audit[i].previous
    /\ \A j \in 1..(i - 1) : audit[j].user = audit[i].user => audit[j].applied <= audit[i].previous
    /\ audit[i].previous < audit[i].applied

\* The end of the chain is the time of the credential in force.
ChainEnd(u) ==
    /\ \/ credential[u].changedAt = 0
       \/ \E j \in DOMAIN audit : audit[j].user = u /\ audit[j].applied = credential[u].changedAt
    /\ \A j \in DOMAIN audit : audit[j].user = u => audit[j].applied <= credential[u].changedAt

ChainOK ==
    /\ \A i, j \in DOMAIN audit : audit[i].op = audit[j].op => i = j
    /\ \A i \in DOMAIN audit : LinkOK(i)
    /\ \A u \in Users : ChainEnd(u)

\* A chain of links is what RecoveriesChain says.
LEMMA ChainLinks == AccountInv /\ ChainOK => RecoveriesChain
<1> SUFFICES ASSUME AccountInv, ChainOK, NEW i \in DOMAIN audit
             PROVE  LET before == {audit[j].applied :
                                       j \in {j \in 1..(i - 1) : audit[j].user = audit[i].user}}
                    IN  /\ audit[i].previous \in before \cup {0}
                        /\ \A t \in before : t <= audit[i].previous
                        /\ audit[i].previous < audit[i].applied
  BY DEF RecoveriesChain, ChainOK
<1>1. LinkOK(i)
  BY DEF ChainOK
<1> QED BY <1>1 DEF LinkOK

\* A recovery that commits adds a link at the end of its chain; no other step moves an end.
LEMMA ChainKept ==
    ASSUME AccountInv, ChainOK, [Next]_vars
    PROVE  ChainOK'
<1>1. \A i \in DOMAIN audit : audit[i] \in Recovery
  BY DEF AccountInv, TypeOK
<1>2. ASSUME audit' = audit, \A u \in Users : credential'[u].changedAt = credential[u].changedAt
      PROVE  ChainOK'
  BY <1>2 DEF ChainOK, LinkOK, ChainEnd
<1>3. ASSUME NEW r \in Runs, Commits(r) PROVE ChainOK'
  <2> DEFINE u == run[r].user
             n == Len(audit)
             change == [user |-> u, op |-> run[r].op, by |-> r,
                        previous |-> credential[u].changedAt, applied |-> now]
  <2>1. /\ u \in Users /\ ~Recorded(run[r].op) /\ now > credential[u].changedAt
        /\ \A v \in Users \ {u} : credential'[v] = credential[v]
        /\ credential'[u].changedAt = now
        /\ audit' = Append(audit, change)
    BY <1>3, CommitsFacts
  <2>2. /\ change.user = u /\ change.op = run[r].op
        /\ change.previous = credential[u].changedAt /\ change.applied = now
    OBVIOUS
  <2>3. now \in Nat /\ credential[u].changedAt \in Nat
    BY <2>1, Positive DEF AccountInv, TypeOK, Credentials
  <2> HIDE DEF change
  <2>4. /\ n \in Nat /\ DOMAIN audit = 1..n /\ DOMAIN audit' = 1..(n + 1)
        /\ \A i \in 1..n : audit'[i] = audit[i]
        /\ audit'[n + 1] = change
    BY <2>1, AuditGrows
  <2> HIDE DEF n, u
  <2>5. \A i, j \in DOMAIN audit' : audit'[i].op = audit'[j].op => i = j
    <3>1. \A i \in 1..n : audit'[i].op # change.op
      BY <2>1, <2>2, <2>4 DEF Recorded
    <3>2. \A i, j \in 1..n : audit'[i].op = audit'[j].op => i = j
      BY <2>4 DEF ChainOK
    <3> QED BY <2>4, <3>1, <3>2
  <2>6. ASSUME NEW i \in DOMAIN audit' PROVE LinkOK(i)'
    <3>1. CASE i \in 1..n
      <4>1. LinkOK(i)
        BY <2>4, <3>1 DEF ChainOK
      <4>2. \A j \in 1..(i - 1) : j \in 1..n
        BY <2>4, <3>1
      <4> QED BY <2>4, <3>1, <4>1, <4>2 DEF LinkOK
    <3>2. CASE i = n + 1
      <4>1. ChainEnd(u)
        BY <2>1 DEF ChainOK
      <4>2. 1..(i - 1) = DOMAIN audit
        BY <2>4, <3>2
      <4>3. audit'[i] = change
        BY <2>4, <3>2
      <4>4. \A j \in 1..n : audit'[j] = audit[j]
        BY <2>4
      <4> QED BY <2>1, <2>2, <2>4, <4>1, <4>2, <4>3, <4>4 DEF LinkOK, ChainEnd
    <3> QED BY <2>4, <3>1, <3>2
  <2>7. ASSUME NEW v \in Users PROVE ChainEnd(v)'
    <3>1. ChainEnd(v)
      BY DEF ChainOK
    <3>2. CASE v = u
      <4>1. \A j \in 1..n : audit[j].user = u => audit[j].applied <= now
        <5>1. \A j \in 1..n : audit[j].applied \in Nat
          BY <1>1, <2>4, Positive DEF Recovery
        <5> QED BY <2>1, <2>3, <2>4, <3>1, <3>2, <5>1 DEF ChainEnd
      <4> QED BY <2>1, <2>2, <2>3, <2>4, <3>2, <4>1 DEF ChainEnd
    <3>3. CASE v # u
      BY <2>1, <2>2, <2>4, <3>1, <3>3 DEF ChainEnd
    <3> QED BY <3>2, <3>3
  <2> QED BY <2>5, <2>6, <2>7 DEF ChainOK
<1>4. CASE \E a \in Logins : Counts(a)
  <2>1. PICK a \in Logins : Counts(a)
    BY <1>4
  <2>2. audit' = audit /\ \A u \in Users : credential'[u].changedAt = credential[u].changedAt
    BY <2>1, CountsFacts
  <2> QED BY <1>2, <2>2
<1>5. CASE \E a \in Logins : Admits(a)
  <2>1. PICK a \in Logins : Admits(a)
    BY <1>5
  <2>2. audit' = audit /\ \A u \in Users : credential'[u].changedAt = credential[u].changedAt
    BY <2>1, AdmitsFacts
  <2> QED BY <1>2, <2>2
<1>6. CASE \E batch \in SUBSET Users : MapLegacyEmails(batch)
  <2>1. audit' = audit /\ \A u \in Users : credential'[u].changedAt = credential[u].changedAt
    BY <1>6, MapFacts DEF MapLegacyEmails
  <2> QED BY <1>2, <2>1
<1>7. CASE Others
  BY <1>2, <1>7 DEF Others
<1> QED BY <1>3, <1>4, <1>5, <1>6, <1>7, FourWriters

\* The recoveries of an account form one chain: each was made for the credential the
\* one before left, later than it, under an operation ID of its own.
THEOREM RecoveriesFormChains == Spec => []RecoveriesChain
<1>1. Init => ChainOK
  BY DEF Init, ChainOK, ChainEnd
<1>2. AccountInv /\ ChainOK /\ [Next]_vars => ChainOK'
  BY ChainKept
<1> QED BY <1>1, <1>2, ChainLinks, AccountInvariant, PTL DEF Spec

-----------------------------------------------------------------------------
(* The lockout *)

\* One step of the lockout, for one account.
LEMMA LockoutStep ==
    ASSUME AccountInv, FailuresAreCurrent, RecordOK, [Next]_vars, NEW u \in Users
    PROVE  /\ LockedAt(credential[u], now) =>
                  /\ \A a \in Logins : login[a].user = u /\ session[a] = "none" => session'[a] = "none"
                  /\ credential'[u].hash = credential[u].hash =>
                         credential'[u].lockedUntil = credential[u].lockedUntil
           /\ \A a \in Logins :
                  /\ login[a].user = u /\ login[a].at = "wrong" /\ login'[a].at # "wrong"
                  /\ credential'[u] # credential[u]
                  /\ Cardinality(blamed[u]) = LoginFailureLimit - 1
                  => LockedAt(credential'[u], login[a].time)
<1>0. /\ credential[u] \in Credentials /\ now \in Nat
      /\ \A a \in Logins : login[a].time \in Nat /\ login[a].time <= now
      /\ \A a \in Logins : session[a] \in {"none", "live", "revoked"}
  BY Positive DEF AccountInv, TypeOK, LoginOK, LoginRecord
<1>1. \A a \in Logins : LockedAt(credential[u], now) => LockedAt(credential[u], login[a].time)
  BY <1>0, Positive DEF LockedAt, Credentials
<1>2. ASSUME LockedAt(credential[u], now), NEW a \in Logins, login[a].user = u, session[a] = "none"
      PROVE  session'[a] = "none"
  BY <1>1, <1>2, LoginSteps, AdmitsFacts
<1>3. ASSUME LockedAt(credential[u], now), credential'[u].hash = credential[u].hash
      PROVE  credential'[u].lockedUntil = credential[u].lockedUntil
  <2>1. CASE \E a \in Logins : Counts(a)
    <3>1. PICK a \in Logins : Counts(a)
      BY <2>1
    <3>2. login[a].user # u
      BY <1>1, <1>3, <3>1, CountsFacts
    <3>3. credential'[u] = credential[u]
      BY <3>1, <3>2, CountsFacts
    <3> QED BY <3>3
  <2>2. CASE \E a \in Logins : Admits(a)
    <3>1. PICK a \in Logins : Admits(a)
      BY <2>2
    <3>2. login[a].user # u
      BY <1>1, <1>3, <3>1, AdmitsFacts
    <3>3. credential'[u] = credential[u]
      BY <3>1, <3>2, AdmitsFacts
    <3> QED BY <3>3
  <2>3. CASE \E r \in Runs : Commits(r)
    <3>1. PICK r \in Runs : Commits(r)
      BY <2>3
    <3>2. run[r].user # u
      <4>0. credential'[run[r].user].hash = Hash(run[r].password, r)
        BY <3>1, CommitsFacts
      <4>1. run[r].user = u => credential'[u].hash.by = r
        BY <4>0 DEF Hash
      <4>2. run[r].at = "hashed"
        BY <3>1, CommitsFacts
      <4> QED BY <1>3, <4>1, <4>2 DEF RecordOK
    <3>3. \A v \in Users \ {run[r].user} : credential'[v] = credential[v]
      BY <3>1, CommitsFacts
    <3> QED BY <3>2, <3>3
  <2>4. CASE \E batch \in SUBSET Users : MapLegacyEmails(batch)
    BY <2>4, MapFacts
  <2>5. CASE Others
    BY <2>5 DEF Others
  <2> QED BY <2>1, <2>2, <2>3, <2>4, <2>5, FourWriters
<1>4. ASSUME NEW a \in Logins, login[a].user = u, login[a].at = "wrong", login'[a].at # "wrong",
             credential'[u] # credential[u], Cardinality(blamed[u]) = LoginFailureLimit - 1
      PROVE  LockedAt(credential'[u], login[a].time)
  <2>1. ASSUME NEW b \in Logins, Counts(b) PROVE LockedAt(credential'[u], login[a].time)
    <3>1. b = a
      <4>1. Release(b)
        BY <2>1 DEF Counts, RecordFailedLogin
      <4> QED BY <1>4, <4>1, ReleaseFacts DEF AccountInv
    <3>2. credential'[u] = AfterFailure(credential[u], login[a].time)
      BY <1>4, <2>1, <3>1, CountsFacts
    <3>3. credential[u].failures + 1 >= LoginFailureLimit
      BY <1>0, <1>4, Positive DEF FailuresAreCurrent, Credentials
    <3>4. credential'[u].lockedUntil = login[a].time + LoginLockDuration
      BY <1>0, <3>2, <3>3 DEF AfterFailure, Credentials
    <3> QED BY <1>0, <3>4, Positive DEF LockedAt
  <2>2. ASSUME NEW b \in Logins, Admits(b) PROVE FALSE
    <3>1. login[b].at = "right" /\ login' = [login EXCEPT ![b].at = "created"]
      BY <2>2 DEF Admits, CreateSession
    <3>2. login'[a] = login[a]
      BY <1>4, <3>1 DEF AccountInv, TypeOK
    <3> QED BY <1>4, <3>2
  <2>3. ASSUME NEW r \in Runs, Commits(r) PROVE FALSE
    <3>1. login' = login
      BY <2>3, CommitsFacts
    <3> QED BY <1>4, <3>1
  <2>4. ASSUME NEW batch \in SUBSET Users, MapLegacyEmails(batch) PROVE FALSE
    <3>1. login' = login
      BY <2>4 DEF MapLegacyEmails
    <3> QED BY <1>4, <3>1
  <2>5. ~Others
    BY <1>4 DEF Others
  <2> QED BY <2>1, <2>2, <2>3, <2>4, <2>5, FourWriters
<1> QED BY <1>2, <1>3, <1>4

\* The lockout: while an account is locked no login opens a Session for it, only a
\* recovery ends the lock early, and the guess that reaches the limit locks.
THEOREM LockoutHolds == Spec => Lockout
<1>1. AccountInv /\ FailuresAreCurrent /\ RecordOK /\ [Next]_vars =>
          [\A u \in Users :
               /\ LockedAt(credential[u], now) =>
                      /\ \A a \in Logins : login[a].user = u /\ session[a] = "none" => session'[a] = "none"
                      /\ credential'[u].hash = credential[u].hash =>
                             credential'[u].lockedUntil = credential[u].lockedUntil
               /\ \A a \in Logins :
                      /\ login[a].user = u /\ login[a].at = "wrong" /\ login'[a].at # "wrong"
                      /\ credential'[u] # credential[u]
                      /\ Cardinality(blamed[u]) = LoginFailureLimit - 1
                      => LockedAt(credential'[u], login[a].time)]_vars
  BY LockoutStep
<1> QED BY <1>1, FailuresInvariant, RecordInvariant, PTL DEF Spec, Lockout
=============================================================================
