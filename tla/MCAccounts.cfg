SPECIFICATION Spec
CONSTANTS
    c1 = c1
    c2 = c2
    Users = {u1}
    Legacy = {u1}
    Passwords = {p1, p2}
    Clients = {c1, c2}
    Logins = {l1, l2, l3}
    Runs = {r1, r2}
    Operations = {o1, o2}
    LoginFailureLimit = 2
    LoginLockDuration = 1
    SessionLifetime = 2
    AttemptLimit = 2
    WindowDuration = 1
    MaxClients = 1
    PasswordSlots = 2
    MaxTime = 3
    Casts <- Meetings
    None = None
SYMMETRY Symmetry
INVARIANTS
    SessionsOfThisPassword
    FailuresAreCurrent
    RecoveriesChain
    AnswersAreTrue
PROPERTIES
    Lockout
CHECK_DEADLOCK FALSE
