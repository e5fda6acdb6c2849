SPECIFICATION Spec
CONSTANTS
    Users = {1, 2, 3}
    Admins = {1}
    Owners = {1, 2}
    Transactions = {t1, t2}
    Menus <- Meetings
    MaxRevision = 3
    None = None
    a = a
    b = b
    p = p
    q = q
    thread = thread
    component = component
    repository = repository
    workspace = workspace
    project = project
    run = run
INVARIANTS
    NoLeftoverAccess
    NoDeadlock
    OneEffect
    AnswerIsOwnEffect
    RevisionsChain
PROPERTIES
    AuthorizedCommit
