SPECIFICATION Spec
CONSTANTS
    Users = {1, 2, 3}
    Admins = {2}
    Owners = {1, 2}
    Transactions = {t1, t2}
    Menus <- MemberMeeting
    MaxRevision = 3
    None = None
    a = a
    b = b
    p = p
    q = q
    thread = thread
    component = component
    repository = repository
    workspace = workspace
    project = project
    run = run
INVARIANTS
    NoDeadlock
