SPECIFICATION Spec
CONSTANTS
    Users = {1, 2, 3}
    Subjects = {x1}
    Transactions = {t1, t2}
    Menus <- Meetings
    InvitationLimit = 1
    StateLimit = 1
    MaxRevision = 3
    None = None
SYMMETRY Symmetry
INVARIANTS
    OneOwner
    SpentOnce
    SessionsOfBoundIdentities
    OnlyAdmissionInverts
PROPERTIES
    InvitersTermHolds
    ActsWithItsSession
CHECK_DEADLOCK FALSE
