SPECIFICATION FairSpec
CONSTANTS
    Channels = {c1}
    Users = {u1}
    Subscriptions = {s1, s2}
    Messages = {m1, m2}
    Hidden = {}
    NoCursor = NoCursor
    None = None
    ReplayLimit = 1
    ConnectionLimit = 2
    UserConnectionLimit = 2
    ChannelConnectionLimit = 2
    MaxRestarts = 1
    MaxFaults = 0
    AckMayBeLost = TRUE
CHECK_DEADLOCK FALSE
PROPERTIES
    EventuallyShown
    WithdrawalConverges
    ShutdownDrains
