SPECIFICATION Spec
CONSTANTS
    Channels = {c1, c2}
    Users = {u1, u2}
    Subscriptions = {s1, s2}
    Messages = {m1, m2}
    Generations = {g1, g0}
    NoCursor = NoCursor
    ReplayLimit = 2
    ConnectionLimit = 2
    UserConnectionLimit = 1
    ChannelConnectionLimit = 1
    MaxPosition = 3
SYMMETRY Symmetry
CHECK_DEADLOCK FALSE
INVARIANTS
    DrainedIsUnbroken
    ResyncExactlyWhenLost
    CountersExact
PROPERTIES
    FeedSpec
