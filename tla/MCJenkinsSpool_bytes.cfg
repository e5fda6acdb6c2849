SPECIFICATION Spec
CONSTANTS
    a = a
    b = b
    c = c
    d = d
    None = None
    Builds = {1}
    Payloads = {a, b, c, d}
    Meanings <- MCMeanings
    Meaning <- MCMeaning
    Unsupported = {d}
    Foreign = {}
    MaxRounds = 2
    Attempts = 2
    Window = 2
    Retention = 1
    Delays = {1}
    MaxResets = 1
    MaxTime = 3
    MaxFaults = 2
CHECK_DEADLOCK FALSE
INVARIANTS
    AckMeansRecorded
    BudgetHolds
PROPERTIES
    HandoffSpec
