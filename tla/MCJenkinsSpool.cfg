SPECIFICATION Spec
CONSTANTS
    a = a
    b = b
    c = c
    d = d
    None = None
    Builds = {1, 2}
    Payloads = {a, b}
    Meanings <- MCMeanings
    Meaning <- MCMeaning
    Unsupported = {}
    Foreign = {b}
    MaxRounds = 2
    Attempts = 1
    Window = 2
    Retention = 2
    Delays = {1}
    MaxResets = 1
    MaxTime = 2
    MaxFaults = 1
CHECK_DEADLOCK FALSE
INVARIANTS
    NoStarvation
PROPERTIES
    PauseStopsSource
    MismatchIsPermanent
