SPECIFICATION AttendedSpec
CONSTANTS
    a = a
    b = b
    c = c
    d = d
    None = None
    Builds = {1}
    Payloads = {a}
    Meanings <- MCMeanings
    Meaning <- MCMeaning
    Unsupported = {}
    Foreign = {}
    MaxRounds = 2
    Attempts = 1
    Window = 2
    Retention = 1
    Delays = {1}
    MaxResets = 1
    MaxTime = 1
    MaxFaults = 1
CHECK_DEADLOCK FALSE
PROPERTIES
    PauseCanBeLifted
