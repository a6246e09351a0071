\* More keys than buckets; of the windows one is shorter than the cleanup's, one is
\* as long and one is longer.
SPECIFICATION Spec
CONSTANTS
    login1 = login1
    login2 = login2
    register1 = register1
    long1 = long1
    Keys = {login1, login2, register1, long1}
    MaxAttempts <- MCMaxAttempts
    Window <- MCWindow
    Second = 2
    MAX_KEYS = 2
    MaxWindow = 4
    MaxTime = 9
    MaxCalls = 4
    Never = Never
SYMMETRY Symmetry
INVARIANTS
    SlidingWindow
    RetryAfterHonoured
PROPERTY ImplementsLog
