\* Two detail sessions of either site overlap or take turns, while two listings
\* write; one flat of each site.
SPECIFICATION Spec
CONSTANTS
    Flats = {c1, d1}
    Domclick = {d1}
    Slots = {s1, s2}
    Listers = {l1, l2}
    MaxAttempts = 2
    Cooldown = 1
    StaleTimeout = 1
    BatchSize = 2
    MaxCaptcha = 2
    DayLength = 2
    Offset = 0
    MaxTime = 2
    MaxSessions = 2
    NoFlat = NoFlat
    NoPage = NoPage
    Never = Never
SYMMETRY Symmetry
INVARIANTS
    InProgressIsHeld
    EffortBounded
PROPERTIES
    SettledUntouched
    StaleRecovered
    NothingLeftBehind
    ImplementsQueue
CHECK_DEADLOCK FALSE
