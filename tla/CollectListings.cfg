\* Two room types.  Cian: four pages, a rotation every two pages that are given up.
\* DomClick: two cards a page, three offers and two changes of a list.
SPECIFICATION MainSpec
CONSTANTS
    Window = 2
    CaptchaThreshold = 2
    Unit = 1000
    MaxMultiplier = 2000
    LongPauseAfter = {1, 2}
    RotateEvery = 4
    MaxFaults = 2
    Rooms <- TwoRooms
    FirstPage = 1
    LastPage = 4
    MaxRetries = 2
    CardsPerPage = 2
    MinTotal = 3
    MaxOffers = 3
    MaxMoves = 2
INVARIANTS
    DeadChromeReplaced
    NoChromeLeft
    PaceRecovers
    PausedBetweenLoads
    LossBounded
PROPERTIES
    RoomsLeftForCause
    SessionEnds
CHECK_DEADLOCK FALSE
