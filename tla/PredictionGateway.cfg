\* Two requests at a time; no symmetry, for RequestEnds.
SPECIFICATION FairSpec
CONSTANTS
    Users = {u1, u2}
    Slots = {s1, s2}
    MaxAttempts = 3
    MaxLimit = 1
    MaxRequests = 3
    NoUser = NoUser
    NoRow = NoRow
    NoSlot = NoSlot
INVARIANTS
    AnswersAreKept
    OnlyVettedAreServed
    TotalCountsThePage
PROPERTIES
    DeletedOnce
    RequestEnds
CHECK_DEADLOCK FALSE
