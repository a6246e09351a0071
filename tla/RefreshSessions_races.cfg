\* Two requests of one user interleave.
SPECIFICATION Spec
CONSTANTS
    u1 = u1
    Users = {u1}
    TwoFactorUsers = {u1}
    Tokens = {t1, t2, t3}
    Requests = {r1, r2}
    MAX_SESSIONS_PER_USER = 1
    REFRESH_TTL = 1
    AUTH_TTL = 1
    MaxTime = 0
    MaxPassword = 1
    NoToken = NoToken
    NoRow = NoRow
    NoUser = NoUser
CHECK_DEADLOCK FALSE
SYMMETRY Symmetry
INVARIANTS
    RotationAtomic
    RevokeAllComplete
    HandedOutIsStored
PROPERTIES
    ImplementsLedger
