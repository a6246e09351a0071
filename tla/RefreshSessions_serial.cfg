\* One request at a time, with aborts, lost answers and a clock.
SPECIFICATION Spec
CONSTANTS
    u1 = u1
    Users = {u1}
    TwoFactorUsers = {u1}
    Tokens = {t1, t2, t3}
    Requests = {r1}
    MAX_SESSIONS_PER_USER = 2
    REFRESH_TTL = 1
    AUTH_TTL = 1
    MaxTime = 2
    MaxPassword = 1
    NoToken = NoToken
    NoRow = NoRow
    NoUser = NoUser
CHECK_DEADLOCK FALSE
SYMMETRY TokenSymmetry
INVARIANT NoSessionOutlivesPassword
PROPERTIES
    ImplementsStrictLedger
    SignInKeepsCap
