SPECIFICATION Spec
CONSTANTS
    Tabs = {t1, t2}
    Calls = {c1, c2}
    Tokens = {k1, k2, k3}
    MaxAsked = 3
    NoTab = NoTab
    NoToken = NoToken
SYMMETRY Perms
INVARIANTS NoInnocentReplay ExecutedOnce
CHECK_DEADLOCK FALSE
