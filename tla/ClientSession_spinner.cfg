SPECIFICATION FairSpec
CONSTANTS
    Tabs = {t1}
    Calls = {c1, c2}
    Tokens = {k1, k2, k3}
    MaxAsked = 1
    NoTab = NoTab
    NoToken = NoToken
PROPERTIES PageOpens
CHECK_DEADLOCK FALSE
