SPECIFICATION Spec
CONSTANTS
    w1 = w1
    w2 = w2
    k1 = k1
    k2 = k2
    s1 = s1
    s2 = s2
    s3 = s3
    Worker <- Workers
    Key <- OneKey
    Sess <- Sessions
    Nil = Nil
    Kinds <- TextAndNew
    Faults <- NoFaults
    MaxHistoryLen = 3
    MaxSessions = 0
    InboxSize = 2
    MaxMsgs = 3
    MaxRestarts = 0
    Aging = FALSE
INVARIANTS ResetAlwaysForgets
