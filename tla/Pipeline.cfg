SPECIFICATION Spec
CONSTANTS
    w1 = w1
    w2 = w2
    k1 = k1
    k2 = k2
    s1 = s1
    s2 = s2
    s3 = s3
    Worker <- Workers
    Key <- TwoKeys
    Sess <- Sessions
    Nil = Nil
    Kinds <- AllKinds
    Faults <- AllFaults
    MaxHistoryLen = 3
    MaxSessions = 1
    InboxSize = 1
    MaxMsgs = 3
    MaxRestarts = 1
    Aging = TRUE
SYMMETRY Symmetry
VIEW View
INVARIANTS ExchangesContiguous SettledOnce HistoryInSync ResetForgets
