SPECIFICATION RouterFairSpec
CONSTANTS
    c1 = c1
    c2 = c2
    w1 = w1
    w2 = w2
    Submitter <- Submitters
    Worker <- Workers
    Nil = Nil
    InboxSize = 2
    MaxMsgs = 4
    MaxStops = 2
INVARIANTS NoSendOnClosedInbox StopDrains
PROPERTIES StopReturns AcceptedReachesPipeline
CHECK_DEADLOCK FALSE
