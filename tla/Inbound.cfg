SPECIFICATION Spec
CONSTANTS
    Pending <- MCPending
    MaxBegins = 1
    Handler <- MCHandler
    Poller = 1
    Kind <- MCKind
    InboxSize = 1
    MaxUpdates = 2
    MaxErrors = 2
    MaxFaults = 1
INVARIANTS
    NothingSkipped
    NoDuplicates
    ReplyDecides
PROPERTY EveryUpdateSettled
CHECK_DEADLOCK FALSE
