SPECIFICATION Spec
CONSTANTS
    Pending <- MCPending
    MaxBegins = 2
    Tool <- MCTool
    Trim <- MCTrim
    Call <- MCCall
    DefaultLevel <- MCDefaultLevel
    Executors <- MCExecutors
    Usage = {1, 2}
    SetIterations = 2
    SetThreshold = 0
    DefaultMaxIterations = 10
    DefaultLoopThreshold = 3
    TokenBudget = 3
    ToolCallsPerMin = 2
    Window = 1
    MaxTime = 3
INVARIANTS
    ResultsMatchCalls
    BoundedTurn
    ApprovedToRun
    WindowBound
PROPERTY TurnEnds
