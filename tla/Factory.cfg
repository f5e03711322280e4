SPECIFICATION Spec
CONSTANTS
    Agent <- MCAgent
    Editor <- MCEditor
    Edit <- MCEdit
    Document <- MCDocument
    Start <- MCStart
    DefaultDir <- MCDefaultDir
    ZeroAgent <- MCZeroAgent
    HotPlugins = TRUE
    Inode = {1, 2, 3}
    MaxTime = 2
    MaxConcurrent = 1
    MaxHistory = 1
    MaxSpawns = 2
    Session <- MCSession
    Msg <- MCMsg
    AgentOrder <- MCAgentOrder
    Served = {"d2"}
    Budgets <- MCBudgets
    Absent = "absent"
INVARIANTS FileWhole CachesCurrent ActiveCount FinalStatus
PROPERTIES  SlotsFreed
CHECK_DEADLOCK FALSE
