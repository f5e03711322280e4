SPECIFICATION FairSpec
CONSTANTS
    s1 = s1
    s2 = s2
    s3 = s3
    main = main
    j1 = j1
    j2 = j2
    Sched <- Scheds
    Reloader <- Reloaders
    Run <- Runs
    Nil = Nil
    Caller <- Callers
    Cron <- Crons
    Creates <- CreateArgs
    Updates <- UpdateArgs
    Scenario <- Scenarios
INVARIANTS NoParallelRuns JobsScheduled
PROPERTY ReloadReturns
CHECK_DEADLOCK FALSE
