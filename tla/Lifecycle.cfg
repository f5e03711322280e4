SPECIFICATION Spec
CONSTANTS
    N = 7
    Configured = 5
    Starters <- AllStarters
    Stoppers <- AllStoppers
    Impatient <- TimeOut
    Restarters <- Cron
    Gateway = 2
INVARIANTS RunningInLayers StoppedIsQuiet FailedLoadReleases
