SPECIFICATION Spec
CONSTANTS
    MaxSteps = 3
    StepsPerCheckpoint = 1
    KeepCheckpoints = 1
    HistoryLength = 2
    Torn = TRUE
    Timely = FALSE
    MaxJobs = 3
    MaxKills = 1
    MaxCrashes = 1
    MaxErrors = 1
INVARIANTS JobIsConsistent OneLiveJob
