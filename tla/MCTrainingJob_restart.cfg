SPECIFICATION FairSpec
CONSTANTS
    MaxSteps = 3
    StepsPerCheckpoint = 1
    KeepCheckpoints = 1
    HistoryLength = 2
    Torn = FALSE
    Timely = TRUE
    MaxJobs = 6
    MaxKills = 2
    MaxCrashes = 1
    MaxErrors = 1
INVARIANTS ResumeFindsHistory
PROPERTIES OutcomeIsFinal EveryJobEnds
