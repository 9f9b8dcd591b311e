SPECIFICATION Spec
CONSTANTS
    NumGroups = 3
    MaxAborts = 1
    BlockSize = 2
    MaxLoras = 1
    Configs <- MCConfigs
CHECK_DEADLOCK FALSE
INVARIANTS SchedulerIsConsistent CacheHoldsOwnTokens
PROPERTIES EveryRequestIsAnswered
