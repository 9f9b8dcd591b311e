SPECIFICATION MCSpec
CONSTANTS
    Ranks = {0, 1, 2}
    MaxSteps = 3
    CheckpointEvery = 1
    MaxWorld = 5
    MaxNumel = 12
    MaxUpdates = 2
    Wrong = Wrong
    World = 2
    BlockSize = 2
    BatchSize = 2
    MapBatch = 2
    MaxExamples = 5
    MaxTokens = 2
    MaxBatches = 4
INVARIANTS RanksAgree ShardsAreRight DataIsShared
PROPERTIES CheckpointIsCommon EveryProcessEnds
CHECK_DEADLOCK FALSE
