SPECIFICATION Spec
CONSTANTS
    NumBlocks = 4
    BlockSize = 2
    NumSeqs = 3
    Prompts <- SharedPrompts
    Tokens = {1, 2}
    MaxLen = 6
    MaxSteps = 4
INVARIANTS PoolIsConsistent CacheIsRight
CHECK_DEADLOCK FALSE
