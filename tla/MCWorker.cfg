SPECIFICATION MCSpec
CONSTANTS
    Adapters = {"a", "b", "c"}
    Checkpoints = {"c1"}
    PKeys = {"p"}
    HeadKeys = {"lm_head"}
    OtherKeys = {"k"}
    KeysOf <- MCKeysOf
    Capacity = 2
    MaxLoras = 2
    MaxLoads = 4
    Base = Base
    Blocks = {b1, b2}
    Handles = {h1, h2, h3}
    None = None
    MaxCows = 2
    NLocal = 2
    NRemote = 1
    MaxChunks = 2
    MaxItems = 5
    Big <- MCBig
    MaxStores = 4
INVARIANTS AdaptersAreConsistent AllocatorIsConsistent ShmIsBounded
PROPERTIES IsQueue EverythingArrives
CHECK_DEADLOCK FALSE
