SPECIFICATION FairSpec
CONSTANTS
    Prompts <- MCPrompts
    None = None
    MaxId = 3
    KeepLatest = 3
    MaxDelete = 1
    Clients = {"a", "b"}
    Workers = {w1, w2}
    w1 = w1
    w2 = w2
    PromptsOf <- MCPromptsOf
    KindOf <- MCGenerateOnly
    BatchSize = 2
    Outcomes = {"response", "error"}
    Colocated = FALSE
    MaxCrashes = 0
    MaxFaults = 0
INVARIANTS BacklogIsTold
PROPERTIES EveryCallReturns
