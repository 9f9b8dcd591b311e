SPECIFICATION FairSpec
CONSTANTS
    Prompts <- MCPrompts
    None = None
    MaxId = 3
    KeepLatest = 3
    MaxDelete = 1
    Clients = {"a", "b"}
    Workers = {w1}
    w1 = w1
    PromptsOf <- MCPromptsOf
    KindOf <- MCGenerateOnly
    BatchSize = 1
    Outcomes = {"response"}
    Colocated = TRUE
    MaxCrashes = 1
    MaxFaults = 0
PROPERTIES EveryRequestIsAnswered
