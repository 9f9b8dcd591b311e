SPECIFICATION Spec
CONSTANTS
    Prompts <- MCPrompts
    None = None
    MaxId = 3
    KeepLatest = 1
    MaxDelete = 1
    Clients = {"a", "b"}
    Workers = {w1, w2}
    w1 = w1
    w2 = w2
    PromptsOf <- MCPromptsOf
    KindOf <- MCMixed
    BatchSize = 2
    Outcomes = {"response"}
    Colocated = FALSE
    MaxCrashes = 1
    MaxFaults = 1
CONSTRAINT OneMishap
SYMMETRY WorkerSymmetry
INVARIANTS TypeOK HandedOutOnce AckedRowsAreAnswered RepliesAreAligned DeletedRowsAreOld
PROPERTIES ImplementsLedger
