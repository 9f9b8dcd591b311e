SPECIFICATION MCSpec
CONSTANTS
    MaxInbox = 3
    Machines <- MCMachines
    Shipped <- MCShipped
    ShippedOn <- MCShippedOn
    Requests <- MCRequests
    MaxTrainTime = 86400
    ExtraSeconds = 300
    MaxJobs = 1
    Uploads = {"a", "b", "c"}
    SizeOf <- MCSizeOf
    MaxChunks = 2
    Hole = "hole"
    Jobs = {"a", "b"}
    Base = "base"
    MaxDeaths = 2
    MaxTorn = 1
    Calls = {"p", "q"}
    NumItems = 2
    MaxTroubles = 1
INVARIANTS JobHasItsDataset
CHECK_DEADLOCK FALSE
