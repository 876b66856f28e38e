\* Every kind of body and of fault, one fault at a time.
SPECIFICATION WorkerSpec
CONSTANTS
    Branch = {main}
    main = main
    Key = {}
    Body = {"transact", "timed", "sync", "push", "malformed"}
    Commit <- MC_Commit
    CommitT <- MC_CommitT
    IndexRoot = {}
    IndexT <- MC_IndexT
    Snapshot <- MC_Snapshot
    Millis = {0}
    PerBranchCap = 2
    GlobalCap = 2
    EvictBatchSize = 1
    MaxChildCount = 2
    MaxQueueId = 2
    None = None
    Node = {n1, n2}
    Owner = {n2}
    Candidate = {n1, n2}
    MaxStamp = 4
    MaxStageAttempts = 2
    Fault = {"lose", "elect", "flap", "reset", "hiccup"}
    MaxFaults = 1
INVARIANTS WorkerTypeOK StashHasOwner
CHECK_DEADLOCK FALSE
