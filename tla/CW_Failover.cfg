\* One owner that may also lead; answers are lost and leaders change; every entry leaves the queue.
SPECIFICATION FairWorkerSpec
CONSTANTS
    Branch = {main}
    main = main
    Key = {}
    Body = {"transact", "malformed"}
    Commit <- MC_Commit
    CommitT <- MC_CommitT
    IndexRoot = {}
    IndexT <- MC_IndexT
    Snapshot <- MC_Snapshot
    Millis = {0}
    PerBranchCap = 2
    GlobalCap = 2
    EvictBatchSize = 1
    MaxChildCount = 2
    MaxQueueId = 2
    None = None
    Node = {n1, n2}
    Owner = {n2}
    Candidate = {n1, n2}
    MaxStamp = 4
    MaxStageAttempts = 2
    Fault = {"lose", "elect"}
    MaxFaults = 2
INVARIANTS HeadBlobDurable CompletedMeansTerminal 
PROPERTIES AppliedWorkIsTheEntrys ImplementsBranchLog QueueDrains
CHECK_DEADLOCK FALSE
