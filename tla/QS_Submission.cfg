SPECIFICATION FairSubmissionSpec
CONSTANTS
    None = None
    main = main
    k1 = k1
    x = x
    y = y
    c1 = c1
    c2 = c2
    s1 = s1
    s2 = s2
    Branch = {main}
    Key = {k1}
    Body = {x, y}
    Commit <- mc_Commit
    CommitT <- mc_CommitT
    IndexRoot = {}
    IndexT <- mc_IndexT
    Snapshot <- mc_Snapshot
    Millis = {0}
    PerBranchCap = 2
    GlobalCap = 2
    EvictBatchSize = 1
    MaxChildCount = 2
    MaxQueueId = 3
    Sub = {s1, s2}
    Cid = {c1, c2}
    Workload <- mc_Workload
    MaxRetries = 2
    MaxBatch = 1
    SubFault = {"reset", "retract", "elect", "fatal", "cancel", "snapshot"}
    MaxSubFaults = 2
CHECK_DEADLOCK FALSE
INVARIANTS
    NoLostOutcome
    OutcomeIsTrue
    RequestAppliedOnce
PROPERTIES
    SubmissionReturns
