\* A keyed request completes, its branch is purged and created again.
SPECIFICATION Spec
CONSTANTS
    Branch = {main}
    Key = {k1}
    Body = {bodyA}
    Commit = {c1}
    c1 = c1  c2 = c2  c3 = c3
    IndexRoot = {}
    x1 = x1  x2 = x2  x3 = x3
    CommitT <- MC_CommitT
    IndexT <- MC_IndexT
    Snapshot <- MC_AllSnapshots
    Millis = {0}
    PerBranchCap = 3
    GlobalCap = 3
    EvictBatchSize = 1
    MaxChildCount = 2
    MaxQueueId = 1
    None = None
PROPERTIES FreshBranchHasNoRecords
