\* One branch with rival commits, two keys and two clock readings; three branches with forks,
\* retractions and resets; two branches at the caps (Scope).
SPECIFICATION MC_Spec
CONSTANTS
    Branch = {main, dev, fix}
    Key = {k1, k2}
    Body = {bodyA}
    Commit = {c1, c2, c3}
    c1 = c1  c2 = c2  c3 = c3
    IndexRoot = {x3}
    x1 = x1  x2 = x2  x3 = x3
    CommitT <- MC_CommitT
    IndexT <- MC_IndexT
    Snapshot <- MC_AllSnapshots
    Millis = {0, 1}
    PerBranchCap = 3
    GlobalCap = 3
    EvictBatchSize = 1
    MaxChildCount = 2
    MaxQueueId = 4
    None = None
INVARIANTS TypeOK KeyLiveOnce MarkerOnlyWhenIdle EnvelopeAccounting IndexBehindHead
    RegistryConsistent CapsRespected
PROPERTIES RegressionEmptiesQueue OutcomeStable LineageKept RetractedFrozen
SYMMETRY BranchSymmetry
