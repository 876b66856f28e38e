\* Three submissions, permits for two; callers go away, outcomes get lost.
SPECIFICATION CachingSpec
CONSTANTS
    Submission = {s1, s2, s3}
    l1 = l1
    l2 = l2
    k1 = k1
    Ledger = {l1, l2}
    IdempotencyKey = {k1}
    NoKey = NoKey
    Request <- MC_Request
    PerLedgerLimit = 2
    PendingLimit = 2
    Fault = {"cancel", "landed"}
    MaxFaults = 3
INVARIANTS KeyedRetriesCollapse ReplayIsTrue NoLeakedAdmissionEntry InFlightIsOwned
SYMMETRY MC_Symmetry
