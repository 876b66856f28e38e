\* A revert and a transaction that started on the handle the revert then evicts; no fault.
SPECIFICATION BranchSpec
CONSTANTS
    Writer = {w1, w2}
    Request <- MC_Request
    Foreign <- MC_Request
    Operation <- MC_Revert
    Iri <- MC_Iri
    RECENT_COMMITS = 2
    MAX_RETRIES = 2
    MAX_TXN_RETRIES = 2
    MAX_INCREMENTAL_COMMITS = 1
    Fault = {}
    MaxFaults = 0
    MaxForeign = 1
INVARIANT AcknowledgedStays
