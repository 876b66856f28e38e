\* Transactions of one process, another process on the same head.
SPECIFICATION WriteSpec
CONSTANTS
    Writer = {w1, w2, w3}
    Request <- MC_Request
    Foreign <- MC_Foreign
    Iri <- MC_Iri
    RECENT_COMMITS = 2
    MAX_RETRIES = 2
    MAX_TXN_RETRIES = 2
    MAX_INCREMENTAL_COMMITS = 1
    Fault = {"fail", "landed", "reload", "panic", "cancel", "abandon", "sweep", "refresh"}
    MaxFaults = 1
    MaxForeign = 1
INVARIANTS Serializable SidsMeanTheirIris LandsAsAnswered PlaceholderIsTemporary
SYMMETRY MC_Symmetry
