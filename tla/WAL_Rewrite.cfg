\* A blob that a durable head names is written again; no fault but the loss of power.
SPECIFICATION WalSpec
CONSTANTS
    None = None
    w1 = w1
    w2 = w2
    Writer = {w1, w2}
    Ticker = Ticker
    HeadKey = {h}
    Genesis = Genesis
    BlobKey = {b1, b2}
    BigBlob = {b2}
    Preloaded = {h, b2}
    Deletable = {h}
    WalFault = {"power"}
    MaxWalFaults = 2
    MaxOps = 3
CHECK_DEADLOCK FALSE
SYMMETRY WriterSymmetry
INVARIANTS
    HeadNeverEmpty
