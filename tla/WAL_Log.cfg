\* Two writers and the background thread, a head and two blobs, every fault the log handles.
SPECIFICATION WalSpec
CONSTANTS
    None = None
    w1 = w1
    w2 = w2
    Writer = {w1, w2}
    Ticker = Ticker
    HeadKey = {h}
    Genesis = Genesis
    BlobKey = {b1, b2}
    BigBlob = {b2}
    Preloaded = {h, b2}
    Deletable = {h}
    WalFault = {"power", "writeback", "full_disk", "panic", "key_flush", "dir_flush", "open_segment"}
    MaxWalFaults = 2
    MaxOps = 3
CHECK_DEADLOCK FALSE
SYMMETRY WriterSymmetry
INVARIANTS
    DurableSurvives
    HeadHasContent
    UnflushedInActive
    NoHoleInLog
    NobodyParkedForGood
