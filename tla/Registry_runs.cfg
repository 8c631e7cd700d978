SPECIFICATION FairSpec
CONSTANTS
    p1 = p1
    p2 = p2
    f1 = f1
    f2 = f2
    Piece <- OnePiece
    Needed <- OnePiece
    Found0 <- NothingThere
    Fetcher <- TwoFetchers
    Faults <- ScanAndSync
    Late <- NoPieces
    PowerCuts = TRUE
INVARIANTS
    StateAgrees
    AcknowledgedOnDisk
PROPERTIES
    TorrentRuns
