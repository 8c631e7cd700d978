SPECIFICATION Spec
CONSTANTS
    p1 = p1
    p2 = p2
    f1 = f1
    f2 = f2
    Piece <- OnePiece
    Needed <- OnePiece
    Found0 <- SomethingThere
    Fetcher <- NoFetchers
    Faults <- AllFaults
    Late <- OnePiece
    PowerCuts = TRUE
INVARIANTS
    TypeOK
    RecordBacked
    HeldIsReadable
    ScanAlone
