SPECIFICATION Spec
CONSTANTS
    p1 = p1
    p2 = p2
    f1 = f1
    f2 = f2
    Piece <- TwoPieces
    Needed <- TwoPieces
    Found0 <- NothingThere
    Fetcher <- NoFetchers
    Faults <- NoFaults
    Late <- NoPieces
    PowerCuts = FALSE
INVARIANTS
    RecordReadable
