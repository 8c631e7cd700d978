SPECIFICATION Spec
CONSTANTS
    c1 = c1
    c2 = c2
    c3 = c3
    honest = honest
    liar = liar
    none = none
    Conn <- TwoConns
    Dest <- OnlyHonest
    NoDest <- none
    Honest <- OnlyHonest
    Answering <- OnlyHonest
    NumPieces = 2
    BlockCount <- TwoOne
    EndgameBlocks = 1
    PipelineDepth = 2
    RequestStrikes = 2
    RequestTicks = 1
    SuspicionLimit = 2
    MaxPerDest = 2
    MaxPeers = 2
    Resumed <- FreshStart
    PriorityChoices <- SkipOrHurry
    ModeChoices <- Mode
    StorageFails = TRUE
SYMMETRY ConnSymmetry
INVARIANTS
    RequestsAccounted
    CountsExact
\* The network may fall silent for good.
CHECK_DEADLOCK FALSE
