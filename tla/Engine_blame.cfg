SPECIFICATION Spec
CONSTANTS
    c1 = c1
    c2 = c2
    c3 = c3
    honest = honest
    liar = liar
    none = none
    Conn <- ThreeConns
    Dest <- BothDests
    NoDest <- none
    Honest <- OnlyHonest
    Answering <- OnlyHonest
    NumPieces = 1
    BlockCount <- JustTwo
    EndgameBlocks = 2
    PipelineDepth = 2
    RequestStrikes = 2
    RequestTicks = 1
    SuspicionLimit = 2
    MaxPerDest = 1
    MaxPeers = 2
    Resumed <- FreshStart
    PriorityChoices <- AllNormal
    ModeChoices <- RarestOnly
    StorageFails = TRUE
SYMMETRY ConnSymmetry
INVARIANTS
    TypeOK
    PromisesGood
    SuppliersExact
    BannedLeaving
PROPERTIES
    HonestNotSolelyBlamed
\* The network may fall silent for good.
CHECK_DEADLOCK FALSE
