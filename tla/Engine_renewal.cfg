SPECIFICATION FairSpec
CONSTANTS
    c1 = c1
    c2 = c2
    c3 = c3
    honest = honest
    liar = liar
    none = none
    Conn <- TwoConns
    Dest <- OnlyHonest
    NoDest <- none
    Honest <- OnlyHonest
    Answering <- OnlyHonest
    NumPieces = 1
    BlockCount <- JustTwo
    EndgameBlocks = 1
    PipelineDepth = 2
    RequestStrikes = 2
    RequestTicks = 2
    SuspicionLimit = 2
    MaxPerDest = 2
    MaxPeers = 2
    Resumed <- FreshStart
    PriorityChoices <- AllNormal
    ModeChoices <- RarestOnly
    StorageFails = FALSE
PROPERTIES
    SlotReclaimed
\* The network may fall silent for good.
CHECK_DEADLOCK FALSE
