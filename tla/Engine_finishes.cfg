SPECIFICATION AnsweringSpec
CONSTANTS
    c1 = c1
    c2 = c2
    c3 = c3
    honest = honest
    liar = liar
    none = none
    Conn <- TwoConns
    Dest <- BothDests
    NoDest <- none
    Honest <- BothDests
    Answering <- OnlyHonest
    NumPieces = 1
    BlockCount <- JustTwo
    EndgameBlocks = 0
    PipelineDepth = 2
    RequestStrikes = 2
    RequestTicks = 1
    SuspicionLimit = 2
    MaxPerDest = 1
    MaxPeers = 2
    Resumed <- FreshStart
    PriorityChoices <- AllNormal
    ModeChoices <- RarestOnly
    StorageFails = FALSE
PROPERTIES
    Finishes
    SlotReclaimed
\* The network may fall silent for good.
CHECK_DEADLOCK FALSE
