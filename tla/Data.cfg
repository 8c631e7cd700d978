SPECIFICATION DataSpec
CONSTANTS
    e1 = e1
    e2 = e2
    m1 = m1
    m2 = m2
    Token <- Tokens
    MaxTokens = 5
    MaxDepth = 3
    MinNodeBytes = 2
    IntMin <- Least
    IntMax = 299
    LenMax = 299
    Word = 2
    HashBytes = 2
    BlockLen = 4
    MaxMessageLen = 60
    MetadataPieceLen = 4
    MaxPexPeers = 2
    FrameSlack = 40
    InfoHash <- Hash3
    PeerId <- Id5
    Torrents <- AllTorrents
    Numbers <- Words
    Blobs <- ByteBlobs
    Payloads <- OurPayloads
    Known <- Destinations
    Hostile <- Strange
    MaxSent = 2
    MaxStrange = 1
    Path <- Paths
    Length <- Lengths
    Upper = 10
    PieceLength = 2
    MaxFiles = 3
    MaxTotal = 5
    MaxPieces = 2
    VerifyChunk = 1
    Depth = 3
    Hash <- Hashes
    Reference <- References
    HashLen = 4
    MinPrefix = 2
    MaxIndexDigits = 1
    MaxRefs = 2
    MaxClock = 2
    MaxChanges = 1
    Capacity = 2
    MaxBytes = 4
    Endpoint <- Endpoints
    DialId <- Dials
    Nowhere = Nowhere
    Backlog = 1
    Bodies <- HttpBodies
    StrangeHeads <- Heads
    StrangeBytes <- HttpBytes
    Semi = 59
    Crlf = 63
    Digits = {0, 1, 2, 3, 4}
    Numerals <- SizeNumerals
    MaxChunks = 2
    MaxHead = 3
    MaxLine = 2
    MaxTrailer = 1
    MaxBody = 2
    HttpDeadline = 2
    IoTimeout = 2
    ByteBits = 2
    PieceCounts = {2, 3}
    IntTop = 3
    CountTop = 5
    Version = 2
    InfoHashLen = 2
    MaxEdits = 3
    MaxDamage = 2
INVARIANTS
    CodecExact
    ConversationKept
    BytesInPlace
    WalkSafe
    CommandHonest
    CollapseComplete
    MessageHonest
    RecordsExact
CHECK_DEADLOCK FALSE
