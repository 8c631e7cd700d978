SPECIFICATION ProcessSpec
CONSTANTS
    c1 = c1
    c2 = c2
    t1 = t1
    t2 = t2
    d1 = d1
    p1 = p1
    p2 = p2
    u1 = u1
    u2 = u2
    k1 = k1
    k2 = k2
    e1 = e1
    e2 = e2
    m1 = m1
    m2 = m2
    Conn <- Conns
    Torrent <- Torrents
    Dest <- Dests
    Nobody = Nobody
    BudgetLimit = 1
    MaxPeers = 1
    MaxPerDest = 1
    MaxPending = 2
    DialConcurrency = 1
    NoToken = NoToken
    Process <- Processes
    Client <- Clients
    Token <- Tokens
    MaxHandlers = 1
    SandboxRequired = TRUE
    MaxPeer = 3
    Honest = {3}
    TrueSize = 2
    MaxSize = 3
    Allowance = 2
    GreetingFrames = 2
    Slack = 2
    ExtraFrames = 1
    MaxAnswer = 3
    Capacity = 2
    MaxBytes = 4
    Endpoint <- Endpoints
    DialId <- Dials
    Nowhere = Nowhere
    Backlog = 1
INVARIANTS
    SeatsExact
    DaemonSafe
    FetchSafe
PROPERTIES
    SlotsImplementBudget
    StopSettles
    Answered
    FetchProgress
    PipeHonest
CHECK_DEADLOCK FALSE
