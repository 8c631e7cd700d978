SPECIFICATION NetworkSpec
CONSTANTS
    x1 = x1
    x2 = x2
    x3 = x3
    s1 = s1
    s2 = s2
    k1 = k1
    k2 = k2
    n1 = n1
    n2 = n2
    n3 = n3
    a1 = a1
    a2 = a2
    MaxPeerId = 3
    MaxUnchoked = 1
    MaxRate = 1
    RoundWrap = 6
    Address <- Addresses
    MaxKnown = 2
    MaxPex = 1
    Backoff = 1
    MaxBackoff = 3
    ShiftCap = 2
    MaxCount = 4
    Private = FALSE
    NumUrls = 1
    Interval = {0, 2, 9}
    MinInterval = 1
    MaxInterval = 3
    FailBase = 1
    FailShift = 1
    MaxFailWait = 2
    MaxFailures = 3
    SessionId <- Sessions
    Key <- Keys
    NoKey = NoKey
    NoSession = NoSession
    MaxFaults = 2
    MaxFails = 3
    InitialDelay = 1
    MaxDelay = 3
    DelayBits = 2
    Ephemeral = FALSE
    Name <- Names
    Asker <- Askers
    MaxEntries = 2
    NegativeInitial = 1
    NegativeMax = 2
    NegativeShift = 1
    LookupTicks = 1
    MaxMisses = 2
INVARIANTS
    NetworkTypeOK
PROPERTIES
    SlotsShared
    TableWithstands
    TrackerSpared
    AnnounceProgress
    SessionKept
    ReconnectsThere
    AnswersKept
