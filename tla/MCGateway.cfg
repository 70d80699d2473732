SPECIFICATION MCFairSpec
CONSTANTS
    post = post
    tool = tool
    ntfy = ntfy
    sound = sound
    home = home
    Msgs <- MCSources
    Repeats <- MCNothing
    Prepared <- MCSources
    Number <- MCNumber
    NoSuchMessage = NoSuchMessage
    None = None
    QueueSize = 2
    HistorySize = 1
    MaxItems = 1
    Calls <- MCCalls
    Ips <- MCIps
    IpOf <- MCIpOf
    Intervals = {1}
    PruneAbove = 1
    MaxClock = 1
    Via <- MCVia
    Kind <- MCKind
    MayFail <- MCMayFail
INVARIANTS
    GTypeOK
    AnswersAreKept
    OneCallPerInterval
    GoodCallsSpend
    AuditedAnyway
    ViewInStep
PROPERTIES
    CallsAreAnswered
