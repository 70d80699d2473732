SPECIFICATION MCSpec
CONSTANTS
    post = post
    tool = tool
    ntfy = ntfy
    sound = sound
    home = home
    Msgs <- MCTexts
    Repeats <- MCNothing
    Prepared <- MCTexts
    Number <- MCNumber
    NoSuchMessage = NoSuchMessage
    None = None
    QueueSize = 1
    HistorySize = 1
    MaxItems = 1
    Calls <- MCPublishing
    Ips <- MCIps
    IpOf <- MCIpOf
    Intervals = {1}
    PruneAbove = 1
    MaxClock = 1
    Via <- MCVia
    Kind <- MCKind
    MayFail <- MCMayFail
INVARIANTS
    TruthfulReply
