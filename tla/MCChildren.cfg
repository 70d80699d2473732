SPECIFICATION CFairSpec
CONSTANTS
    m1 = m1
    p1 = p1
    r1 = r1
    Msgs <- MCMsgs
    Repeats <- MCRepeats
    Prepared <- MCPrepared
    Number <- MCNumber
    NoSuchMessage = NoSuchMessage
    None = None
    QueueSize = 2
    HistorySize = 1
    MaxItems = 1
    MaxCalls = 2
INVARIANTS
    NoChildLeftBehind
PROPERTIES
    WorkerIsFair
    AcceptedIsHandled
    LampGoesDark
    ServesInOrderAndFairly
