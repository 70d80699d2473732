SPECIFICATION Spec
CONSTANTS
    m1 = m1
    m2 = m2
    p1 = p1
    r1 = r1
    Msgs <- MCMsgs
    Repeats <- MCRepeats
    Prepared <- MCPrepared
    Number <- MCNumber
    NoSuchMessage = NoSuchMessage
    None = None
    QueueSize = 2
    HistorySize = 1
    MaxItems = 2
INVARIANTS
    TypeOK
    JoinBalanced
    Custody
    QueueBounded
    LampFollowsPlayback
    PreparedStaysSilent
    MutedSilence
    ReplayFollowsOriginal
PROPERTIES
    ServesInOrder
