SPECIFICATION Spec
CONSTANTS
    m1 = m1
    m2 = m2
    p1 = p1
    r1 = r1
    Msgs <- MCOneMsg
    Repeats <- MCRepeats
    Prepared <- MCNothing
    Number <- MCNumber
    NoSuchMessage = NoSuchMessage
    None = None
    QueueSize = 1
    HistorySize = 1
    MaxItems = 1
INVARIANTS
    HistoryWasHeard
