SPECIFICATION LSpec
CONSTANTS
    a = a
    b = b
    c = c
    c1 = c1
    c2 = c2
    c3 = c3
    c4 = c4
    c5 = c5
    Ips <- MCIps
    Calls <- MCCalls
    IpOf <- MCIpOf
    Intervals = {0, 2}
    PruneAbove = 1
    MaxClock = 4
INVARIANTS
    Spaced
    LimitedForCause
CHECK_DEADLOCK FALSE
