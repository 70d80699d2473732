SPECIFICATION AFairSpec
CONSTANTS
    k1 = k1
    k2 = k2
    Keys <- MCKeys
    SizeOf <- MCSizeOf
    None = None
    MaxBytes = 2
    Ttl = 1
    SweepInterval = 1
    MaxTime = 2
INVARIANTS
    ATypeOK
    ServedWhole
    SweepFits
    OldestGoFirst
PROPERTIES
    RequestsEnd
