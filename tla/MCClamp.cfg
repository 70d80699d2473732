SPECIFICATION NSpec
CONSTANTS
    Values <- MCValues
    IntOf <- MCIntOf
    FloatOf <- MCFloatOf
    Voices <- MCVoices
    On <- MCOn
    Lines <- MCLines
    MaxContent = 4
    MaxRepeat = 10
    MaxBackoff = 6
    MaxLines = 1
    Unreadable = Unreadable
    NaN = NaN
    None = None
INVARIANTS
    KnobsInRange
