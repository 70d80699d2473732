SPECIFICATION NFairSpec
CONSTANTS
    Values <- MCValues
    IntOf <- MCIntOf
    FloatOf <- MCFloatOf
    Voices <- MCVoices
    On <- MCOn
    Lines <- MCLines
    MaxContent = 4
    MaxRepeat = 10
    MaxBackoff = 6
    MaxLines = 2
    Unreadable = Unreadable
    NaN = NaN
    None = None
INVARIANTS
    NTypeOK
    SubmittedAsAsked
PROPERTIES
    KeepsListening
    LinesAreHandled
