SPECIFICATION RSpec
CONSTANTS
    word = word
    stop = stop
    blank = blank
    step = step
    stepTwice = stepTwice
    siren = siren
    Step = Step
    Siren = Siren
    Words <- MCWords
    Stops <- MCStops
    Blanks <- MCBlanks
    Tags <- MCTags
    NameOf <- MCNameOf
    CountOf <- MCCountOf
    MaxEffects = 2
    MaxSpoken = 8
    MaxRepeat = 3
    MaxLen = 4
INVARIANTS
    SkippedNotFailed
CHECK_DEADLOCK FALSE
