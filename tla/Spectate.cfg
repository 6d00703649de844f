SPECIFICATION Spec
CONSTANTS
    Watchers = {w1}
    MaxPly = 3
    MaxStreams = 2
    MaxLosses = 1
INVARIANTS NothingMissed LookupsFind
PROPERTY StreamsEnd
CHECK_DEADLOCK FALSE
