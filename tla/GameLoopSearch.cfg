SPECIFICATION Spec
CONSTANTS
    Uci <- MCUci
    Legal <- MCLegal
    MaxPly = 3
    Base = 1
    Increment = 1
    Lag = 1
    House <- HouseIsBoth
    SearchDepth = 3
    FinalizerMayFail = TRUE
    PublishMayFail = TRUE
    MoveFrame <- MCFrames
    MaxFrames = 0
CHECK_DEADLOCK FALSE
INVARIANTS
    WaitingSnapshotIsConsistent
