SPECIFICATION FairSpec
CONSTANTS
    Uci <- MCUci
    Legal <- MCLegal
    MaxPly = 3
    Base = 1
    Increment = 1
    Lag = 1
    House <- HouseIsBlack
    SearchDepth = 3
    FinalizerMayFail = TRUE
    PublishMayFail = TRUE
    MoveFrame <- MCFrames
    MaxFrames = 2
CHECK_DEADLOCK FALSE
INVARIANT
    SnapshotIsNearby
PROPERTY
    LaunchedGameCloses
