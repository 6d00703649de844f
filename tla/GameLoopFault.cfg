SPECIFICATION FairSpec
CONSTANTS
    Uci <- MCUci
    Legal <- MCLegal
    MaxPly = 1
    Base = 1
    Increment = 1
    Lag = 1
    House <- HouseIsBlack
    SearchDepth = 0
    FinalizerMayFail = TRUE
    PublishMayFail = TRUE
    MoveFrame <- MCFrames
    MaxFrames = 0
CHECK_DEADLOCK FALSE
PROPERTIES
    FaultsAbort
