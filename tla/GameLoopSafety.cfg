SPECIFICATION Spec
CONSTANTS
    Uci <- MCUci
    Legal <- MCLegal
    MaxPly = 3
    Base = 1
    Increment = 0
    Lag = 1
    House <- NoHouse
    SearchDepth = 0
    FinalizerMayFail = TRUE
    PublishMayFail = TRUE
    MoveFrame <- MCFrames
    MaxFrames = 3
CHECK_DEADLOCK FALSE
INVARIANTS
    TypeOK
    AckedMovesStand
    ForfeitIsDeserved
    AgreementNeedsLiveOffer
    SurfacedOfferStands
    OverrunIsBounded
    TimeoutIsDeserved
PROPERTY
    LifecycleSpec
