SPECIFICATION Spec
CONSTANTS
    Conn <- WhiteThrice
    Owner <- WhiteThriceOwner
    First <- MCFirst
    Rotates <- Nobody
    MaxPly = 1
CHECK_DEADLOCK FALSE
INVARIANTS
    AbandonmentIsNoticed
    ConnectedBotsAreRegistered
    TurnIsKnown
    OutcomeIsKnown
PROPERTIES
    SeatGoesToTheNewest
    AbortNeedsBothGone
