SPECIFICATION FairSpec
CONSTANTS
    Conn <- WhiteFour
    Owner <- WhiteFourOwner
    First <- MCFirst
    Rotates <- Nobody
    MaxPly = 1
CHECK_DEADLOCK FALSE
PROPERTY
    SeatNeverGoesBack
