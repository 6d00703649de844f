SPECIFICATION FairSpec
CONSTANTS
    Conn <- WhiteTwice
    Owner <- WhiteTwiceOwner
    First <- MCFirst
    Rotates <- WhiteBot
    MaxPly = 1
CHECK_DEADLOCK FALSE
PROPERTIES
    HandshakesEnd
    GamesClose
