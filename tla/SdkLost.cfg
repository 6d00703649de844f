SPECIFICATION Spec
CONSTANTS
    Uci = {"a", "b"}
    Me = 0
    MaxPly = 3
    MaxGames = 2
    MaxConns = 3
    MaxResends = 1
    ReconnectAttempts = 2
    Loop = TRUE
    Restarted = TRUE
INVARIANT HooksNameTheirGame
CHECK_DEADLOCK FALSE
