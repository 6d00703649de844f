SPECIFICATION FairSpec
CONSTANTS
    Uci = {"a"}
    Me = 0
    MaxPly = 3
    MaxGames = 2
    MaxConns = 3
    MaxResends = 1
    ReconnectAttempts = 2
    Loop = TRUE
    Restarted = TRUE
INVARIANTS ChosenMovesArePlayed HooksTellTheTruth
PROPERTY ClientLeaves
CHECK_DEADLOCK FALSE
