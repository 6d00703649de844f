SPECIFICATION Spec
CONSTANTS
    Ratings <- TheRatings
    Bots <- TheBots
    Owned = {}
    Games <- TheGames
    White <- TheWhite
    Black <- TheBlack
    MayAbort = {"B"}
    Seed = 12
    ProvisionalK = 4
    DefaultK = 2
    ProvisionalGames = 1
    Updated <- Shift
    MaxRotations = 1
INVARIANTS SamePairNeverDeadlocks
CHECK_DEADLOCK FALSE
