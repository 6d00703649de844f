SPECIFICATION Spec
CONSTANTS
    Ratings <- TheRatings
    Bots <- TheBots
    Owned = {1, 3}
    Games <- TheGames
    White <- TheWhite
    Black <- TheBlack
    MayAbort = {"B", "C"}
    Seed = 12
    ProvisionalK = 4
    DefaultK = 2
    ProvisionalGames = 1
    Updated <- Shift
    MaxRotations = 1
INVARIANTS RatingsChain OnlyAbortsDeadlock
CHECK_DEADLOCK FALSE
