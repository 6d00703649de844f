SPECIFICATION Spec
CONSTANTS
    Bot <- MCBot
    Rating <- MCRating
    User <- MCUser
    OwnerOf <- OwnersABC
    NoOwner = "nobody"
    Start = 1
    Step = 1
    StepTime = 1
    Uncap = 2
    TTL = 3
    GreeterWait = 1
    Greeted = FALSE
    Cancels <- BotA
    Challenges <- BotA
    Drops <- BotA
    Polite = FALSE
    House = "house"
    MaxTime = 4
    MaxSeeks = 3
    MaxGames = 2
    MaxSess = 2
CHECK_DEADLOCK FALSE
INVARIANTS
    OwnersNeverMeet
    ActiveGameIsPlayed
PROPERTY
    NobodyIsLeftUnpaired
