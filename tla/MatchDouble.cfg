SPECIFICATION Spec
CONSTANTS
    Bot <- MCBot
    Rating <- MCRating
    User <- MCUser
    OwnerOf <- OwnersApart
    NoOwner = "nobody"
    Start = 1
    Step = 1
    StepTime = 1
    Uncap = 2
    TTL = 3
    GreeterWait = 1
    Greeted = FALSE
    Cancels <- NoBot
    Challenges <- BotAC
    Drops <- NoBot
    Polite = TRUE
    House = "house"
    MaxTime = 4
    MaxSeeks = 4
    MaxGames = 3
    MaxSess = 1
CHECK_DEADLOCK FALSE
INVARIANT
    OneGameAtATime
