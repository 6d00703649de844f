SPECIFICATION FairSpec
CONSTANTS
    Bot <- MCBot
    Rating <- MCRating
    User <- MCUser
    OwnerOf <- OwnersApart
    NoOwner = "nobody"
    Start = 1
    Step = 1
    StepTime = 1
    Uncap = 2
    TTL = 3
    GreeterWait = 1
    Greeted = TRUE
    Cancels <- NoBot
    Challenges <- NoBot
    Drops <- NoBot
    Polite = TRUE
    House = "house"
    MaxTime = 4
    MaxSeeks = 5
    MaxGames = 5
    MaxSess = 1
CHECK_DEADLOCK FALSE
INVARIANTS
    RunningGameIsActive
    SeekHasOneOutcome
    PoolMatchesIndex
PROPERTY
    EverySeekEnds
