SPECIFICATION FairSpec
CONSTANTS
    Bot <- MCBot
    NoBot = NoBot
    TargetSize = 3
    Played <- DrawOrNobody
    Drops <- BotA
    MayFail = TRUE
    MaxStarts = 2
    MaxLeaves = 1
    MaxRestarts = 1
CHECK_DEADLOCK FALSE
INVARIANTS
    EveryoneMeetsOnce
    OnePairingAtATime
    StandingsMatchResults
PROPERTY
    EventEnds
