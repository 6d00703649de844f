SPECIFICATION HouseSpec
CONSTANTS
    N = 3
    MaxEnds = 5
    Clients <- Residents
INVARIANT StopLeavesNothing
PROPERTIES LobbyRefills DeadClientsReturn
CHECK_DEADLOCK FALSE
