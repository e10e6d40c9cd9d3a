SPECIFICATION FairSpec
CONSTANTS
    Rows = 1
    Cols = 2
    WinLength = 2
    WsHandlers = {w1}
    RestHandlers = {r1}
    Readers = {g1}
    SlowHandlers = FALSE
    MaxCrashes = 1
    MaxFailures = 0
    MaxLosses = 1
    Unlocked = Unlocked
    NoBoard = NoBoard
INVARIANT BoardIsLegal
PROPERTIES
    LockIsFreed
    FinishedGameIsRated
