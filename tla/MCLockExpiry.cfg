SPECIFICATION Spec
CONSTANTS
    Rows = 2
    Cols = 2
    WinLength = 2
    WsHandlers = {w1}
    RestHandlers = {r1}
    Readers = {}
    SlowHandlers = TRUE
    MaxCrashes = 0
    MaxFailures = 0
    MaxLosses = 0
    Unlocked = Unlocked
    NoBoard = NoBoard
PROPERTY NoLostMove
