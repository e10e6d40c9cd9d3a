SPECIFICATION Spec
CONSTANTS
    Rows = 2
    Cols = 2
    WinLength = 2
    WsHandlers = {w1, w2, w3}
    RestHandlers = {}
    Readers = {}
    SlowHandlers = FALSE
    MaxCrashes = 1
    MaxFailures = 1
    MaxLosses = 0
    Unlocked = Unlocked
    NoBoard = NoBoard
SYMMETRY HandlerSymmetry
INVARIANTS
    TypeOK
    MutualExclusion
    BoardIsLegal
    RecordsReplayByNumber
    EveryPieceAccountedFor
    ResultIsRecordedOnce
PROPERTIES
    NoLostMove
    ImplementsRules
