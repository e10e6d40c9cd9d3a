SPECIFICATION Spec
CONSTANTS
    Rows = 4
    Cols = 4
    WinLength = 3
INVARIANTS
    TypeOK
    WinningCellsAreALine
    AlwaysPlayable
PROPERTY ImplementsRules
CHECK_DEADLOCK FALSE
