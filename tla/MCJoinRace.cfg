SPECIFICATION Spec
CONSTANTS
    p1 = p1
    p2 = p2
    p3 = p3
    NoPlayer = NoPlayer
    Players <- Three
    Creators <- One
    MaxGames = 2
    MaxFaults = 0
INVARIANTS
    JoinedOnce
CHECK_DEADLOCK FALSE
