SPECIFICATION FairSpec
CONSTANTS
    p1 = p1
    p2 = p2
    p3 = p3
    NoPlayer = NoPlayer
    Players <- Three
    Creators <- One
    MaxGames = 2
    MaxFaults = 1
INVARIANTS
    TypeOK
    SeatIsRecorded
    BoardBeforeRow
    OneJoinerUnlessRaced
PROPERTIES
    OnlyRacesUndoJoins
    CreatorArrives
CHECK_DEADLOCK FALSE
