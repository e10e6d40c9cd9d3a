SPECIFICATION FairSpec
CONSTANTS
    s1 = s1
    s2 = s2
    Sockets = {s1, s2}
    Owner <- Pair
    GameLength = 3
    MaxVotes = 2
    MaxFaults = 2
    Nothing = Nothing
INVARIANTS TypeOK RematchTakesBothVotes GamesAreRecordedApart LastOneOutClears
PROPERTIES BrokenIsUnlisted
CHECK_DEADLOCK FALSE
