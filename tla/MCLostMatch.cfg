SPECIFICATION FairSpec
CONSTANTS
    p1 = p1
    p2 = p2
    Players = {p1, p2}
    Elo <- Pair
    Band = 200
    MaxClicks <- OneEach
    MaxEvents = 0
    NoPlayer = NoPlayer
PROPERTIES OpponentArrives
CHECK_DEADLOCK FALSE
