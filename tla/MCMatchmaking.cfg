SPECIFICATION FairSpec
CONSTANTS
    p1 = p1
    p2 = p2
    Players = {p1, p2}
    Elo <- Pair
    Band = 200
    MaxClicks <- ThreeOne
    MaxEvents = 1
    NoPlayer = NoPlayer
INVARIANTS TypeOK 
PROPERTIES StaysInItsGame ButtonComesBack
CHECK_DEADLOCK FALSE
