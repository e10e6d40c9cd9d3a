SPECIFICATION FairSpec
CONSTANTS
    s1 = s1
    t1 = t1
    s2 = s2
    Sockets = {s1, t1, s2}
    Owner <- Three
    GameLength = 2
    MaxAttempts = 1
    Earlier <- SecondOnce
    MaxClicks <- OneEach
    MaxMishaps = 1
    NoSocket = NoSocket
INVARIANTS TypeOK SettledPagesAgree
PROPERTIES KeepsItsConnection CatchesUp
CHECK_DEADLOCK FALSE
