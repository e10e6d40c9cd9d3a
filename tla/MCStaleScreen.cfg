SPECIFICATION Spec
CONSTANTS
    s1 = s1
    t1 = t1
    s2 = s2
    Sockets = {s1, s2}
    Owner <- Pair
    GameLength = 2
    MaxAttempts = 1
    Earlier <- SecondOnce
    MaxClicks <- OneEach
    MaxMishaps = 0
    NoSocket = NoSocket
INVARIANTS SomebodyMayMove
CHECK_DEADLOCK FALSE
