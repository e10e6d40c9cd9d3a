SPECIFICATION FairSpec
CONSTANTS
    g1 = g1
    g2 = g2
    g3 = g3
    Players = {1, 2, 3}
    Games = {g1, g2, g3}
    Seats <- Pairs
    Results <- Ends
    Initial <- Low
    MaxFailures = 1
    MaxCrashes = 1
    Nobody = Nobody
INVARIANTS TypeOK RatingsAreSerial StatsMatchLedger StreakIsTheLatestRun
PROPERTIES TransactionsEnd
CHECK_DEADLOCK FALSE
