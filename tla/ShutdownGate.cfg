SPECIFICATION FairSpec
CONSTANTS
    Guards = {g1, g2, g3}
    Drainers = {d1, d2, d3}
    Untimed = {d3}
    Stoppers = {s1}
    MaxActive = 2
INVARIANTS
    GracefulMeansIdle
    DrainIsOwned
    SuccessIsTrue
PROPERTIES
    OneWay
    StopIsAnnounced
    DrainReturns
CHECK_DEADLOCK FALSE
