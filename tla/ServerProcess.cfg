SPECIFICATION ProcessSpec
CONSTANTS
    Network = {http, grpc}
    Stdio = {stdio}
    Requests = {q1}
    Probes = {p1}
    Warmers = {w1}
    Timeout = 1
INVARIANTS
    OutcomeIsFinal
    ReadyMeansServing
    ShutdownIsBounded
PROPERTY
    StopEnds
CHECK_DEADLOCK FALSE
