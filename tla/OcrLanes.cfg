SPECIFICATION FairSpec
CONSTANTS
    Runs = {r1, r2}
    Lanes = {a}
INVARIANTS
    LanesConserved
    MonitorInsideRun
    TerminatedIsReported
PROPERTIES
    OutputIsWanted
    StoppedRunReturns
CHECK_DEADLOCK FALSE
