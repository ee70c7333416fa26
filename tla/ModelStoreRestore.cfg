SPECIFICATION Spec
CONSTANTS
    Ops = {o1}
    Leases = {}
    LateIo = FALSE
    MaxCrashes = 0
INVARIANT
    PriorIsRestored
CHECK_DEADLOCK FALSE
