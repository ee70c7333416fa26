SPECIFICATION Spec
CONSTANTS
    Ops = {o1, o2}
    Leases = {l1, l2}
    LateIo = TRUE
    MaxCrashes = 1
SYMMETRY Interchangeable
INVARIANTS
    LeasedIsGood
    SuccessIsReal
    OneWriter
PROPERTIES
    ForeignIsKept
    AppearsComplete
CHECK_DEADLOCK FALSE
