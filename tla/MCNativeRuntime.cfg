SPECIFICATION Spec
CONSTANTS
    p1 = p1
    p2 = p2
    lib1 = lib1
    lib2 = lib2
    Processes = {p1, p2}
    Libraries = {lib1, lib2}
    Pids = {x, y}
    Loads <- MCLoads
    ProcessOf <- MCProcessOf
    LibraryOf <- MCLibraryOf
    MaxLoads = 2
    MaxCrashes = 1
SYMMETRY Interchangeable
INVARIANTS
    OneRuntime
    FailureIsExplained
PROPERTY
    PublishedIsVerified
CHECK_DEADLOCK FALSE
