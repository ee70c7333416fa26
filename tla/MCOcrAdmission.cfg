SPECIFICATION Spec
CONSTANTS
    Requests = {r1, r2, r3}
    Drainers = {d1}
    Untimed = {}
    MaxConcurrent = 1
    QueueCapacity = 1
    MaxItems = 1
SYMMETRY Interchangeable
INVARIANTS
    AdmittedOnce
    GracefulMeansReleased
    GaugeWithinPermits
PROPERTY
    ImplementsQueue
CHECK_DEADLOCK FALSE
