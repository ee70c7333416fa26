SPECIFICATION FairSpec
CONSTANTS
    Requests = {r1, r2}
    Drainers = {d1}
    Untimed = {d1}
    MaxConcurrent = 1
    QueueCapacity = 1
    MaxItems = 2
INVARIANT
    CountedOnce
PROPERTIES
    LateRequestsEnd
    DrainSucceeds
CHECK_DEADLOCK FALSE
