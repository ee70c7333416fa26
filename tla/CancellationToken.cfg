SPECIFICATION Spec
CONSTANTS
    Cancellers = {c1, c2}
    Waiters = {w1, w2, w3}
PROPERTY
    ImplementsLatch
CHECK_DEADLOCK FALSE
