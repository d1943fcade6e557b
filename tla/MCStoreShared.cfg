\* Two callers that both apply and flush; one closes: the store's own thread safety.
CONSTANTS
    Threads = {w, m}
    Appliers = {w, m}
    Closers = {m}
    Jobs = {j1, j2, j3}
    Blocks = {b1, b2, b3, b4, b5}
    BatchSize = 1
    MaxPending = 1
    MaxCrashes = 0
SPECIFICATION Spec
SYMMETRY Symmetry
INVARIANTS TypeOK OnePlace Accounting PanicOnlyIfOvertaken BatchBound PendingBound
PROPERTIES Implements
CHECK_DEADLOCK FALSE
