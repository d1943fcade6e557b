CONSTANTS
    Threads = {m}
    Appliers = {m}
    Closers = {m}
    Jobs = {j1, j2, j3}
    Blocks = {b1, b2, b3}
    BatchSize = 2
    MaxPending = 1
    MaxCrashes = 0
SPECIFICATION Spec
INVARIANT CloseFlushes
CHECK_DEADLOCK FALSE
