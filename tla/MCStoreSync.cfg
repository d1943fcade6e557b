\* The two commands: the goroutine that applies and flushes, and main, which closes or dies.
CONSTANTS
    Threads = {w, m}
    Appliers = {w}
    Closers = {m}
    Jobs = {j1, j2}
    Blocks = {b1, b2, b3}
    BatchSize = 1
    MaxPending = 1
    MaxCrashes = 1
SPECIFICATION Spec
PROPERTIES Implements CloseReturns RotatedIsCommitted
CHECK_DEADLOCK FALSE
