\* Three heights against channels and a semaphore small enough to block.
CONSTANTS
    StartHeight = 1
    EndHeight = 3
    MaxParallelRequests = 2
    Workers = {w1, w2}
    NewBlockCap = 1
    WriterCap = 1
SPECIFICATION Spec
INVARIANTS TypeOK ExactlyOnce NilMeansAll NilMeansQuiet NoSendAfterClose
PROPERTIES Returns
CHECK_DEADLOCK FALSE
