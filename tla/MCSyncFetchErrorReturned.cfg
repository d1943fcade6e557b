CONSTANTS
    StartHeight = 1
    EndHeight = 1
    MaxParallelRequests = 2
    Workers = {w1, w2}
    NewBlockCap = 1
    WriterCap = 1
SPECIFICATION Spec
PROPERTY FetchErrorReturned
CHECK_DEADLOCK FALSE
