CONSTANTS
    g = g
    a1 = a1
    a2 = a2
    a3 = a3
    a4 = a4
    b2 = b2
    b3 = b3
    b4 = b4
    NoBlock = NoBlock
    Blocks <- MCBlocks
    Parent <- MCParent
    HeightOf <- MCHeightOf
    Genesis = g
    FirstBest = a1
    MaxHeight = 4
    SyncStartHeight = 0
    WriterCap = 2
    BatchSize = 1
    Commands <- RunOnly
    MaxStops = 0
SPECIFICATION Spec
INVARIANT FollowsReorgs
CHECK_DEADLOCK FALSE
