SPECIFICATION StackSpec
CONSTANTS
    Commands = {c1, c2, c3}
    Pools = {"user"}
    PoolCap = 2
    MaxSeconds = 0
    NoInode = NoInode
INVARIANT SavedIsWhole
CHECK_DEADLOCK FALSE
