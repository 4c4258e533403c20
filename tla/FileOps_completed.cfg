SPECIFICATION OpsSpec
CONSTANTS
    f1 = f1
    f2 = f2
    f3 = f3
    n1 = n1
    n2 = n2
    Batch <- Three
    BaseName <- Shared
    Inside = {f3}
    Existing = {n1}
    MaxSuffix = 3
    Depth = 2
    Kinds = {"copy", "move"}
    Policies = {"skip", "overwrite", "rename"}
    Engines = {"sequential", "io_uring"}
    Absent = Absent
INVARIANT CompletedMeansCopied
CHECK_DEADLOCK FALSE
