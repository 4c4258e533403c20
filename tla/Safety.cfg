SPECIFICATION SafetySpec
CONSTANTS
    Ids = {i1, i2}
    Dispatches = {r1, r2, r3, r4}
    EpochModulus = 2
    NoId = NoId
    NoDispatch = NoDispatch
    Requests = {r1, r2, r3}
    Cap <- CapOne
    NoRequest = NoRequest
    Runs = {r1, r2, r3}
    NoRun = NoRun
    PluginRequests = {q1, q2}
    Oversized = {q2}
    MaxWaiting = 2
    MaxAttempts = 2
    MaxHostCalls = 1
    Commands = {r1, r2, r3}
    Pools = {"app", "user"}
    PoolCap = 1
    MaxSeconds = 1
    NoInode = NoInode
SYMMETRY Symmetry
INVARIANTS
    MappingOwnedByLiveGuard LiveGuardIsMapped AckedCancelIsHonoured
    RequestInOnePlace OvertakenAtMostOnce OneEscapePerRun
    OnlyTheTargetIsAborted
    NoChildLeaks
    StackIsAsReported PoolsAreCapped
PROPERTIES ImplementsCalls
CHECK_DEADLOCK FALSE
