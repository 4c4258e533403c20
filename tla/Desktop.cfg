SPECIFICATION DesktopSpec
CONSTANTS
    f1 = f1
    f2 = f2
    f3 = f3
    n1 = n1
    n2 = n2
    h1 = h1
    h2 = h2
    h3 = h3
    p1 = p1
    p2 = p2
    Batch <- Three
    BaseName <- Shared
    Inside = {f3}
    Existing = {n1}
    MaxSuffix = 3
    Depth = 2
    Kinds = {"copy", "move"}
    Policies = {"skip", "overwrite", "rename"}
    Engines = {"sequential", "io_uring"}
    Absent = Absent
    Quit = Quit
    Hovers = {h1, h2, h3}
    Plugins = {p1, p2}
    Target <- TwoPlugins
    Hung = {}
    Cookies = {c1, c2}
    MaxPrompts = 2
    MaxEvents = 2
    NoCookie = NoCookie
    k1 = k1
    k2 = k2
    Files = {k1, k2}
    Chunks <- OneAndTwo
    UpsertBatch = 2
    MaxEdits = 2
    MaxOps = 2
    MaxFaults = 2
    None = None
INVARIANTS
    NoPartialLeft CopyKeepsWhatWasThere FailedIsEvicted AnswerReachesItsPrompt
     
PROPERTIES OpEnds 
CHECK_DEADLOCK FALSE
