SPECIFICATION LiveSpec
CONSTANTS
    Requests = {r1, r2}
    NoRequest = NoRequest
    Cap <- CapOne
    Procs = {p1, p2, p3, p4}
    Calls = {c1}
    Cancels = {x1}
    NoProc = NoProc
    NoCall = NoCall
INVARIANTS OneWorkerPerKind ServingChildIsReachable
PROPERTIES
    ImplementsService AdmittedIsAnswered OverdueRunIsEscaped
    DeadChildIsRestarted EveryCallReturns
CHECK_DEADLOCK FALSE
