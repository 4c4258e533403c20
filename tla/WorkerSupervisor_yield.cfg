SPECIFICATION SupSpec
CONSTANTS
    Procs = {p1, p2, p3, p4}
    Calls = {c1}
    Cancels = {x1}
    NoProc = NoProc
    NoCall = NoCall
PROPERTIES
    CancelOkMeansYielded
CHECK_DEADLOCK FALSE
