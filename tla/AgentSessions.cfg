SPECIFICATION SessionsSpec
CONSTANTS
    Sessions = {s1, s2}
    Extra = {p1}
    Stops = {k1}
    Calls = {c1, c2}
    Approvals = {a1, a2}
    None = None
    Tails = {t1}
    Depth = 2
    WireRoom = 1
    MaxEntries = 4
    MaxStatus = 1
    Unmarked = Unmarked
INVARIANTS OkMeansAllowed ApprovalIsAudited IndexMatchesSessions
PROPERTIES ImplementsConsent ImplementsLog PromptsAndStopsReturn TailEnds
CHECK_DEADLOCK FALSE
