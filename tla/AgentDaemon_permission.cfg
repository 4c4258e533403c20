SPECIFICATION FairSpec
CONSTANTS
    Sessions = {s1}
    Extra = {}
    Stops = {k1}
    Calls = {c1}
    Approvals = {a1}
    None = None
PROPERTY AskedIsAnswered
CHECK_DEADLOCK FALSE
