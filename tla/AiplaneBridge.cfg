SPECIFICATION FairBridgeSpec
CONSTANTS
    Requests = {r1, r2}
    NoRequest = NoRequest
    Classes = {"Interactive", "Batch"}
    Cap <- CapOne
INVARIANTS EntriesFollowTheTask AckedCancelIsHonoured ReplyMatchesRun
PROPERTY EveryCallIsReplied
CHECK_DEADLOCK FALSE
