SPECIFICATION ProcSpec
CONSTANTS
  PluginRequests = {r1, r2}
  Oversized = {}
  MaxWaiting = 2
  MaxAttempts = 1
  MaxHostCalls = 0
INVARIANT TableIsOfThisChild
CHECK_DEADLOCK FALSE
