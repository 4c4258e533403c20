SPECIFICATION FairProcSpec
CONSTANTS
  PluginRequests = {r1, r2}
  Oversized = {r2}
  MaxWaiting = 1
  MaxAttempts = 1
  MaxHostCalls = 1
PROPERTIES ShutdownReturns LostChildIsReplaced EveryRequestIsAnswered
CHECK_DEADLOCK FALSE
