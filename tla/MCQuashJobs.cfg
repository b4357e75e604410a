CONSTANTS
  Pids <- MCPids
  Scripts <- MCScripts
  MaxScripts = 3
  ForkMayFail = TRUE
  Garbage = NoJob
SPECIFICATION FairSpec
INVARIANTS JobsInOrder NoChildLost
PROPERTIES ForegroundReturns
