CONSTANTS
  Pids <- MCPids
  Scripts <- MCScripts
  MaxScripts = 3
  ForkMayFail = FALSE
  Garbage = NoJob
SPECIFICATION Spec
INVARIANT KillReachesOnlyTheJob
