CONSTANTS
  NumCommands = 4
  Items = 2
  OldItems = 1
  PIPE_SIZE = 1
  Redirections <- SomeRedirections
  Backgrounds <- SomeBackgrounds
SPECIFICATION IpcFairSpec
INVARIANTS Wired AllDelivered
PROPERTIES Termination
