CONSTANTS
  Jobs <- MCJobs
  NumJobs = 4
  g_total_cores = 2
  Lines <- MCLines
  RunTimes = {1, 2, 3}
  Priorities = {0, 1}
  Quanta = {1, 2}
  NULL = NULL
SPECIFICATION FairSpec
INVARIANTS TypeOK CoresInv QueueInOrder ImportantFirst SameCores RemainingTime Accounting FirstComeFirst
PROPERTIES ImplementsScheduler Termination
