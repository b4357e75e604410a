CONSTANTS
  NUM_PHILS = 3
  ITERATION_LIMIT = 2
  Patient = TRUE
  Asymmetric = FALSE
  Nobody = Nobody
SPECIFICATION FairSpec
PROPERTIES ReleaseLetsExit
CHECK_DEADLOCK FALSE
