CONSTANTS
  NUM_PHILS = 4
  ITERATION_LIMIT = 1
  Patient = FALSE
  Nobody = Nobody
SPECIFICATION FairSpec
INVARIANTS ChopstickInv NoLostWakeup
PROPERTIES Termination
