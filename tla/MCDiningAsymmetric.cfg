CONSTANTS
  NUM_PHILS = 3
  ITERATION_LIMIT = 2
  Patient = FALSE
  Asymmetric = TRUE
  Nobody = Nobody
SPECIFICATION FairSpec
INVARIANTS TypeOK Exclusion NoCircularWait
PROPERTIES Termination
