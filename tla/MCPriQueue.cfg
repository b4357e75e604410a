CONSTANTS
  a1 = a1
  b1 = b1
  c2 = c2
  Elements <- MCElements
  compare <- MCcompare
  INITIAL_SIZE = 2
  NULL = NULL
  Garbage = Garbage
  MaxCount = 4
  MaxStart = 6
SPECIFICATION Spec
PROPERTIES ImplementsSortedQueue
