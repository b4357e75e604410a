CONSTANTS
  INIT_SIZE = 2
  POOLS = 2
  ELEM_SIZE = 2
  Sizes = {1, 3, 9}
  Elems = {a, b}
  MaxRequests = 4
  MaxLen = 4
  Garbage = Garbage
SPECIFICATION FairSpec
INVARIANTS ListIntact
PROPERTIES ImplementsArena AllocEnds
