CONSTANTS
  MIN_ORDER = 2
  MAX_ORDER = 5
  Sizes <- MCSizes
  NULL = NULL
  Vars = {A, B, C}
SPECIFICATION Spec
INVARIANTS Tiling Coalesced ListsSorted SplitAssumption VarsOwnBlocks
PROPERTIES ImplementsBlockAllocator
SYMMETRY Symmetry
