CONSTANTS
  FragDeflators = {d1, d2}
  Sizes = {1, 2}
  Base = 1
  FragCapacity = 1
  MaxFiles = 2
  MaxBlocks = 2
  MaxFragments = 2
  NoEntry = NoEntry
SPECIFICATION Spec
SYMMETRY Symmetry
CHECK_DEADLOCK FALSE
INVARIANTS TypeOK NoOverlap Contiguous OutstandingExact ImageReadable
