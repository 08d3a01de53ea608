CONSTANTS
  FragDeflators = {d1}
  Sizes = {1}
  Base = 1
  FragCapacity = 1
  MaxFiles = 1
  MaxBlocks = 1
  MaxFragments = 2
  NoEntry = NoEntry
SPECIFICATION FairSpec
CHECK_DEADLOCK FALSE
PROPERTY DrainEnds
