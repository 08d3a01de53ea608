CONSTANTS
  FragDeflators = {d1}
  Buffers = {b1, b2, b3}
  FragmentBuffers = {f1, f2}
  Sizes = {1}
  FragIndex = 100
  MaxFiles = 4
  MaxBlocks = 1
  MaxFragments = 3
  MaxBytes = 6
  NoEntry = NoEntry
SPECIFICATION Spec
SYMMETRY Symmetry
CHECK_DEADLOCK FALSE
INVARIANT EntrySetWhenRead
