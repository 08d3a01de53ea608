CONSTANTS
  FragDeflators = {d1}
  Buffers = {b1, b2, b3}
  FragmentBuffers = {f1, f2}
  Sizes = {1, 2}
  FragIndex = 100
  MaxFiles = 3
  MaxBlocks = 2
  MaxFragments = 2
  MaxBytes = 5
  NoEntry = NoEntry
SPECIFICATION Spec
SYMMETRY Symmetry
CHECK_DEADLOCK FALSE
INVARIANTS TypeOK BlocksFound FragmentsFound UsedExact
