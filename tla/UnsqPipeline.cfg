CONSTANTS
  Deflators = {d1, d2}
  DataBuffers = {b1, b2}
  FragmentBuffers = {f1}
  DataBlocks = {1, 2, 3}
  Fragments = {9}
  WriterQueue = 1
  MaxFiles = 2
  MaxBlocks = 2
SPECIFICATION Spec
CHECK_DEADLOCK FALSE
INVARIANTS TypeOK ReadOnce HeldIsUsed KeptWhole
PROPERTY EndsUnlessLost
