CONSTANTS
  Deflators = {d1}
  DataBuffers = {b1}
  FragmentBuffers = {f1}
  DataBlocks = {1, 2}
  Fragments = {9}
  WriterQueue = 2
  MaxFiles = 2
  MaxBlocks = 2
SPECIFICATION Spec
CHECK_DEADLOCK FALSE
PROPERTY Ends
