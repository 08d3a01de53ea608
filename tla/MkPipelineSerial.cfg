CONSTANTS
  Deflators = {d1}
  FragDeflators = {f1}
  ReaderBuffers = 2
  WriterBuffers = 6
  FragmentBuffers = 2
  MaxFiles = 8
  MaxBlocks = 7
  MaxChanges = 0
  Plain = {4, 5, 6, 7, 8}
  Tails = {}
  Short = {1, 2, 3, 4, 5, 6, 7}
  Long = {8}
SPECIFICATION MCFairSpec
CHECK_DEADLOCK FALSE
PROPERTY Completes
