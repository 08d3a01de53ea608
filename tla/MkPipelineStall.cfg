CONSTANTS
  Deflators = {d1, d2}
  FragDeflators = {f1}
  ReaderBuffers = 2
  WriterBuffers = 2
  FragmentBuffers = 2
  MaxFiles = 2
  MaxBlocks = 2
  MaxChanges = 0
SPECIFICATION FairSpec
CHECK_DEADLOCK FALSE
PROPERTY Completes
