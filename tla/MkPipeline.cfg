CONSTANTS
  Deflators = {d1, d2}
  FragDeflators = {f1}
  ReaderBuffers = 2
  WriterBuffers = 2
  FragmentBuffers = 2
  MaxFiles = 3
  MaxBlocks = 2
  MaxChanges = 1
  Plain = {1}
  Tails = {1}
  Short = {}
  Long = {}
SPECIFICATION MCSpec
CHECK_DEADLOCK FALSE
INVARIANTS TypeOK FileWhole BuffersExact MutexNeverWaits
PROPERTY DeliversInOrder
