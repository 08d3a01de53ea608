SPECIFICATION Spec
CONSTANTS
  Fs <- MCFs
  Suffixed <- MCSuffixed
  MaxSuffix = 2
  Depth = 4
  Meta = 4
  RunMax = 2
  DeltaMax = 3
  LdirAt = 3
  FragMax = 2
  OolSize = 3
  InlineMax = 8
  TargetMax = 12
  Commands <- MCCommands
  MaxCommands = 3
  MaxFaults = 2
  Extractions <- MCExtractions
  UserXattr = {1}
  Me <- MCMe
  MaxBad = 1
  MaxRead = 2
INVARIANTS TypeOK ImageSound Extracted
PROPERTIES Atomic Ends
CHECK_DEADLOCK FALSE
