SPECIFICATION Spec
CONSTANTS
  a1 = a1  a2 = a2  b1 = b1  c1 = c1  d1 = d1  e1 = e1  w1 = w1  x1 = x1  y1 = y1
  fA = fA  gA = gA  oA = oA  kB = kB  mD = mD
  None = None
  User = User
  Pkg <- MCPkg
  File = {fA, gA, oA, kB, mD}
  NameSeq <- MCNames
  Info <- MCInfo
  Feed <- MCPkg
  Installed <- MCInstalled
  Commands <- MCCommands
  Strings <- MCStrings
  MaxFaults = 1
  MaxCommands = 2
INVARIANTS TypeOK RecordsAgree OneVersion UserEditsSurvive DependenciesHold UnwindRestores VersionOrder
PROPERTIES RemovesOwn CommandsEnd
