CONSTANTS
  Producers = {p1, p2, p3}
  Consumers = {c1, c2, c3}
  Values = {a, b}
  Size = 2
SPECIFICATION FairSpec
INVARIANTS TypeOK NoLostItem NoLostSlot
PROPERTIES ImplementsFifo HeadTaken PutResumes
