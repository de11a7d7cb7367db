CONSTANTS
  Family = {f1}
  Client = {c1, c2}
  None = None
  MaxNames = 2
  AutoReleaseAfter = 1
  MaxFiles = 1
  Strays = TRUE
SPECIFICATION FairSpec
INVARIANTS
  TypeOK
  StoreConsistent
  LeaseExclusive
PROPERTIES
  ReuseFirst
  ZombieReclaimed
  LockComesBack
