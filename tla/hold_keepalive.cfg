CONSTANTS
  Client = {c1, c2}
  Name = {n1}
  None = None
  AutoReleaseAfter = 5
  Latency = 1
  Attempts = 3
  RestInterval = 1
SPECIFICATION FairSpec
INVARIANTS
  TypeOK
  HeldNameKept
  QuietAfterStop
  LossReported
PROPERTIES
  OwnRelease
  ReleaseReturns
