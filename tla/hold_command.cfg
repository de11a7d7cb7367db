CONSTANTS
  Client = {c1, c2}
  Name = {n1}
  None = None
  AutoReleaseAfter = 2
  Latency = 0
  Attempts = 2
  RestInterval = 1
SPECIFICATION FairCommandSpec
INVARIANTS
  CommandTypeOK
  CleanUpTime
PROPERTIES
  LossEndsProcess
