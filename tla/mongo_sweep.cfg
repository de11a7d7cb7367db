CONSTANTS
  Family = {"s"}
  None = None
  Client = {c1, c2}
  Name = {0}
  MaxTime = 4
  AutoReleaseAfter = 1
  Strays = TRUE
  Resets = TRUE
  CounterFaults = TRUE
SYMMETRY ClientSymmetry
SPECIFICATION Spec
INVARIANTS
  CalmLeaseBacked
  CalmLeaseExclusive
PROPERTIES
  OnlyGrants
