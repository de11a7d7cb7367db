CONSTANTS
  Family = {"s"}
  None = None
  Client = {c1, c2}
  Name = {0}
  MaxTime = 0
  AutoReleaseAfter = 0
  Strays = FALSE
  Resets = FALSE
  CounterFaults = TRUE
SYMMETRY ClientSymmetry
SPECIFICATION Spec
INVARIANTS
  LeaseExclusive
