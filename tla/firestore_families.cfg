CONSTANTS
  Family = {f1, f2}
  None = None
  Client = {c1, c2}
  MaxNames = 1
  MaxTime = 3
  AutoReleaseAfter = 1
  Strays = FALSE
  Resets = FALSE
SYMMETRY ClientSymmetry
SPECIFICATION Spec
INVARIANTS
  CalmLeaseExclusive
