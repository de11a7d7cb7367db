CONSTANTS
  Family = {f1}
  None = None
  Client = {c1, c2}
  MaxNames = 2
  MaxTime = 3
  AutoReleaseAfter = 1
  Strays = TRUE
  Resets = TRUE
SYMMETRY ClientSymmetry
SPECIFICATION Spec
INVARIANTS
  CalmLeaseBacked
PROPERTIES
  ReuseFirst
  OnlyGrants
