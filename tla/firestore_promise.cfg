CONSTANTS
  Family = {f1, f2}
  None = None
  Client = {c1, c2}
  MaxNames = 3
  MaxTime = 0
  AutoReleaseAfter = 0
  Strays = TRUE
  Resets = FALSE
SYMMETRY ClientSymmetry
SPECIFICATION Spec
INVARIANTS
  TypeOK
  CountIsNext
  LeaseExclusive
PROPERTIES
  ImplementsPromise
