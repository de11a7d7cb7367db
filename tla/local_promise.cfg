CONSTANTS
  Family = {f1}
  Client = {c1, c2}
  None = None
  MaxNames = 2
  AutoReleaseAfter = 1
  MaxFiles = 2
  Strays = FALSE
SYMMETRY ClientSymmetry
SPECIFICATION Spec
INVARIANTS
  Isolated
  LeaseBacked
PROPERTIES
  ImplementsPromise
