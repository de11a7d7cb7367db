CONSTANTS
  Family = {"s"}
  None = None
  Client = {c1, c2, c3}
  Name = {0, 1}
  MaxTime = 0
  AutoReleaseAfter = 0
  Strays = FALSE
  Resets = FALSE
  CounterFaults = FALSE
SYMMETRY ClientSymmetry
SPECIFICATION Spec
INVARIANTS
  TypeOK
  LeaseExclusive
  SingleCounterUnique
PROPERTIES
  ImplementsPromise
