CONSTANTS
  Client = {c1, c2}
  Name = {n1, n2}
  Conn = {k1, k2, k3}
  None = None
  AutoReleases = TRUE
  MaxFaults = 2
SYMMETRY RelaySymmetry
SPECIFICATION Spec
INVARIANTS
  TypeOK
  RemoteExclusive
  LossesBounded
