CONSTANTS
  Family <- MCFamily
  MaxNames = 2
  Itoa <- MCItoa
  OtherName <- MCOtherName
  AutoReleaseAfter = 1
  None = None
SPECIFICATION Spec
INVARIANTS
  TypeOK
  PanicsExplained
PROPERTIES
  ImplementsStore
