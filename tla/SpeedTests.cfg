SPECIFICATION Spec
CONSTANTS
  a = a
  b = b
  c = c
  Node = {a, b, c}
  Known <- MCKnown
  Allowed <- MCAllowed
  Internet = Internet
  Test = {x, y}
  Urls = 2
  None = None
  MaxTrouble = 1
INVARIANTS
  TypeOK
  OneTransferPerNode
  FailureHasCause
PROPERTIES
  PermitsReturn
CHECK_DEADLOCK FALSE
