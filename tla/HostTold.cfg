\* Two commands to b from a, from b itself, or from both.
CONSTANTS
  a = a  b = b
  Node = {a, b}  Host = b  Commands = 2
  Urls = 2  Programs = 2  None = None  Gone = Gone  MaxLeft = 1  MaxChanges = 1
SPECIFICATION Spec
INVARIANTS
  FreshPicture
  WholePicture
  PermitIsCapture
  OffHonest
PROPERTIES
  CaptureReturns
CHECK_DEADLOCK FALSE
