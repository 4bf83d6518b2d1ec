\* Two nodes, either, both or none of which lead, until one leads for good.
CONSTANTS
  Node = {a, b}  Leaderships <- AnySet
  MaxUpdate = 2  MaxCrashes = 1  Torn = Torn
SPECIFICATION FairSpec
INVARIANTS
  NothingSkipped
PROPERTIES
  AckedNotRepeated
  EveryUpdateHandled
CHECK_DEADLOCK FALSE
