\* The leader crashes while it writes its offset.
CONSTANTS
  Node = {a}  Leaderships <- AnySet
  MaxUpdate = 2  MaxCrashes = 1  Torn = Torn
SPECIFICATION FairSpec
PROPERTIES LeaderServes
CHECK_DEADLOCK FALSE
