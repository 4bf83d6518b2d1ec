SPECIFICATION Spec
CONSTANTS
  a = a
  b = b
  c1 = c1
  c2 = c2
  Node = {a, b}
  Hosts <- TwoHosts
  Command = {c1, c2}
  Argument <- Arguments
  All = All
  Urls = 2
  None = None
  First = {a}
  MaxChanges = 1
INVARIANTS
  QueuedIsScheduled
  EveryTargetTold
  LeaderLastOfAll
PROPERTIES
  LaunchesOnce
  FlagReturns
CHECK_DEADLOCK FALSE
