\* A live monitor marks a dead peer offline and no alert is ever queued.
CONSTANTS
  a = a  b = b  c = c  m = m
  Never = Never  NoHealth = NoHealth  NoLeader = NoLeader
  NoAnswer = NoAnswer
  OfflineAfter = 2  Lease = 2  MissedMax = 2  StartTimes = {0, 1, 2}
  NodeId = {a, b, c}  IdRank <- MCIdRank
  Self = a  Peer = {b}
  SelfEligible = TRUE  SelfPriority = 1  SelfStart = 1
  PeerEligible <- OneEligible  PeerPriority <- OnePriority  Report <- OneReport
  Monitor = {m}  MonitorTargets <- OneTarget
SPECIFICATION FairSpec
PROPERTIES EveryDeathTold
