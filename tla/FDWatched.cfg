\* Two peers: a live monitor shows one, the other says it does not want to lead.
CONSTANTS
  a = a  b = b  c = c  m = m
  Never = Never  NoHealth = NoHealth  NoLeader = NoLeader
  NoAnswer = NoAnswer
  OfflineAfter = 2  Lease = 1  MissedMax = 2  StartTimes = {0, 1, 2}
  NodeId = {a, b, c}  IdRank <- MCIdRank
  Self = a  Peer = {b, c}
  SelfEligible = TRUE  SelfPriority = 2  SelfStart = 1
  PeerEligible <- MCEligible  PeerPriority <- MCPriority  Report <- MCReport
  Monitor = {m}  MonitorTargets <- OneTarget
SPECIFICATION FairSpec
INVARIANTS
  RowsConsistent
  AlertsMatchTable
  LeaderAnnounced
PROPERTIES
  RestartLeavesSuccessor
  DeadPeerTold
  DeadLeaderReplaced
