\* Three nodes: the leader may stop and come back, and one node may miss it.
CONSTANTS
  a = a  b = b  c = c
  Never = Never  NoHealth = NoHealth  NoLeader = NoLeader
  Idle = Idle  Awaited = Awaited  Failed = Failed
  OfflineAfter = 2  Lease = 1  MissedMax = 2
  StartTimes = {0, 1}
  NodeId = {a, b, c}  IdRank <- MCIdRank
  Eligible <- MCEligible  Priority <- MCPriority
  PeerEligible <- MCPeerEligible  PeerPriority <- MCPeerPriority
  Mortal = {a}  Flaky <- LinkBA  MaxBoots = 1  MaxRound = 2
SPECIFICATION FairSpec
INVARIANTS
  KnowledgePreventsSplit
PROPERTIES
  EventualAgreement
