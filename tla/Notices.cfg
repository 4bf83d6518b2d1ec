\* One alert loop, then a second one; one of the two chats may refuse.
\* Strangers s and u, the authorized group g and chat p, and one sensor.
CONSTANTS
  Loop = {l1, l2}  Chat = {c1, c2}  Unreliable = {c2}  MaxAlert = 3
  s = s  u = u  g = g  p = p  temp = temp
  Writer = {s, u, g, p}  Authorized = {g, p}  Group = {g, u}  GroupControl = TRUE
  Window <- Windows  Limit = 2
  Metric = {temp}  Sensor = {temp}  AlertWindow = 2  Jump = 2  MaxJumps = 1  Old = 6
  None = None
SPECIFICATION NoticesSpec
INVARIANTS
  NothingLost
  RepeatsHaveCause
  RaisedOrder
  ControlAsDocumented
  AnswersPaced
  AlertsPaced
PROPERTIES
  ReliableChatsHear
