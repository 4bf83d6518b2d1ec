\* Two chats and two monitors; run may end with an error once.
CONSTANTS
  Chat = {c1, c2}  Monitor = {m1, m2}  Limit = 2  MaxRestarts = 1  Nobody = Nobody
SPECIFICATION FairMonitorSpec
INVARIANTS
  MonitorTypeOK
  OneMonitorPerChat
PROPERTIES
  StoppedStays
  MonitorEnds
