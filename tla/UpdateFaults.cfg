\* Replays of two operations, with crashes and requests that are dropped, a history
\* that holds one operation and the one just reserved, and launchers that may run as
\* long as the cooldown.
CONSTANTS
  Op = {o1, o2}  Handler = {h1, h2}
  TTL = 1  History = 2  HistoryLimit = 1  MinCooldown = 1  Timeout = 2
  MaxSkew = 0  MaxDelay = 1  MaxLaunches = 2  MaxFaults = 2  MaxClock = 4
  None = None  Torn = Torn
SPECIFICATION Spec
INVARIANTS
  LaunchedIsRemembered
  CooldownRemembered
PROPERTIES
  LaunchesOnce
  ForgetsForCause
SYMMETRY Symmetry
CHECK_DEADLOCK FALSE
