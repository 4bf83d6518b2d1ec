\* The write of a dropped request lands on the note of an operation that was launched
\* since; the process starts again, and the operation's request comes again.
CONSTANTS
  Op = {o1, o2}  Handler = {h1, h2}
  TTL = 1  History = 3  HistoryLimit = 2  MinCooldown = 1  Timeout = 1
  MaxSkew = 0  MaxDelay = 1  MaxLaunches = 2  MaxFaults = 2  MaxClock = 3
  None = None  Torn = Torn
SPECIFICATION Spec
INVARIANTS NoReplay
SYMMETRY Symmetry
CHECK_DEADLOCK FALSE
