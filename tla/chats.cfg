SPECIFICATION Spec
CONSTRAINT OneKind
CONSTANTS
  Users = {u1, u2}
  Commands = {x1}
  CronRuns = {c1}
  Compactions = {z1}
  MaxSessions = 2
  MaxQueueItems = 1
  MaxSwitches = 1
  MaxStops = 1
  MaxEdits = 1
  MaxDeaths = 1
  MaxFaults = 1
  None = None
INVARIANT GateHeldByOne
INVARIANT SessionSerial
PROPERTY FifoWithoutCommands
PROPERTY QueuedSendsToActive
CHECK_DEADLOCK FALSE
