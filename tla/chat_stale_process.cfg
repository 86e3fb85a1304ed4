SPECIFICATION Spec
CONSTANTS
  Users = {u1, u2}
  Commands = {}
  CronRuns = {}
  Compactions = {}
  MaxSessions = 2
  MaxQueueItems = 2
  MaxSwitches = 1
  MaxStops = 0
  MaxEdits = 0
  MaxDeaths = 0
  MaxFaults = 0
  None = None
INVARIANT SentToOwnProcess
CHECK_DEADLOCK FALSE
