SPECIFICATION Spec
CONSTANTS
  Users = {u1}
  Commands = {x1, x2}
  CronRuns = {c1}
  Compactions = {}
  MaxSessions = 1
  MaxQueueItems = 2
  MaxSwitches = 0
  MaxStops = 1
  MaxEdits = 0
  MaxDeaths = 0
  MaxFaults = 0
  None = None
PROPERTY StopSparesCron
CHECK_DEADLOCK FALSE
