SPECIFICATION Spec
CONSTANTS
  Users = {}
  Commands = {x1}
  CronRuns = {c1}
  Compactions = {}
  MaxSessions = 1
  MaxQueueItems = 2
  MaxSwitches = 0
  MaxStops = 0
  MaxEdits = 0
  MaxDeaths = 0
  MaxFaults = 0
  None = None
PROPERTY ConvertedRunIsQueued
CHECK_DEADLOCK FALSE
