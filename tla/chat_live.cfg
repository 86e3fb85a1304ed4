SPECIFICATION FairSpec
CONSTANTS
  Users = {u1, u2}
  Commands = {}
  CronRuns = {c1}
  Compactions = {}
  MaxSessions = 2
  MaxQueueItems = 2
  MaxSwitches = 1
  MaxStops = 0
  MaxEdits = 0
  MaxDeaths = 0
  MaxFaults = 0
  None = None
PROPERTY AwakeQueueDrains
PROPERTY WorkComesToRest
CHECK_DEADLOCK FALSE
