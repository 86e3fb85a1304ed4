SPECIFICATION FairSpec
CONSTANTS
  Users = {u1, u2}
  Commands = {}
  CronRuns = {}
  Compactions = {}
  MaxSessions = 1
  MaxQueueItems = 2
  MaxSwitches = 0
  MaxStops = 0
  MaxEdits = 0
  MaxDeaths = 0
  MaxFaults = 0
  None = None
PROPERTY QueuedPromptsLeave
CHECK_DEADLOCK FALSE
