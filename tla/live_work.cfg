SPECIFICATION MCSpec
CONSTANTS
  Jobs = {j1, j2}
  Projects = {p1}
  MaxCancels = 1
  MaxCrashes = 1
  MaxFaults = 1
  None = None
  Links = {l1, l2}
  LinkTasks = {}
  NoLink = NoLink
  MaxLinkBreaks = 2
  MaxLinkCancels = 0
  Reviews = {v1, v2}
  RvSessions = {s1, s2}
  RvFirst = s1
  MaxRvStates = 2
  MaxRvStops = 2
  MaxRvMoves = 1
  MaxRvPrompts = 2
  MaxRvAsks = 1
  a1 = a1
  s1 = s1
  UpLoop = loop
  UpUsers = {u1}
  UpTargets <- MCTargets
  UpChats = {s1}
  UpAgentOf <- MCAgentOf
  MaxFailures = 1
  MaxUpdates = 1
  MaxReloads = 1
  MaxUpTurns = 0
  MaxAttempts = 2
  MaxEvents = 2
  MaxSessionIds = 1
  MaxBreaks = 2
  MaxDialFails = 0
  MaxHurries = 1
PROPERTY JobsSettle
PROPERTY LinkRecovers
PROPERTY ReviewEnds
PROPERTY ConfigTakenUp
PROPERTY EventsArrive
CHECK_DEADLOCK FALSE
