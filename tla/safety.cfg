SPECIFICATION MCSpec
CONSTANTS
  CronIds = {j1}
  CronCallers = {m1, m2}
  CronNos = {1, 2}
  CronSpecs = {1, 2}
  MaxCronCalls = 2
  MaxCronFaults = 1
  MaxCronCrashes = 1
  Answerers = {n1, n2}
  MaxRequests = 2
  MaxStates = 2
  MaxStops = 1
  MaxPieces = 3
  PreviewCap = 2
  MaxTimers = 3
  MaxPvFaults = 1
  SsWorkers = {w1, w2}
  MaxSessions = 2
  MaxTranscripts = 2
  MaxCommands = 2
  MaxTurns = 2
  MaxSsRestarts = 1
  a1 = a1
  s1 = s1
  UpLoop = loop
  UpUsers = {u1}
  UpTargets <- MCTargets
  UpChats = {s1}
  UpAgentOf <- MCAgentOf
  MaxFailures = 1
  MaxUpdates = 2
  MaxReloads = 1
  MaxUpTurns = 2
  Handlers = {h1, h2}
  MaxItems = 4
  BatchSize = 2
  MaxCollects = 1
  MaxFlushes = 2
  Adapters = {"telegram", "slack", "qq", "discord", "feishu", "wecom"}
  TTL = 1
  Grace = 1
  MaxClock = 2
  MaxPosts = 2
  MaxResends = 1
  MaxDvRestarts = 1
  MaxAttempts = 2
  MaxEvents = 2
  MaxSessionIds = 2
  MaxBreaks = 1
  MaxDialFails = 1
  MaxHurries = 1
  CfEngines = {x1, x2}
  CfHandlers = {h1, h2}
  CfCli = CfCli
  CfCommandNames = {x}
  CfProviders = {v1}
  CfAliases = {y}
  CfMarks = {1}
  NoName = NoName
  MaxCfCalls = 3
  MaxCfTroubles = 1
INVARIANT CronOneEntry
INVARIANT CronScheduleExact
INVARIANT PermissionsExact
INVARIANT AnswerShown
INVARIANT ResetSticks
 
INVARIANT UpdateAlone
INVARIANT StoredIsSentOnce
INVARIANT HandledOnceInOrder
INVARIANT NothingSkipped
INVARIANT NoSaveLost
INVARIANT EngineShowsFile
CHECK_DEADLOCK FALSE
