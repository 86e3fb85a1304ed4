SPECIFICATION MCSpec
CONSTANTS
  Jobs = {j1, j2, j3}
  Projects = {p1}
  MaxCancels = 1
  MaxCrashes = 1
  MaxFaults = 1
  None = None
  Links = {l1, l2}
  LinkTasks = {t1}
  NoLink = NoLink
  MaxLinkBreaks = 2
  MaxLinkCancels = 1
  Reviews = {v1, v2}
  RvSessions = {s1, s2}
  RvFirst = s1
  MaxRvStates = 2
  MaxRvStops = 2
  MaxRvMoves = 1
  MaxRvPrompts = 2
  MaxRvAsks = 1
  AgentKinds = {"claude", "codex", "gemini", "cursor", "qoder", "opencode", "iflow"}
  AgentTurns = 2
  EventCap = 1
  MaxAgentLines = 2
  WsOps = {o1, o2}
  WsPaths = {w1, w2}
  WsBranches = {b1}
  WsChanges = {1}
  NoHolder = NoHolder
  NoBranch = NoBranch
  MaxWsAsks = 3
  MaxWsFaults = 1
  SkJobs = {g1, g2}
  SkCrons = {k1}
  SkChats = {}
  SkSkills = {1}
  SkIds = {1}
  NoStart = NoStart
  NoSkillId = NoSkillId
  MaxAtOnce = 2
  MaxTroubles = 2
  SuChats = {c1, c2}
  Cli = Cli
  NoChat = NoChat
  MaxVersion = 3
  MaxSuFaults = 1
  MaxSuCrashes = 1
  MaxOld = 3
INVARIANT SlotExact
INVARIANT FinalIsDurable
INVARIANT ResultLostOnlyWithLink
INVARIANT ReviewTurnsAlone
INVARIANT EventChannelSafe
INVARIANT StartAsConfigured
INVARIANT BinaryAndNoteKept
PROPERTY ImplementsServer
PROPERTY RemoteKeepsCommits
PROPERTY CronContextKept
PROPERTY RestartRunsUpgrade
CHECK_DEADLOCK FALSE
