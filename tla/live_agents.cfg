SPECIFICATION MCSpec
CONSTANTS
  AgentKinds = {"claude", "codex", "iflow"}
  AgentTurns = 2
  EventCap = 1
  MaxAgentLines = 1
  WsOps = {o1, o2}
  WsPaths = {p1}
  WsBranches = {b1}
  WsChanges = {1}
  NoHolder = NoHolder
  NoBranch = NoBranch
  MaxWsAsks = 3
  MaxWsFaults = 1
  Chats = {}
  Relays = {r1, r2, r3}
  Crons = {}
  RelaySession = RelaySession
  Ids = {i1}
  Locks = {l1, l2}
  MaxEdits = 0
  None = None
PROPERTY CloseEnds
PROPERTY TurnSettles
PROPERTY WorkspaceReturns
PROPERTY SemWaitersServed
CHECK_DEADLOCK FALSE
