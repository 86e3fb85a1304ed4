SPECIFICATION Spec
CONSTANTS
  Chats = {}
  Relays = {r1, r2}
  Crons = {}
  RelaySession = RelaySession
  Ids = {i1, i2}
  Locks = {l1, l2}
  MaxEdits = 0
  None = None
INVARIANT SingleWriter
CHECK_DEADLOCK FALSE
