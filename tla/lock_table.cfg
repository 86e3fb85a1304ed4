SPECIFICATION Spec
CONSTANTS
  Chats = {c1}
  Relays = {r1, r2}
  Crons = {k1}
  RelaySession = RelaySession
  Ids = {i1, i2}
  Locks = {l1, l2, l3}
  MaxEdits = 1
  None = None
SYMMETRY Symmetry
INVARIANT TurnLockExclusive
INVARIANT LockTableExact
CHECK_DEADLOCK FALSE
