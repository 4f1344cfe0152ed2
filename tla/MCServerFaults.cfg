SPECIFICATION FairFaultSpec
CONSTANTS
  Players = {p1}
  Conns = {c1}
  Sids = {s1, s2}
  Passwords = {pwA}
  Rooms = {1, 2}
  Modes = {}
  SettableStates = {}
  ReconnectWindow = 0
  SessionTTL = 1
  RoomSize = 2
  MaxJoins = 2
  MaxReady = 0
  Contexts = {x1, x2}
  MaxRestarts = 1
INVARIANTS NoGhosts
PROPERTIES QueueServed CleanupRecurs
CHECK_DEADLOCK FALSE
