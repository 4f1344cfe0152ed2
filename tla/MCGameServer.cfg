SPECIFICATION Spec
CONSTANTS
  Players = {p1, p2}
  Conns = {c1, c2, c3}
  Sids = {s1, s2}
  Passwords = {pwA}
  Rooms = {1}
  Modes = {}
  SettableStates = {}
  ReconnectWindow = 0
  SessionTTL = 1
  RoomSize = 2
  MaxJoins = 3
  MaxReady = 1
SYMMETRY Symmetry
INVARIANTS TypeOK PopNeverBlocks InBattleHasBattle DisconnectedIsGone RoomsConsistent RoomReferences
 
CHECK_DEADLOCK FALSE
