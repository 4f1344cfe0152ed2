SPECIFICATION Spec
CONSTANTS
  Players = {p1, p2}
  Conns = {c1, c2}
  Sids = {s1, s2}
  Passwords = {pwA}
  Rooms = {1}
  Modes = {}
  SettableStates = {}
  ReconnectWindow = 0
  SessionTTL = 1
  RoomSize = 2
  MaxJoins = 3
  MaxReady = 1
PROPERTY BattleLearnsOfDisconnect
CHECK_DEADLOCK FALSE
