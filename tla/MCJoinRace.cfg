SPECIFICATION Spec
CONSTANTS
  Players = {p1, p2}
  Conns = {c1, c2}
  Sids = {s1, s2}
  Passwords = {pwA}
  Rooms = {1}
  Modes = {}
  SettableStates = {}
  ReconnectWindow = 0
  SessionTTL = 1
  RoomSize = 2
  MaxJoins = 2
  MaxReady = 1
INVARIANT MatchingIsQueued
CHECK_DEADLOCK FALSE
