SPECIFICATION SMSpec
CONSTANTS
  Players = {p1, p2}
  Conns = {c1, c2}
  Sids = {s1, s2, s3}
  Passwords = {pwA, pwB}
  Rooms = {1}
  Modes = {1}
  SettableStates = {"IN_BATTLE"}
  ReconnectWindow = 0
  SessionTTL = 1
SYMMETRY Symmetry
INVARIANTS SMTypeOK ConnMapSound PlayerMapExact OnlineMirrors StoredAgrees
PROPERTY ImplementsDirectory
