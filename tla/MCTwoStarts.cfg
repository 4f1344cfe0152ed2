SPECIFICATION Spec
CONSTANTS
  Players = {p1}
  Rooms = {r1, r2}
  IOThreads = {io1, io2}
  MaxHp = 75
  Atk = 100
  Def = 50
  kSkills <- Skills
  LostLimit = 0
  MaxSeq = 1
  MaxStarts = 2
  MaxCommands = 0
  MaxLosses = 0
PROPERTY WorkerOwnsRooms
