SPECIFICATION Spec
CONSTANTS
  Players = {p1, p2}
  Rooms = {r1, r2}
  IOThreads = {io1}
  MaxHp = 75
  Atk = 100
  Def = 50
  kSkills <- Skills
  LostLimit = 0
  MaxSeq = 2
  MaxStarts = 2
  MaxCommands = 2
  MaxLosses = 0
SYMMETRY Symmetry
INVARIANTS TypeOK HpAccounts TotalsAgree AppliedOnce
