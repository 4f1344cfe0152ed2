SPECIFICATION Spec

CONSTANTS
  kCellSize = 2
  Players = {p1, p2}
  Rooms = {r1, r2}
  Spread = 1
  Steps <- MCSteps
  World <- MCWorld
  MaxStarts = 2

INVARIANTS InterestRange TickReported
