SPECIFICATION FairSpec
CONSTANTS
  IoThreads = {i1, i2, i3}
  Timer = timer
  PoolSize = 2
  IoOps <- SomeOps
  RoomSize = 2
  MaxCalls = 3
  MaxBreaks = 1
INVARIANTS PoolConserved NoLostWakeup
PROPERTIES AllServed
CHECK_DEADLOCK FALSE
