SPECIFICATION FairSpec
CONSTANTS
  MaxConns = 2
  kSlots = 2
  kTickMs = 10
  HeartbeatMs = 20
  ResponseSize = 2
  SendQueueMax = 2
  TimeoutLimit = 0
  MaxInputs = 2
  MaxResponses = 2
INVARIANTS TypeOK WheelConsistent RoutesLive NoLostWakeup
PROPERTY ConnectionsEnd
