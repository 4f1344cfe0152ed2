SPECIFICATION FairSpec
CONSTANTS
  Base = 4
  MinCapacity = 2
  Initial = 2
  Chunk = 4
  LenBytes = 2
  IdBytes = 1
  FlagBytes = 0
  HalfBytes = 1
  kMaxPayload = 2
  Frames <- TwoFrames
  BadLengths <- EdgeLengths
  Responses <- OneResponse
  kMaxIllegalCount = 2
  kSendQueueMax = 3
  MaxFrames = 2
  MaxResponses = 2
INVARIANTS StreamConserved BannedAtOnce CapacityBounded
PROPERTIES BuffersAreQueues StreamServed
CHECK_DEADLOCK FALSE
