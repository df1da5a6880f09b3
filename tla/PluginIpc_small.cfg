SPECIFICATION Spec
CONSTANTS
  MaxCalls = 4
  MaxChunks = 3
  PipeCap = 2
  MaxPrints = 2
  None = None
INVARIANTS
  AnswersFollowPackets
  NothingWithheld
PROPERTY
  CallReturns
CHECK_DEADLOCK FALSE
