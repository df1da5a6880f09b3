SPECIFICATION Spec
CONSTANTS
  Handlers = {h1, h2}
  Tasks = {t1, t2}
  None = None
  FileLengths = {0, 2}
  MaxSteps = 2
  MaxAlerts = 1
  StatsEvery = 2
INVARIANTS
  StatsFollowFeed
  ConversationsBounded
  StatusNotStale
PROPERTIES
  ShownMonotone
  StopEventuallyHalts
  FileCaptureEnds
