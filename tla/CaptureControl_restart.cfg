SPECIFICATION Spec
CONSTANTS
  Handlers = {h1}
  Tasks = {t1, t2}
  None = None
  FileLengths = {0, 2}
  MaxSteps = 2
  MaxAlerts = 1
  StatsEvery = 2
INVARIANT
  SingleCapture
