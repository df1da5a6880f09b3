SPECIFICATION StreamSpec
CONSTANTS
  MinSamples = 5
  MinInterval = 2
  MaxCv = 30
  MaxStamps = 30
  MaxSteps = 210
INVARIANT BeaconIsAlerted
CHECK_DEADLOCK FALSE
