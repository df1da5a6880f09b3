SPECIFICATION EngineSpec
CONSTANTS
  h1 = h1
  h2 = h2
  p1 = p1
  p2 = p2
  p3 = p3
  Hosts <- MCHosts
  Ports <- MCPorts
  IPs = {ip1, ip2}
  Macs = {m1, m2, m3}
  Traffic <- MCTraffic
  WindowSecs = 2
  Threshold = 2
  SynWindowSecs = 1
  SynThreshold = 2
  MinSamples = 2
  MinInterval = 2
  MaxCv = 30
  MaxStamps = 5
  LengthThreshold = 50
  MaxTime = 10
  MaxSyns = 6
  MaxFed = 6
SYMMETRY MCSymmetry
INVARIANTS
  AlertSound
  BurstDetected
  FloodsReported
  AlertsSpaced
  ConflictAlerted
  BeaconsDetected
  BeaconsSound
  TunnelsReported
  CredentialsReported
  AlertedOnce
CHECK_DEADLOCK FALSE
