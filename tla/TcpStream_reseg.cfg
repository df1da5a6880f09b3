SPECIFICATION Spec
CONSTANTS
  SeqMod = 6
  StreamLen = 5
  MaxSeg = 2
  Lag = 5
  None = None
INVARIANTS
  GapIsNotBuffered
