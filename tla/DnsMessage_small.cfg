SPECIFICATION Spec
CONSTANTS
  Bytes <- MCBytes
  Pointer = 192
  NameTypes = {2}
  Messages <- MCMessages
  Counts <- MCCounts
  HeaderLen = 1
  MaxJumps = 2
  None = None
  MsgLen = 7
INVARIANTS
  NamesMatchWire
  ItemsTile
PROPERTY
  ParseReturns
CHECK_DEADLOCK FALSE
