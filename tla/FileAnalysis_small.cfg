SPECIFICATION FileSpec
CONSTANTS
  IPs <- MCIPs
  Ports <- MCPorts
  Protocols <- MCProtocols
  MaxLen = 65535
  Packets <- MCPackets
  Times = {0, 1}
  MaxPackets = 3
  Frames <- MCFrames
  Captures <- MCCaptures
  Tails <- MCTails
  SnapLengths <- MCSnapLengths
  MaxAlerts = 1
INVARIANTS
  OneBucketPerConversation
  StreamPurity
  ConversationTotals
  TalliesMatchTables
  AnswerMatchesFeed
  SlicesInRange
  TruncationOnlyLoses
CHECK_DEADLOCK FALSE
