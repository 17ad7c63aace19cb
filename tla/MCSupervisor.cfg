CONSTANTS
  high = high
  medium = medium
  low = low
  Channels <- MCChannels
  Callers = {c1}
  Priority <- MCPriority
  ErrorThreshold = 10
  MaxRestarts = 1
  MaxMessages = 3
  MaxStops = 1
  WindowTicks = 0
  IdleTicks = 0
  PassthroughThreshold = 70
  ConfOf <- MCConfOf
  NoChannel = NoChannel
SPECIFICATION FairSpec
INVARIANTS
  TypeOK
  ShedIsConsistent
PROPERTIES
  LowGoesFirst
  RestartsLoseNoUpdate
  ShedIsReleased
