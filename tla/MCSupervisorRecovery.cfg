CONSTANTS
  high = high
  medium = medium
  low = low
  Channels <- MCChannels
  Callers = {c1}
  Priority <- MCPriority
  ErrorThreshold = 10
  MaxRestarts = 0
  MaxMessages = 3
  MaxStops = 0
  WindowTicks = 0
  IdleTicks = 0
  PassthroughThreshold = 70
  ConfOf <- MCConfOf
  NoChannel = NoChannel
SPECIFICATION FairSpec
PROPERTIES
  RecoveryRestores
