CONSTANTS
  high = high
  medium = medium
  low = low
  Channels <- MCChannels
  Callers = {c1}
  Priority <- MCPriority
  ErrorThreshold = 10
  MaxRestarts = 0
  MaxMessages = 2
  MaxStops = 0
  WindowTicks = 1
  IdleTicks = 1
  PassthroughThreshold = 70
  ConfOf <- MCConfOf
  NoChannel = NoChannel
SPECIFICATION Spec
INVARIANTS
  SilentFailureIsCritical
