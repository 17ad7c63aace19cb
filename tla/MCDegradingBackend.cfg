CONSTANTS
  FailMax = 2
  Cooldown = 1
  Callers = {c1, c2}
  Threads = 2
  QueryRetries = 1
  NumSlots <- MCNumSlots
  Kind <- MCKind
  Types <- MCTypes
  Levels <- MCLevels
  TypeThreshold <- MCTypeThreshold
  HasDefault <- MCHasDefault
  DefaultThreshold <- MCDefault
  ScalarThreshold = 0
  NoCaller = NoCaller
  NoResult = NoResult
  Passthrough = Passthrough
SPECIFICATION FairSpec
INVARIANTS
  AdaptClockTracksBreaker
PROPERTIES
  CascadeContract
  PrimaryRecovers
  CallsReturn
