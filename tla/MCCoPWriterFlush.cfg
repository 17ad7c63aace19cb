CONSTANTS
  u1 = u1
  u2 = u2
  u3 = u3
  Updates = {u1, u2}
  UpdateTypes <- MCUpdateTypes
  Confidence <- MCConfidence
  TypeOf <- MCTypeOf
  EntityCount <- MCEntityCount
  AutoThreshold = 85
  FlagThreshold = 50
  HighRiskTypes = {}
  BattleEffectTypes = {"tasking"}
  Pipeline = pipeline
  Operators = {o1, o2}
  RetryAttempts = 2
  MaxQueueSize = 2
  NoTask = NoTask
  NoUpdate = NoUpdate
SPECIFICATION FairSpec
PROPERTY
  FlushReturns
