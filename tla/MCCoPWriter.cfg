CONSTANTS
  u1 = u1
  u2 = u2
  u3 = u3
  Updates = {u1, u2, u3}
  UpdateTypes <- MCUpdateTypes
  Confidence <- MCConfidence
  TypeOf <- MCTypeOf
  EntityCount <- MCEntityCount
  AutoThreshold = 85
  FlagThreshold = 50
  HighRiskTypes = {"weapons"}
  BattleEffectTypes = {"weapons", "tasking"}
  Pipeline = pipeline
  Operators = {o1, o2}
  RetryAttempts = 2
  MaxQueueSize = 1
  NoTask = NoTask
  NoUpdate = NoUpdate
SPECIFICATION Spec
INVARIANTS
  TypeOK
  HumanTierStaysLocal
  CountersBalance
  DeliveryIsHonest
  ReviewQueueIsExact
PROPERTIES
  LossOnlyByOverflow
  LifecycleSpec
