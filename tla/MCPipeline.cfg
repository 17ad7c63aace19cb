SPECIFICATION Spec
CONSTANTS
  t1 = t1
  t2 = t2
  red = red
  blue = blue
  stt = stt
  other = other
  north = north
  west = west
  far = far
  ann = ann
  bob = bob
  op = op
  dead = dead
  None = None
  Malformed = Malformed
  Unreadable = Unreadable
  Channels = {red, blue, stt, other}
  Speakers = {ann, bob}
  SttChannels = {stt}
  Kinds = {"none", "status", "weapons", "tasking"}
  Window = 30
  Batch = 3
  AutoThreshold = 850
  FlagThreshold = 500
  HighRiskKinds = {"weapons"}
  Feeds <- MCFeeds
  Notes = {"_description"}
  FirstSchema <- MCFirstSchema
  FirstMapping <- MCFirstMapping
  Handovers <- MCHandovers
  Proposals <- MCProposals
  NumberOf <- MCNumberOf
  Failed = Failed
  BattleKinds = {"weapons", "tasking"}
  EffectOf <- MCEffectOf
  Affiliations = {}
  Statuses = {op}
  Unknown = Unknown
  Fresh = Fresh
  UnknownChannel = other
  DefaultDay = 0
  Mappings <- MCMappings
  MaxEdits = 1
  MaxDisturbances = 2
INVARIANTS
  EveryReportOnce
  StoreIsConsistent
  ContradictionsAreReviewed
  MappingIsCurrent
PROPERTY
  EveryReportIsStored
CHECK_DEADLOCK FALSE
