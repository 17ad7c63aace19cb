CONSTANTS
  NoType = NoType
  UpdateTypes <- MCTypes
  CountOptions <- MCCounts
  Extractions <- MCExtractions
  Messages <- MCMessages
  Truth <- MCTruth
  MaxRetries = 1
  MaxRuns = 2
  MaxMerges = 1
  MaxCuts = 2
  GoldFirst = FALSE

SPECIFICATION FairSpec

INVARIANTS
  ResumeIsExact
  HumanLabelsPrevail
  MarksAreEarned

PROPERTIES
  ToolsEnd

CHECK_DEADLOCK FALSE
