SPECIFICATION Spec
CONSTANTS
  ann = ann
  bob = bob
  note1 = note1
  note2 = note2
  Nothing = Nothing
  Uncalibrated = Uncalibrated
  Senders = {ann, bob}
  Chats <- MCChats
  Types <- MCTypes
  Thresholds <- MCThresholds
  UpdateTypes <- MCTypes
  Answers <- MCAnswers
  Inferences <- MCInferences
  Trainings <- MCTrainings
  Deployed <- MCDeployed
  Configs = {TRUE, FALSE}
  WindowSize = 3
  WindowSpan = 15
  ContextLength = 2
  MaxAgents = 2
  FirstInferenceAt = 2
  InferenceInterval = 2
  MaxRecent = 2
  MaxShown = 1
  MaxRetries = 1
  HardTimeout = TRUE
  Scale = 100
  NBins = 10
INVARIANTS
  ContextIsHonest
  LearningFollowsEvidence
  CalibrationIsFair
CHECK_DEADLOCK FALSE
