SPECIFICATION Spec
CONSTANTS
  OpenAI = {"o"}
  DeepSeek = {"d"}
  Texts = {"t1"}
  MaxRecent = 4
  MaxContext = 20
  MaxItems = 6
  MaxTurns = 5
  MaxOpens = 1
PROPERTY NextTurnReplays
CHECK_DEADLOCK FALSE
