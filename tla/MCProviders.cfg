\* The Providers around the runtime: safety.
SPECIFICATION AllSpec
CONSTANTS
  NumRequests = 2
  NumCloses = 1
  Keys = {"k1", "k2"}
  MaxChanges = 1
  Custom = {"p1", "p2"}
  Credentials = {"c1"}
  Manual = {"manual"}
  Names = {"builtin", "n1"}
  Models = {"builtin", "m1"}
  Values = {"v1"}
  MaxRecords = 4
  MaxEdits = 4
  Adapters = {"openai", "deepseek"}
  Index = {0, 1}
  Ids = {"x"}
  Fragments = {"{", "}"}
  MaxArgument = 2
  MaxEvents = 4
INVARIANTS
  SettingsAreConsistent
  ResourcesAreOwned
  StreamIsSound
  ConversationIsSound
PROPERTY ProviderStepsAreSafe
CHECK_DEADLOCK FALSE
