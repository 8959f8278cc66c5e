\* The desktop around the pet: safety.
SPECIFICATION AllSpec
CONSTANTS
  Facts = {"marker"}
  MaxRevision = 3
  MaxForeign = 2
  Procs = {"p1", "p2", "p3"}
  MaxClients = 1
  CleanupFails = TRUE
  Settings = {"s1", "s2"}
  MaxProcesses = 3
  HasMainWindow = TRUE
  Diagnosed = TRUE
  TrayFails = TRUE
  WriteFails = TRUE
  MaxExits = 2
INVARIANTS
  AutostartIsTruthful
  OneOwner
  ExitIsOrderly
  ScreenFollowsModel
PROPERTIES
  DesktopStepsAreSafe
  FileImplementsStore
CHECK_DEADLOCK FALSE
