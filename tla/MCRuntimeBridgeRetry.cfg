\* A shutdown retried from the failure signal is never settled.
SPECIFICATION FairSpec
CONSTANTS
  None = None
  CommandId = {c1, c2, c3}
PROPERTY ShutdownSettles
CHECK_DEADLOCK FALSE
