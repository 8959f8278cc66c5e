\* The GUI/worker command protocol, four commands.
SPECIFICATION FairSpec
CONSTANTS
  None = None
  CommandId = {c1, c2, c3, c4}
INVARIANTS
  TypeOK
  NothingPendingAtTheEnd
  CommandsAreAccounted
PROPERTIES
  SettledOnce
  FollowedSettles
CHECK_DEADLOCK FALSE
