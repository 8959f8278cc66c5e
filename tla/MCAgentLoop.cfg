\* Turns without tools that need approval: the two compositions of the program
\* register none at all.
SPECIFICATION FairSpec
CONSTANT Registry = {"safe", "destructive"}
INVARIANTS
  TypeOK
  ReturnIsTerminal
  CommitIsCleanAnswer
PROPERTIES
  NoCommitAfterCancel
  TurnEnds
CHECK_DEADLOCK FALSE
