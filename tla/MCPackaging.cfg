\* Safety of the packaging tools.
SPECIFICATION AllSpec
CONSTANTS
  Programs = {"rebuild", "unpruned", "degraded", "attempt"}
  MaxRuns = 2
  MaxVersion = 2
  Intruder = FALSE
  Kinds = {"smoke", "build"}
  Harnesses = {"h1", "h2"}
  BuildLimit = 2
  MaxStarts = 1
  MaxTotal = 3
  Operators = {"o1", "o2"}
  Commands = {"acquire", "extract", "stage"}
  MaxCommands = 2
INVARIANTS
  ArchiveSafety
  ProbeVerdict
  HarnessSafety
  ReviewedInputs
  KeySafety
PROPERTY EvidenceIsKept
CHECK_DEADLOCK FALSE
