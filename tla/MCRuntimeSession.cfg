\* Provider switching, turns and shutdown: three Providers can be built, two
\* turns sent.
SPECIFICATION FairSpec
CONSTANTS
  None = None
  Profile = {p1, p2}
  Setup = {s1, s2}
  Provider = {a, b, c}
  MaxTurns = 2
INVARIANTS
  ProvidersAreOwned
  PublishedIsTruthful
PROPERTY WaitsEnd
CHECK_DEADLOCK FALSE
