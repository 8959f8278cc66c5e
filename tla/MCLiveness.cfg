\* What must come to an end, comes to an end.
SPECIFICATION FairSpec
PROPERTIES
  ProvidersEnd
  DesktopSettles
  PackagingEnds
CHECK_DEADLOCK FALSE
