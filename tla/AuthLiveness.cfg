SPECIFICATION FairSpec
CONSTANTS
  EarlierVisit = {TRUE}
  Tabs = {t1}
  Calls = {}
  BootCall = boot
  MaxPair = 3
  MaxAttempts = 1
  MaxFaults = 2
  KyBoundsHooks = FALSE
PROPERTIES
  RestoreEnds
  SignOutEnds
