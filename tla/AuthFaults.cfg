SPECIFICATION Spec
CONSTANTS
  EarlierVisit = {TRUE}
  Tabs = {t1}
  Calls = {c1}
  BootCall = boot
  MaxPair = 3
  MaxAttempts = 2
  MaxFaults = 1
  KyBoundsHooks = TRUE
INVARIANTS
  TypeOK
  StoreMatchesBoot
  NobodyWaitsInVain
PROPERTY
  RollbackSparesNewerTokens
