SPECIFICATION WorkSpec
CONSTANTS
  EarlierVisit = {FALSE}
  Tabs = {t1, t2}
  Calls = {c1}
  BootCall = boot
  MaxPair = 3
  MaxAttempts = 3
  MaxFaults = 0
  KyBoundsHooks = FALSE
INVARIANT
  WorkingSessionSurvives
CHECK_DEADLOCK FALSE
