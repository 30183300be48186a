SPECIFICATION WorkSpec
CONSTANTS
  EarlierVisit = {TRUE, FALSE}
  Tabs = {t1}
  Calls = {c1, c2, c3}
  BootCall = boot
  MaxPair = 6
  MaxAttempts = 3
  MaxFaults = 0
  KyBoundsHooks = FALSE
SYMMETRY CallSymmetry
INVARIANT
  WorkingSessionSurvives
CHECK_DEADLOCK FALSE
