SPECIFICATION Spec
CONSTANTS
  l1 = l1
  l2 = l2
  s1 = s1
  s2 = s2
  Lesson = {l1, l2}
  Nowhere = nowhere
  Weight = {1, 3}
  Settings <- SomeSettings
  Slot = {s1, s2}
  MaxRow = 3
  MaxLen = 3
  MaxFault = 2
SYMMETRY Symmetry
INVARIANTS
  TypeOK
  SavedWeeksAreStored
PROPERTIES
  PutDeletesOnlyItsOwn
  CarefulKeepsWeeksInLesson
