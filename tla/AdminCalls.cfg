CONSTANTS
  Calls = {t1, t2, t3}
  Before = {b1}
  Keys = {k1, k2}
  Slugs = {s1, s2}
  Carted = {b1}
  MaxUnfit = 1
  None = None
SPECIFICATION Spec
INVARIANTS ErrorLeavesNothing EntryExact
PROPERTIES ErrorForCause AtOnce
SYMMETRY Symmetry
CHECK_DEADLOCK FALSE
