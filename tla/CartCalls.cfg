CONSTANTS
  t1 = t1
  t2 = t2
  t3 = t3
  Before = Before
  None = None
  Calls = {t1, t2, t3}
  Asks <- AnyCall
  Stock = 2
SPECIFICATION Spec
SYMMETRY Symmetry
INVARIANTS CartExact LineForCause ErrorCrossed MovedOnce
CHECK_DEADLOCK FALSE
