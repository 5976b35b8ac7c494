CONSTANTS
  Calls = {t1, t2, t3}
  Before = {b1}
  Keys = {k1, k2}
  t1 = t1
  t2 = t2
  t3 = t3
  b1 = b1
  k1 = k1
  k2 = k2
  Key <- SharedKeys
  Late = {k2}
  None = None
SPECIFICATION Spec
INVARIANTS OnlyClearsDeadlock OneDefault ImageServed
PROPERTIES DefaultKept UnsetTaken EveryCallAnswered
CHECK_DEADLOCK FALSE
