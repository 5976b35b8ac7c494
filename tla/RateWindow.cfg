CONSTANTS
  a1 = a1
  a2 = a2
  a3 = a3
  ip1 = ip1
  ip2 = ip2
  account = account
  w1 = w1
  Calls = {a1, a2, a3}
  Keys = {account}
  Chains <- OneKey
  Workers = {w1}
  Limit = 1
  Window = 2
  MaxTime = 4
  MaxFailures = 0
SPECIFICATION Spec


PROPERTY FixedWindow
CHECK_DEADLOCK FALSE
