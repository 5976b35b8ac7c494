CONSTANTS
  a1 = a1
  a2 = a2
  a3 = a3
  ip1 = ip1
  ip2 = ip2
  account = account
  w1 = w1
  Calls = {a1, a2, a3}
  Keys = {ip1, ip2, account}
  Chains <- Logins
  Workers = {w1}
  Limit = 1
  Window = 2
  MaxTime = 2
  MaxFailures = 3
SPECIFICATION Spec
SYMMETRY Symmetry
INVARIANT LocalBudget
PROPERTIES SlidingBudgetSpec RefusedForCause
CHECK_DEADLOCK FALSE
