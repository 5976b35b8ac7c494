CONSTANTS
  c1 = c1
  u1 = u1
  s1 = s1
  s2 = s2
  d1 = d1
  d2 = d2
  NoReturn = NoReturn
  Cancels = {c1}
  Updates = {u1}
  Submits = {s1, s2}
  Decisions = {d1, d2}
  Targets = {"shipped", "delivered"}
SPECIFICATION Spec
SYMMETRY Symmetry
INVARIANTS ReturnedAfterDelivery AuditExact
PROPERTIES CancelCrossed ApprovalCrossed VerdictKept
CHECK_DEADLOCK FALSE
