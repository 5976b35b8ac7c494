CONSTANTS
  r1 = r1
  r2 = r2
  r3 = r3
  k1 = k1
  k2 = k2
  b1 = b1
  b2 = b2
  None = None
  Requests = {r1, r2, r3}
  Keys = {k1}
  Bodies = {b1, b2}
SPECIFICATION FairSpec
INVARIANTS AnswersAgree SingleRunner OneEffectPerKey ReplayFaithful
PROPERTIES CompletedKept ClaimEnds AtMostOnceSpec
CHECK_DEADLOCK FALSE
