CONSTANTS
  a1 = a1
  a2 = a2
  w1 = w1
  w2 = w2
  n1 = n1
  Readers = {a1, a2}
  Writes = {w1}
  Renames = {n1}
  Replicated = TRUE
  RedisFails = TRUE
  VersionLost = TRUE
SPECIFICATION FairSpec
INVARIANT BumpedIsSeen
PROPERTIES EveryReadAnswered CacheHeals
