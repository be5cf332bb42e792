SPECIFICATION FairSpec
CONSTANTS
  None = None
  Requests = {q1, q2, q3}
  Max = 2
  Window = 2
  MaxCount = 4
INVARIANTS
  TypeOK
  AtMostTwoWindows
  ExpiryFollows
PROPERTIES
  RefusalsEndUnlessOrphaned
