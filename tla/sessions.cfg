SPECIFICATION Spec
CONSTANTS
  None = None
  Users = {ann}
  Tokens = {t1, t2, t3}
  Calls = {c1, c2}
SYMMETRY Interchangeable
CHECK_DEADLOCK FALSE
INVARIANTS
  TypeOK
  OneLivePerSignIn
  StrandedOnlyByLoss
  AuditTellsTheTruth
PROPERTIES
  ImplementsSessionChain
