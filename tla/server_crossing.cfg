SPECIFICATION Spec
CONSTANTS
  None = None
  alice = alice
  bob = bob
  m1 = m1
  m2 = m2
  Matches = {m1}
  Users = {alice, bob}
  Pairing <- OnePairing
  Claims <- HonestClaims
  Tokens = {t1, t2, t3}
  Sockets = {s1, s2, s3}
  Workers = {w1, w2}
  ClientMay <- Crossing
  MinPlies = 2
  MaxPlies = 2
  MaxAsks = 3
  MaxRestarts = 1
SYMMETRY Interchangeable
CHECK_DEADLOCK FALSE
INVARIANTS
  SeatsHoldOpenSockets
  SeatedViewsInSync
  ResumesSpendTokens
  GaugesMatchState
  NoAbandonedRoom
  StoredWinsAnnounced
PROPERTIES
  GamesOnlyAdvance
