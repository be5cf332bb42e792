SPECIFICATION Spec
CONSTANTS
  None = None
  alice = alice
  bob = bob
  m1 = m1
  m2 = m2
  Matches = {m1}
  Users = {alice, bob}
  Pairing <- OnePairing
  Claims <- HonestClaims
  Tokens = {t1, t2, t3}
  Sockets = {s1, s2, s3}
  Workers = {w1, w2}
  ClientMay <- Disciplined
  MinPlies = 2
  MaxPlies = 3
  MaxAsks = 3
  MaxRestarts = 1
SYMMETRY Interchangeable
CHECK_DEADLOCK FALSE
INVARIANTS
  TypeOK
  BoundSocketsAreSeated
  RowsFollowAnnouncements
  OneResultPerMatch
  CompletedMeansOver
PROPERTIES
  RoomOutlivesItsPlayers
  ImplementsMatchLedger
