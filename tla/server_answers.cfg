SPECIFICATION FairSpec
CONSTANTS
  None = None
  alice = alice
  bob = bob
  m1 = m1
  m2 = m2
  Matches = {m1}
  Users = {alice, bob}
  Pairing <- OnePairing
  Claims <- HonestClaims
  Tokens = {t1}
  Sockets = {s1, s2, s3}
  Workers = {w1}
  ClientMay <- Crossing
  MinPlies = 2
  MaxPlies = 2
  MaxAsks = 3
  MaxRestarts = 0
CHECK_DEADLOCK FALSE
PROPERTIES
  EveryAskIsAnswered
