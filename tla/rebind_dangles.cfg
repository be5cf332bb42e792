SPECIFICATION Spec
CONSTANTS
  None = None
  alice = alice
  bob = bob
  m1 = m1
  m2 = m2
  Matches = {m1, m2}
  Users = {alice, bob}
  Pairing <- TwoPairings
  Claims <- HonestClaims
  Tokens = {t1, t2}
  Sockets = {s1, s2}
  Workers = {w1}
  ClientMay <- Rebinding
  MinPlies = 2
  MaxPlies = 2
  MaxAsks = 3
  MaxRestarts = 1
SYMMETRY Interchangeable
CHECK_DEADLOCK FALSE
INVARIANTS
  SeatsHoldOpenSockets
