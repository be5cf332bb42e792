SPECIFICATION Spec
CONSTANTS
  None = None
  r1 = r1
  r2 = r2
  r3 = r3
  r4 = r4
  ann = ann
  ben = ben
  cem = cem
  dia = dia
  Requests = {r1, r2, r3}
  Users = {ann, ben, cem}
  Owner <- ThreePlayers
  MayFail = TRUE
  MaxUnheard = 2
CHECK_DEADLOCK FALSE
INVARIANTS
  TypeOK
  EntriesConserved
  LossesHaveFailures
  StoredTicketsAreForPlayers
  FreshTicketsCanBePolled
