SPECIFICATION Spec
CONSTANTS
  None = None
  r1 = r1
  r2 = r2
  r3 = r3
  r4 = r4
  ann = ann
  ben = ben
  cem = cem
  dia = dia
  Requests = {r1, r2, r3, r4}
  Users = {ann, ben, cem, dia}
  Owner <- FourPlayers
  MayFail = FALSE
  MaxUnheard = 0
CHECK_DEADLOCK FALSE
INVARIANT TicketsAreForPlayers
