SPECIFICATION Spec
CONSTANTS
  Numbers = {n1}
  Items = {p1, p2}
  Amounts = {m1, m2}
  Sessions = {s1, s2}
  MaxStops = 0
  MaxReadings = 1
  Serial = FALSE
  None = None
SYMMETRY Symmetry
INVARIANTS TypeOK PaidAsIssued ExceptionsAreQueued
PROPERTY UndoneIsFinal
CHECK_DEADLOCK FALSE
