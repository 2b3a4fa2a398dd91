SPECIFICATION Spec
CONSTANTS
  Numbers = {n1}
  Items = {p1, p2}
  Amounts = {m1, m2}
  Sessions = {s1}
  MaxStops = 1
  MaxReadings = 2
  Serial = TRUE
  None = None
SYMMETRY Symmetry
INVARIANTS NoDoublePayment BooksAgree
PROPERTIES VoidIsFinal ImplementsPayments
CHECK_DEADLOCK FALSE
