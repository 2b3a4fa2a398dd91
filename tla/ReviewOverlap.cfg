SPECIFICATION Spec
CONSTANTS
  Checks = {c1}
  AchTxns = {a1}
  Users = {u1, u2}
  Sessions = {s1, s2}
  Reasons = {r1}
  Dispositions <- ReturnByR1
  MaxLabels = 1
  MaxRestarts = 0
  Serial = FALSE
  None = None
CONSTRAINT OneCase
SYMMETRY Symmetry
INVARIANTS TypeOK FourEyes StatusBacked AchReturnSettled AutoOnlyWhenDue
PROPERTY DecisionIsFinal
CHECK_DEADLOCK FALSE
