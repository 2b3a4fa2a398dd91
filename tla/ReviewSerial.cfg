SPECIFICATION FairSpec
CONSTANTS
  Checks = {c1}
  AchTxns = {}
  Users = {u1, u2}
  Sessions = {s1}
  Reasons = {}
  Dispositions <- EveryMode
  MaxLabels = 2
  MaxRestarts = 1
  Serial = TRUE
  None = None
INVARIANT RowsAgree
PROPERTIES ImplementsLifecycle DeadlineIsBackstop
CHECK_DEADLOCK FALSE
