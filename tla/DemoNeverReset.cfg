SPECIFICATION Spec
CONSTANTS
  Instances = {a, b}
  Notices = 1
  BatchSize = 1
  MaxAttempts = 1
  Files = 1
  Content <- SameContent
  Rows = 1
  Locking = TRUE
  MaxFaults = 1
  None = None
PROPERTIES DemoResetsOnSchedule
CHECK_DEADLOCK FALSE
