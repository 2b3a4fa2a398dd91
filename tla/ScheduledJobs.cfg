SPECIFICATION Spec
CONSTANTS
  Instances = {a, b}
  Notices = 2
  BatchSize = 1
  MaxAttempts = 2
  Files = 2
  Content <- SameContent
  Rows = 2
  Locking = TRUE
  MaxFaults = 1
  None = None
INVARIANTS RunsAgree DeliveryIsTrue
PROPERTIES EveryNoticeSettles JobsEnd
CHECK_DEADLOCK FALSE
