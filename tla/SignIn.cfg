SPECIFICATION Spec
CONSTANTS
  Orgs = {bank, bureau}
  Tuned = {bank}
  Keyed = {bureau}
  Sids = {s1, s2}
  MaxFailed = 2
  LockFor = 1
  Idle = 1
  Grace = 1
  Default = 1
  Lengths = {3}
  MaxTime = 2
  MaxVersion = 1
  MaxTries = 4
  None = None
  bank = bank
  bureau = bureau
CONSTRAINT OneConcern
SYMMETRY Symmetry
INVARIANTS SessionsAgree SignedOutIsForGood GuessesAreThrottled EverywhereMeansAll
CHECK_DEADLOCK FALSE
