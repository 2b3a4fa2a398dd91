SPECIFICATION Spec
CONSTANTS
  f = f
  g = g
  h = h
  house = house
  new = new
  c = c
  Files = {f, g, h}
  KindsOf <- SubmittedAs
  Lines <- ThreeFiles
  Scope <- CustomersAndBank
  CreateMissing <- Ticked
  References = {house, new}
  OnFile <- HouseAccount
  Workers = {v, w}
  MaxFaults = 1
  MaxByHand = 1
  None = None
  Absent = Absent
INVARIANTS UploadsAgree PaidAsPresented
PROPERTIES BackOutIsThorough NumberWins
SYMMETRY AnyWorker
CHECK_DEADLOCK FALSE
