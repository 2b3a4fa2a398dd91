SPECIFICATION Spec
CONSTANTS
  a = a
  b = b
  c = c
  decided = decided
  example = example
  Banks = {a, b}
  Customers = {c}
  BankOf <- Customer
  Labels = {decided, example}
  OfBank <- BankOfLabel
  OfCustomer <- CustomerOfLabel
  Examples = {example}
  Workers = {v, w}
  MinToTrain = 1
  MinNew = 1
  MinOfBank = 2
  MaxModels = 3
  MaxSwitches = 2
  MaxByHand = 1
  Shared = Shared
  None = None
SYMMETRY AnyWorker
INVARIANTS RegistryAgrees SharingIsAgreed
PROPERTY SlotStaysFilled
CHECK_DEADLOCK FALSE
