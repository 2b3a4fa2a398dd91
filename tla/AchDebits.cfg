SPECIFICATION Spec
CONSTANTS
  Rules <- MCRules
  Entries <- MCEntries
  Traces = {t1, t2}
  Consumer = {"PPD"}
  Window = 30
  Slots = 2
  Statements = {s1}
  None = None
SYMMETRY AnyTraces
INVARIANTS LimitsHold EntriesAgree StatementsStand
CHECK_DEADLOCK FALSE
