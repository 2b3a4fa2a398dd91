----------------------------- MODULE MCAchDebits -----------------------------
\* AchDebits with a blanket authorization, limited in number, one for a single
\* receiver, limited in amount, and one that runs out.
EXTENDS AchDebits, TLC

MCRules == {
  [receiver |-> None, max |-> None, freq |-> 1, secs |-> None, from |-> 1, until |-> None],
  [receiver |-> "r1", max |-> 1, freq |-> None, secs |-> {"PPD"}, from |-> 1, until |-> 2]}

Debit(receiver, amount, sec, date) ==
  [type |-> "debit", receiver |-> receiver, amount |-> amount, sec |-> sec, date |-> date]

MCEntries == {
  Debit("r1", 2, "CCD", 2), Debit("r1", 1, "PPD", 2),
  Debit("r2", 1, "PPD", 1), Debit("r2", 1, "PPD", 3),
  [type |-> "credit", receiver |-> None, amount |-> 2, sec |-> "PPD", date |-> 1]}

AnyTraces == Permutations(Traces)
=============================================================================
