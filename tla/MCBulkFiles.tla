----------------------------- MODULE MCBulkFiles -----------------------------
\* BulkFiles for entries of two accounts, a debit and a credit, and for control
\* records that may or may not agree with them.
EXTENDS BulkFiles

MCItems == {[amount |-> 1, dfi |-> 2, code |-> "debit"], [amount |-> 1, dfi |-> 1, code |-> "credit"]}

Totalled(items, hash, debit, credit) == [items |-> items, hash |-> hash, debit |-> debit, credit |-> credit]

MCDeclared ==
  {Totalled(0, 0, 0, 0), Totalled(1, 2, 1, 0), Totalled(1, 1, 0, 1), Totalled(2, 0, 1, 1), Totalled(2, 1, 2, 0),
   Totalled(1, 0, 1, 0), Totalled(2, 0, 2, 0)}
=============================================================================
