------------------------------ MODULE MCModels ------------------------------
\* Models for two banks: one with a decision of its own, the other with a fraud-training
\* example of its customer.
EXTENDS Models, TLC

CONSTANTS a, b, c, decided, example

Customer == c :> b
BankOfLabel == decided :> a @@ example :> b
CustomerOfLabel == decided :> None @@ example :> c
AnyWorker == Permutations(Workers)
=============================================================================
