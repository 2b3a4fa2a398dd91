------------------------------ MODULE MCUploads ------------------------------
\* Three files over one account of the bank's and what a customer opens.
EXTENDS Uploads, TLC

CONSTANTS f, g, h, house, new, c

Row(n, i, a) == [ref |-> n, check |-> i, alias |-> a]
ThreeFiles == f :> <<Row(new, 1, house)>> @@ g :> <<Row(new, 1, None), Row(house, 1, None)>> @@ h :> <<Row(new, 1, None)>>
SubmittedAs ==
  f :> {"issued_items", "accounts"} @@ g :> {"check_images", "ach_transactions", "issued_items", "users"}
    @@ h :> {"paid_items", "fraud_training_examples"}
CustomersAndBank == f :> c @@ g :> c @@ h :> None
Ticked == f :> TRUE @@ g :> FALSE @@ h :> TRUE
HouseAccount == house :> None @@ new :> Absent
AnyWorker == Permutations(Workers)
=============================================================================
