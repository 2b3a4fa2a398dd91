--------------------------- MODULE CheckPayments ----------------------------
(***************************************************************************)
(* What positive pay promises the issuer of a check, without saying how:   *)
(* at any time at most one presented item stands as its payment, and an    *)
(* item whose payment was undone is never paid again.                      *)
(***************************************************************************)
CONSTANTS Numbers,  \* check numbers
          Items,    \* presented items
          None

VARIABLES payer,    \* [Numbers -> Items \cup {None}], the payment that stands
          undone    \* items whose payment was returned or reversed

vars == <<payer, undone>>

Init == payer = [n \in Numbers |-> None] /\ undone = {}

Pay(n, p) == /\ payer[n] = None /\ p \notin undone
             /\ payer' = [payer EXCEPT ![n] = p]
             /\ UNCHANGED undone

Undo(n) == /\ payer[n] # None
           /\ payer' = [payer EXCEPT ![n] = None]
           /\ undone' = undone \cup {payer[n]}

\* An item that never was a payment can be returned or reversed too.
Discard(p) == /\ \A n \in Numbers : payer[n] # p
              /\ undone' = undone \cup {p}
              /\ UNCHANGED payer

Next == \/ \E n \in Numbers, p \in Items : Pay(n, p)
        \/ \E n \in Numbers : Undo(n)
        \/ \E p \in Items : Discard(p)

Spec == Init /\ [][Next]_vars
=============================================================================
