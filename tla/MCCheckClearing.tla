-------------------------- MODULE MCCheckClearing ---------------------------
(* Small instances of CheckClearing for TLC. *)
EXTENDS CheckClearing, TLC

Symmetry == Permutations(Items) \cup Permutations(Sessions) \cup Permutations(Numbers)
              \cup Permutations(Amounts)
=============================================================================
