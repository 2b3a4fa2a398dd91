------------------------- MODULE MCExceptionReview --------------------------
(* Small instances of ExceptionReview for TLC. *)
EXTENDS ExceptionReview, TLC

Setting(m, r) == [mode |-> m, reason |-> r]
PayOnly == {Setting("fixed_pay", None)}
ReturnByR1 == {Setting("fixed_return", r) : r \in Reasons}
EveryMode == {Setting(m, None) : m \in Modes} \cup {Setting("fixed_return", r) : r \in Reasons}

Symmetry == Permutations(Users) \cup Permutations(Sessions)

\* Cases in one run, without their product: an ACH transaction and two people; one
\* that is labelled, or whose reason comes and goes, and one person; a check that is
\* backed out, and one person.
Pending(e) == {s \in Sessions : request[s] # None /\ request[s].item = e}
Touched(e) == exc[e].status # "absent" \/ labels[e].total > 0 \/ Pending(e) # {}
Labelled(e) == labels[e].total > 0 \/ \E s \in Pending(e) : request[s].kind = "label"
People(e) ==
  ({request[s].user : s \in Pending(e)} \cup {p[1] : p \in proposed[e]} \cup {exc[e].by}
     \cup IF decision[e] = None THEN {} ELSE {decision[e].maker, decision[e].checker}) \ {None}
OneCase ==
  /\ \A e \in Checks, a \in AchTxns : ~(Touched(e) /\ Touched(a))
  /\ \A e \in Items : Cardinality(People(e)) > 1 => e \in AchTxns /\ ~Labelled(e)
  /\ \A e \in Checks : ~Labelled(e)
  /\ activeReasons = Reasons \/ \E a \in AchTxns : Touched(a) /\ Cardinality(People(a)) <= 1
=============================================================================
