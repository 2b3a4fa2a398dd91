------------------------- MODULE ExceptionLifecycle -------------------------
(***************************************************************************)
(* What PosPay promises of one item of the review queue, without saying    *)
(* how: an exception is raised once, may be recommended on any number of   *)
(* times while nobody has decided it, and is then closed exactly once,     *)
(* either by a decision or by the back-out of the item it is about         *)
(* (docs/ARCHITECTURE.md, "Disposition" and "Bulk files").                 *)
(***************************************************************************)
CONSTANTS Items,      \* transactions that may need review
          Outcomes,   \* what a decision may say
          None        \* "no decision"

VARIABLES phase,      \* [Items -> Phases]
          verdict     \* [Items -> Outcomes \cup {None}]

vars == <<phase, verdict>>

Phases == {"absent", "open", "recommended", "decided", "withdrawn"}

Init == /\ phase = [e \in Items |-> "absent"]
        /\ verdict = [e \in Items |-> None]

Raise(e) == /\ phase[e] = "absent"
            /\ phase' = [phase EXCEPT ![e] = "open"]
            /\ UNCHANGED verdict

Recommend(e) == /\ phase[e] \in {"open", "recommended"}
                /\ phase' = [phase EXCEPT ![e] = "recommended"]
                /\ UNCHANGED verdict

Decide(e, o) == /\ phase[e] \in {"open", "recommended"}
                /\ phase' = [phase EXCEPT ![e] = "decided"]
                /\ verdict' = [verdict EXCEPT ![e] = o]

Withdraw(e) == /\ phase[e] \in {"open", "recommended"}
               /\ phase' = [phase EXCEPT ![e] = "withdrawn"]
               /\ UNCHANGED verdict

Next == \E e \in Items :
           \/ Raise(e) \/ Recommend(e) \/ Withdraw(e)
           \/ \E o \in Outcomes : Decide(e, o)

Spec == Init /\ [][Next]_vars
=============================================================================
