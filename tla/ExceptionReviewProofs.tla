----------------------- MODULE ExceptionReviewProofs ------------------------
(***************************************************************************)
(* Theorems about ExceptionReview: what holds for any number of items,     *)
(* people and overlapping requests.                                        *)
(***************************************************************************)
EXTENDS ExceptionReview, TLAPS

(***************************************************************************)
(* The inductive invariant.  A request acts on copies, so each part says   *)
(* what a copy still guarantees of the rows it was taken from.             *)
(***************************************************************************)
Recommended(u, e) == \E o \in Outcomes : <<u, o>> \in proposed[e]

\* A maker on record did recommend the item, and a pending approval has one.
MakerInv == \A e \in Items :
  /\ exc[e].by # None => Recommended(exc[e].by, e)
  /\ exc[e].status = "pending_approval" => exc[e].by # None

\* The maker a request has loaded did recommend the item, and by then the
\* stored row has a maker too.
LoadedMakerInv == \A s \in Sessions :
  request[s] # None =>
    /\ request[s].row.by # None =>
         /\ Recommended(request[s].row.by, request[s].item)
         /\ exc[request[s].item].by # None
    /\ request[s].row.status = "pending_approval" => request[s].row.by # None

\* What the guards of the Load steps established.
LoadedGuardInv == \A s \in Sessions :
  request[s] # None =>
    /\ request[s].kind = "decide" =>
         /\ request[s].row.status \in Undecided
         /\ request[s].dual => request[s].row.status = "pending_approval"
                               /\ request[s].row.by # request[s].user
         /\ (request[s].reason # None) <=>
              (request[s].item \in AchTxns /\ request[s].outcome = "return")
    /\ request[s].kind = "back_out" => request[s].item \in Checks
    /\ request[s].item \in AchTxns /\ request[s].settlement = "returned" =>
         settlement[request[s].item] = "returned"

DecidedInv == \A e \in Items : Decided(e) => exc[e].status \notin {"absent", "open"}

\* Time only runs for an exception that exists, and the sweep only handles
\* what has expired.
DeadlineInv == \A e \in Items : exc[e].status = "absent" => deadline[e] = "none"

SweepInv == \A e \in sweep : deadline[e] = "passed"

IInv == /\ TypeOK /\ MakerInv /\ LoadedMakerInv /\ LoadedGuardInv /\ DecidedInv
        /\ DeadlineInv /\ SweepInv
        /\ FourEyes /\ StatusBacked /\ AchReturnSettled /\ AutoOnlyWhenDue

-----------------------------------------------------------------------------
(* Type correctness.                                                       *)

USE DEF Items, Networks

\* A write-back of a typed copy over a typed row gives a typed row.
LEMMA FlushType ==
  ASSUME NEW stored \in Row, NEW loaded \in Row, NEW edited \in Row
  PROVE  Flush(stored, loaded, edited) \in Row
BY DEF Flush, Row

LEMMA NetworkType == ASSUME NEW e \in Items PROVE Network(e) \in Networks
OBVIOUS

\* What the setting resolves to is a reason of the catalog, or none.
LEMMA AutoReasonType ==
  ASSUME TypeOK, NEW e \in Items, NEW o PROVE AutoReason(e, o) \in Reasons \cup {None}
<1>1. CASE e \in AchTxns /\ o = "return"
  <2>1. "ach" \in Networks
    BY <1>1, NetworkType DEF Network
  <2>2. disposition["ach"] \in Disposition
    BY <2>1, ConstantsAssumption DEF TypeOK
  <2> QED BY <1>1, <2>2 DEF AutoReason, Disposition
<1>2. CASE ~(e \in AchTxns /\ o = "return")
  BY <1>2 DEF AutoReason
<1> QED BY <1>1, <1>2

\* Closing an item with a typed decision keeps the three tables typed.
LEMMA CloseType ==
  ASSUME TypeOK, NEW e \in Items, NEW d \in Decision, NEW row \in Row, NEW st,
         Close(e, d, row, st)
  PROVE  /\ decision' \in [Items -> Decision \cup {None}]
         /\ exc' \in [Items -> Row]
         /\ settlement' \in [Items -> Settlements]
<1>1. d.outcome \in Outcomes
  BY DEF Decision
<1>2. [row EXCEPT !.status = d.outcome] \in Row
  BY <1>1 DEF Row, Statuses
<1>3. exc[e] \in Row
  BY DEF TypeOK
<1>4. Flush(exc[e], row, [row EXCEPT !.status = d.outcome]) \in Row
  BY <1>2, <1>3, FlushType
<1>5. exc' \in [Items -> Row]
  BY <1>4 DEF Close, TypeOK
<1>6. settlement' \in [Items -> Settlements]
  BY DEF Close, TypeOK, Settlements
<1> QED BY <1>5, <1>6 DEF Close, TypeOK

LEMMA LoadType ==
  ASSUME TypeOK, NEW s \in Sessions, NEW k \in Kinds, NEW e \in Items,
         NEW u \in Users, NEW o \in Outcomes, NEW r \in Reasons \cup {None},
         NEW dual \in BOOLEAN, Load(s, k, e, u, o, r, dual)
  PROVE  TypeOK'
<1>1. [kind |-> k, item |-> e, user |-> u, outcome |-> o, reason |-> r,
       row |-> exc[e], settlement |-> settlement[e], dual |-> dual] \in Request
  BY DEF TypeOK, Request
<1>2. request' \in [Sessions -> Request \cup {None}]
  BY <1>1 DEF Load, TypeOK
<1> QED BY <1>2 DEF Load, TypeOK, settings, worker

LEMMA RequestType ==
  ASSUME TypeOK, NEW s \in Sessions, request[s] # None
  PROVE  /\ request[s] \in Request
         /\ request[s].item \in Items /\ request[s].row \in Row
         /\ request[s].kind \in Kinds /\ request[s].user \in Users
         /\ request[s].outcome \in Outcomes /\ request[s].reason \in Reasons \cup {None}
         /\ request[s].settlement \in Settlements /\ request[s].dual \in BOOLEAN
<1>1. request[s] \in Request
  BY DEF TypeOK
<1> QED BY <1>1 DEF Request

LEMMA FinishType ==
  ASSUME TypeOK, NEW s \in Sessions, Finish(s)
  PROVE  request' \in [Sessions -> Request \cup {None}]
BY DEF TypeOK, Finish

LEMMA OpenType ==
  ASSUME TypeOK, NEW e \in Items
  PROVE  [exc EXCEPT ![e].status = "open"] \in [Items -> Row]
<1>1. exc[e] \in Row
  BY DEF TypeOK
<1>2. "open" \in Statuses
  BY DEF Statuses, Undecided
<1>3. [exc[e] EXCEPT !.status = "open"] \in Row
  BY <1>1, <1>2 DEF Row
<1> QED BY <1>3 DEF TypeOK

LEMMA TypeStep == TypeOK /\ [Next]_vars => TypeOK'
<1> SUFFICES ASSUME TypeOK, [Next]_vars PROVE TypeOK'
  OBVIOUS
<1> USE DEF settings, worker
<1>1. ASSUME NEW e \in Items, Ingest(e) PROVE TypeOK'
  <2>1. exc' \in [Items -> Row]
    BY <1>1, OpenType DEF Ingest
  <2> QED BY <1>1, <2>1 DEF TypeOK, Ingest
<1>2. ASSUME NEW e \in Items, EscalateAfterOcr(e) PROVE TypeOK'
  <2>1. exc' \in [Items -> Row]
    BY <1>2, OpenType DEF EscalateAfterOcr
  <2> QED BY <1>2, <2>1 DEF TypeOK, EscalateAfterOcr, Settlements
<1>3. ASSUME NEW e \in Items, DeadlinePasses(e) PROVE TypeOK'
  BY <1>3 DEF TypeOK, DeadlinePasses
<1>4. ASSUME NEW e \in Items, RetractLabel(e) PROVE TypeOK'
  <2>1. labels' \in [Items -> [active: Nat, total: Nat]]
    BY <1>4 DEF TypeOK, RetractLabel
  <2> QED BY <1>4, <2>1 DEF TypeOK, RetractLabel
<1>5. CASE Administrator
  BY <1>5 DEF TypeOK, Administrator, SetDualControl, SetDisposition, SetReasonActive
<1>6. CASE BeginSweep
  BY <1>6 DEF TypeOK, BeginSweep, Due
<1>7. ASSUME NEW e \in Items, SweepSkip(e) \/ SweepAbort(e) PROVE TypeOK'
  BY <1>7 DEF TypeOK, SweepSkip, SweepAbort
<1>8. ASSUME NEW e \in Items, NEW o \in Outcomes, SweepDecide(e, o) PROVE TypeOK'
  <2> DEFINE d == [outcome |-> o, reason |-> AutoReason(e, o), maker |-> None, checker |-> None,
                   source |-> IF disposition[Network(e)].mode = "ml_determined"
                              THEN "auto_ml" ELSE "auto_default",
                   dual |-> FALSE]
             row == [exc[e] EXCEPT !.status = "open"]
  <2>1. d \in Decision
    BY AutoReasonType DEF Decision, Sources
  <2>2. row \in Row
    BY DEF TypeOK, Row, Statuses, Undecided
  <2>3. Close(e, d, row, settlement[e])
    BY <1>8 DEF SweepDecide
  <2>4. /\ decision' \in [Items -> Decision \cup {None}]
        /\ exc' \in [Items -> Row]
        /\ settlement' \in [Items -> Settlements]
    <3> HIDE DEF d, row
    <3> QED BY <2>1, <2>2, <2>3, CloseType
  <2> QED BY <1>8, <2>4 DEF TypeOK, SweepDecide
<1>9. CASE RestartWorker
  BY <1>9, ConstantsAssumption DEF TypeOK, RestartWorker
<1>10. ASSUME NEW s \in Sessions, Reviewer(s) PROVE TypeOK'
  <2>1. PICK e \in Items, u \in Users, o \in Outcomes, r \in Reasons \cup {None} :
          LoadRecommend(s, e, u, o, r) \/ LoadDecide(s, e, u, o, r)
    BY <1>10 DEF Reviewer
  <2>2. CASE LoadRecommend(s, e, u, o, r)
    BY <2>2, LoadType DEF LoadRecommend, Kinds
  <2>3. CASE LoadDecide(s, e, u, o, r)
    <3>1. dualControl \in BOOLEAN
      BY DEF TypeOK
    <3> QED BY <2>3, <3>1, LoadType DEF LoadDecide, Kinds
  <2> QED BY <2>1, <2>2, <2>3
<1>11. ASSUME NEW s \in Sessions, Staff(s) PROVE TypeOK'
  <2>1. PICK e \in Items, u \in Users :
          LoadBackOut(s, e, u) \/ \E r \in Reasons \cup {None} : LoadLabel(s, e, u, r)
    BY <1>11 DEF Staff
  <2>2. CASE LoadBackOut(s, e, u)
    BY <2>2, LoadType DEF LoadBackOut, Kinds, Outcomes
  <2>3. ASSUME NEW r \in Reasons \cup {None}, LoadLabel(s, e, u, r)
        PROVE  TypeOK'
    BY <2>3, LoadType DEF LoadLabel, Kinds, Outcomes
  <2> QED BY <2>1, <2>2, <2>3
<1>12. ASSUME NEW s \in Sessions, CommitRecommend(s) PROVE TypeOK'
  <2> DEFINE q == request[s]
             edited == [status |-> "pending_approval", by |-> q.user, outcome |-> q.outcome]
  <2>1. q.item \in Items /\ q.row \in Row /\ q.user \in Users /\ q.outcome \in Outcomes
    BY <1>12, RequestType DEF CommitRecommend
  <2>2. edited \in Row
    BY <2>1 DEF Row, Statuses, Undecided
  <2>3. exc[q.item] \in Row
    BY <2>1 DEF TypeOK
  <2>4. Flush(exc[q.item], q.row, edited) \in Row
    BY <2>1, <2>2, <2>3, FlushType
  <2>5. exc' \in [Items -> Row]
    BY <1>12, <2>4 DEF CommitRecommend, TypeOK
  <2>6. <<q.user, q.outcome>> \in Users \X Outcomes
    BY <2>1
  <2>7. proposed' \in [Items -> SUBSET (Users \X Outcomes)]
    <3>1. proposed' = [proposed EXCEPT ![q.item] = proposed[q.item] \cup {<<q.user, q.outcome>>}]
      BY <1>12 DEF CommitRecommend
    <3> QED BY <2>1, <2>6, <3>1 DEF TypeOK
  <2> QED BY <1>12, <2>5, <2>7, FinishType DEF CommitRecommend, TypeOK
<1>13. ASSUME NEW s \in Sessions, CommitDecide(s) PROVE TypeOK'
  <2> DEFINE q == request[s]
             d == [outcome |-> q.outcome, source |-> "human", reason |-> q.reason, dual |-> q.dual,
                   maker |-> IF q.dual THEN q.row.by ELSE None, checker |-> q.user]
  <2>1. /\ q.item \in Items /\ q.row \in Row /\ q.user \in Users
        /\ q.outcome \in Outcomes /\ q.reason \in Reasons \cup {None} /\ q.dual \in BOOLEAN
    BY <1>13, RequestType DEF CommitDecide
  <2>2. d \in Decision
    BY <2>1 DEF Decision, Sources, Row
  <2>3. Close(q.item, d, q.row, q.settlement)
    BY <1>13 DEF CommitDecide
  <2>4. /\ decision' \in [Items -> Decision \cup {None}]
        /\ exc' \in [Items -> Row]
        /\ settlement' \in [Items -> Settlements]
    <3> HIDE DEF d
    <3> QED BY <2>1, <2>2, <2>3, CloseType
  <2> QED BY <1>13, <2>4, FinishType DEF CommitDecide, TypeOK
<1>14. ASSUME NEW s \in Sessions, CommitBackOut(s) PROVE TypeOK'
  <2> DEFINE q == request[s]
             edited == [q.row EXCEPT !.status = "withdrawn"]
  <2>1. q.item \in Items /\ q.row \in Row
    BY <1>14, RequestType DEF CommitBackOut
  <2>2. edited \in Row
    BY <2>1 DEF Row, Statuses
  <2>3. Flush(exc[q.item], q.row, edited) \in Row
    BY <2>1, <2>2, FlushType DEF TypeOK
  <2>4. exc' \in [Items -> Row]
    BY <1>14, <2>3 DEF CommitBackOut, TypeOK
  <2> QED BY <1>14, <2>4, FinishType DEF CommitBackOut, TypeOK, Settlements
<1>15. ASSUME NEW s \in Sessions, CommitLabel(s) PROVE TypeOK'
  <2> DEFINE e == request[s].item
  <2>1. e \in Items
    BY <1>15, RequestType DEF CommitLabel
  <2>2. labels' = [labels EXCEPT ![e] = [active |-> labels[e].active + 1, total |-> labels[e].total + 1]]
    BY <1>15 DEF CommitLabel
  <2>3. labels' \in [Items -> [active: Nat, total: Nat]]
    BY <2>1, <2>2 DEF TypeOK
  <2>4. settlement' \in [Items -> Settlements]
    BY <1>15, <2>1 DEF CommitLabel, TypeOK, Settlements
  <2> QED BY <1>15, <2>3, <2>4, FinishType DEF CommitLabel, TypeOK
<1>16. ASSUME NEW s \in Sessions, Rollback(s) PROVE TypeOK'
  BY <1>16, FinishType DEF Rollback, TypeOK
<1>17. CASE UNCHANGED vars
  BY <1>17 DEF vars, TypeOK
<1> QED
  BY <1>1, <1>2, <1>3, <1>4, <1>5, <1>6, <1>7, <1>8, <1>9, <1>10, <1>11, <1>12, <1>13,
     <1>14, <1>15, <1>16, <1>17 DEF Next, Environment, SweepRow, Answer

\* The model's state is well typed, whatever overlaps.
THEOREM TypeCorrect == Spec => []TypeOK
<1>1. Init => TypeOK
  BY ConstantsAssumption DEF Init, TypeOK, Row, Statuses, Settlements
<1> QED BY <1>1, TypeStep, PTL DEF Spec

-----------------------------------------------------------------------------
(* What the writing actions do to a row, in a form the steps below use.    *)

\* Closing writes the decision's outcome into the status, whatever the stored
\* status has become, because the copy it was loaded into was undecided; the
\* recommendation's columns are left alone.
LEMMA CloseEffect ==
  ASSUME TypeOK, NEW e \in Items, NEW d \in Decision, NEW row \in Row, NEW st,
         row.status \in Undecided, Close(e, d, row, st)
  PROVE  /\ decision[e] = None
         /\ decision' = [decision EXCEPT ![e] = d]
         /\ exc'[e].status = d.outcome /\ d.outcome \in Outcomes
         /\ exc'[e].by = exc[e].by /\ exc'[e].outcome = exc[e].outcome
         /\ \A f \in Items : f # e => exc'[f] = exc[f]
         /\ \A f \in Items : f # e => settlement'[f] = settlement[f]
<1>1. d.outcome \in Outcomes
  BY DEF Decision
<1>2. d.outcome # row.status
  BY <1>1 DEF Outcomes, Undecided
<1> DEFINE edited == [row EXCEPT !.status = d.outcome]
<1>3. edited.status = d.outcome /\ edited.by = row.by /\ edited.outcome = row.outcome
  BY DEF Row
<1>4. exc' = [exc EXCEPT ![e] = Flush(exc[e], row, edited)]
  BY DEF Close
<1>5. exc'[e] = Flush(exc[e], row, edited)
  BY <1>4 DEF TypeOK
<1>6. exc'[e].status = d.outcome /\ exc'[e].by = exc[e].by /\ exc'[e].outcome = exc[e].outcome
  <2> HIDE DEF edited
  <2> QED BY <1>2, <1>3, <1>5 DEF Flush
<1>7. \A f \in Items : f # e => exc'[f] = exc[f]
  BY <1>4 DEF TypeOK
<1>8. \A f \in Items : f # e => settlement'[f] = settlement[f]
  BY DEF Close, TypeOK
<1> QED BY <1>1, <1>6, <1>7, <1>8 DEF Close

\* The same for the two actions that close an item.
LEMMA DecideEffect ==
  ASSUME TypeOK, LoadedGuardInv, NEW s \in Sessions, CommitDecide(s)
  PROVE  LET q == request[s]
             d == [outcome |-> q.outcome, source |-> "human", reason |-> q.reason, dual |-> q.dual,
                   maker |-> IF q.dual THEN q.row.by ELSE None, checker |-> q.user] IN
         /\ q.item \in Items /\ decision[q.item] = None
         /\ d \in Decision /\ decision' = [decision EXCEPT ![q.item] = d]
         /\ exc'[q.item].status = q.outcome /\ q.outcome \in Outcomes
         /\ exc'[q.item].by = exc[q.item].by /\ exc'[q.item].outcome = exc[q.item].outcome
         /\ \A f \in Items : f # q.item => exc'[f] = exc[f] /\ settlement'[f] = settlement[f]
<1> DEFINE q == request[s]
           d == [outcome |-> q.outcome, source |-> "human", reason |-> q.reason, dual |-> q.dual,
                 maker |-> IF q.dual THEN q.row.by ELSE None, checker |-> q.user]
<1>1. /\ q.item \in Items /\ q.row \in Row /\ q.user \in Users
      /\ q.outcome \in Outcomes /\ q.reason \in Reasons \cup {None} /\ q.dual \in BOOLEAN
  BY RequestType DEF CommitDecide
<1>2. d \in Decision /\ d.outcome = q.outcome
  BY <1>1 DEF Decision, Sources, Row
<1>3. q.row.status \in Undecided
  BY DEF LoadedGuardInv, CommitDecide
<1>4. Close(q.item, d, q.row, q.settlement)
  BY DEF CommitDecide
<1>5. /\ decision[q.item] = None /\ decision' = [decision EXCEPT ![q.item] = d]
      /\ exc'[q.item].status = d.outcome
      /\ exc'[q.item].by = exc[q.item].by /\ exc'[q.item].outcome = exc[q.item].outcome
      /\ \A f \in Items : f # q.item => exc'[f] = exc[f]
      /\ \A f \in Items : f # q.item => settlement'[f] = settlement[f]
  <2> HIDE DEF d
  <2> QED BY <1>1, <1>2, <1>3, <1>4, CloseEffect
<1> QED BY <1>1, <1>2, <1>5

LEMMA SweepEffect ==
  ASSUME TypeOK, NEW e \in Items, NEW o \in Outcomes, SweepDecide(e, o)
  PROVE  /\ decision[e] = None
         /\ \E d \in Decision :
              /\ decision' = [decision EXCEPT ![e] = d]
              /\ d.outcome = o /\ d.dual = FALSE /\ d.reason = AutoReason(e, o)
         /\ exc'[e].status = o /\ exc'[e].by = exc[e].by /\ exc'[e].outcome = exc[e].outcome
         /\ \A f \in Items : f # e => exc'[f] = exc[f] /\ settlement'[f] = settlement[f]
<1> DEFINE d == [outcome |-> o, reason |-> AutoReason(e, o), maker |-> None, checker |-> None,
                 source |-> IF disposition[Network(e)].mode = "ml_determined"
                            THEN "auto_ml" ELSE "auto_default",
                 dual |-> FALSE]
           row == [exc[e] EXCEPT !.status = "open"]
<1>1. d \in Decision /\ d.outcome = o /\ d.dual = FALSE /\ d.reason = AutoReason(e, o)
  BY AutoReasonType DEF Decision, Sources
<1>2. row \in Row /\ row.status \in Undecided
  BY DEF TypeOK, Row, Statuses, Undecided
<1>3. Close(e, d, row, settlement[e])
  BY DEF SweepDecide
<1>4. /\ decision[e] = None /\ decision' = [decision EXCEPT ![e] = d]
      /\ exc'[e].status = d.outcome /\ exc'[e].by = exc[e].by /\ exc'[e].outcome = exc[e].outcome
      /\ \A f \in Items : f # e => exc'[f] = exc[f]
      /\ \A f \in Items : f # e => settlement'[f] = settlement[f]
  <2> HIDE DEF d, row
  <2> QED BY <1>1, <1>2, <1>3, CloseEffect
<1> HIDE DEF d, row
<1> QED BY <1>1, <1>4

\* A recommendation puts its maker on record, unless the copy named the same
\* maker already and the stored row keeps whoever is there.
LEMMA RecommendEffect ==
  ASSUME TypeOK, NEW s \in Sessions, CommitRecommend(s)
  PROVE  LET q == request[s] IN
         /\ q.item \in Items /\ q.user \in Users /\ q.outcome \in Outcomes
         /\ exc'[q.item].status \in {"pending_approval", exc[q.item].status}
         /\ q.row.status # "pending_approval" => exc'[q.item].status = "pending_approval"
         /\ \/ exc'[q.item].by = q.user
            \/ exc'[q.item].by = exc[q.item].by /\ q.row.by = q.user
         /\ \A f \in Items : f # q.item => exc'[f] = exc[f]
         /\ proposed' = [proposed EXCEPT ![q.item] = @ \cup {<<q.user, q.outcome>>}]
<1> DEFINE q == request[s]
           edited == [status |-> "pending_approval", by |-> q.user, outcome |-> q.outcome]
<1>1. q.item \in Items /\ q.user \in Users /\ q.outcome \in Outcomes
  BY RequestType DEF CommitRecommend
<1>2. exc' = [exc EXCEPT ![q.item] = Flush(exc[q.item], q.row, edited)]
  BY DEF CommitRecommend
<1>3. exc'[q.item] = Flush(exc[q.item], q.row, edited)
  BY <1>1, <1>2 DEF TypeOK
<1>4. /\ exc'[q.item].status \in {"pending_approval", exc[q.item].status}
      /\ q.row.status # "pending_approval" => exc'[q.item].status = "pending_approval"
      /\ \/ exc'[q.item].by = q.user
         \/ exc'[q.item].by = exc[q.item].by /\ q.row.by = q.user
  BY <1>3 DEF Flush
<1>5. \A f \in Items : f # q.item => exc'[f] = exc[f]
  BY <1>1, <1>2 DEF TypeOK
<1> QED BY <1>1, <1>4, <1>5 DEF CommitRecommend

\* A back-out withdraws an item whose copy was undecided, and nothing else.
LEMMA BackOutEffect ==
  ASSUME TypeOK, NEW s \in Sessions, CommitBackOut(s)
  PROVE  LET q == request[s] IN
         /\ q.item \in Items
         /\ exc'[q.item].status \in {"withdrawn", exc[q.item].status}
         /\ q.row.status \notin Undecided => exc' = exc
         /\ exc'[q.item].by = exc[q.item].by /\ exc'[q.item].outcome = exc[q.item].outcome
         /\ \A f \in Items : f # q.item => exc'[f] = exc[f] /\ settlement'[f] = settlement[f]
<1> DEFINE q == request[s]
           edited == [q.row EXCEPT !.status = "withdrawn"]
<1>1. q.item \in Items /\ q.row \in Row
  BY RequestType DEF CommitBackOut
<1>2. edited.by = q.row.by /\ edited.outcome = q.row.outcome /\ edited.status = "withdrawn"
  BY <1>1 DEF Row
<1>3. CASE q.row.status \in Undecided
  <2>1. exc' = [exc EXCEPT ![q.item] = Flush(exc[q.item], q.row, edited)]
    BY <1>3 DEF CommitBackOut
  <2>2. exc'[q.item] = Flush(exc[q.item], q.row, edited)
    BY <1>1, <2>1 DEF TypeOK
  <2>3. /\ exc'[q.item].status \in {"withdrawn", exc[q.item].status}
        /\ exc'[q.item].by = exc[q.item].by /\ exc'[q.item].outcome = exc[q.item].outcome
    <3> HIDE DEF edited
    <3> QED BY <1>2, <2>2 DEF Flush
  <2>4. \A f \in Items : f # q.item => exc'[f] = exc[f]
    BY <1>1, <2>1 DEF TypeOK
  <2> QED BY <1>1, <1>3, <2>3, <2>4 DEF CommitBackOut, TypeOK
<1>4. CASE q.row.status \notin Undecided
  <2>1. exc' = exc
    BY <1>4 DEF CommitBackOut
  <2> QED BY <1>1, <2>1 DEF CommitBackOut, TypeOK
<1> QED BY <1>3, <1>4

-----------------------------------------------------------------------------
(* What a step can do, grouped by the state it touches.                    *)

\* A step raises an exception, closes one, commits a request, retracts a
\* label, or leaves the business tables alone.
LEMMA StepCases ==
  ASSUME [Next]_vars
  PROVE  \/ \E e \in Items : Ingest(e) \/ (e \in Checks /\ EscalateAfterOcr(e))
         \/ \E e \in Items : RetractLabel(e)
         \/ \E e \in Items, o \in Outcomes : SweepDecide(e, o)
         \/ \E s \in Sessions : CommitRecommend(s) \/ CommitDecide(s)
                                \/ CommitBackOut(s) \/ CommitLabel(s)
         \/ UNCHANGED <<exc, decision, settlement, labels, proposed>>
<1>1. CASE Environment
  BY <1>1 DEF Environment, DeadlinePasses
<1>2. CASE Administrator
  BY <1>2 DEF Administrator, SetDualControl, SetDisposition, SetReasonActive
<1>3. CASE BeginSweep \/ SweepRow \/ RestartWorker
  BY <1>3 DEF BeginSweep, SweepRow, RestartWorker, SweepSkip, SweepAbort
<1>4. ASSUME NEW s \in Sessions, Reviewer(s) \/ Staff(s) \/ Rollback(s)
      PROVE  UNCHANGED <<exc, decision, settlement, labels, proposed>>
  BY <1>4 DEF Reviewer, Staff, Rollback, LoadRecommend, LoadDecide, LoadBackOut, LoadLabel, Load
<1>5. CASE UNCHANGED vars
  BY <1>5 DEF vars
<1> QED BY <1>1, <1>2, <1>3, <1>4, <1>5 DEF Next, Answer

\* A session's request is dropped, kept, or newly loaded from the tables as
\* they are, under the guards of its kind.
Loaded(q) ==
  /\ q.item \in Items
  /\ q.row = exc[q.item] /\ q.settlement = settlement[q.item]
  /\ q.kind = "decide" =>
       /\ q.row.status \in Undecided
       /\ q.dual => q.row.status = "pending_approval" /\ q.row.by # q.user
       /\ (q.reason # None) <=> (q.item \in AchTxns /\ q.outcome = "return")
  /\ q.kind = "back_out" => q.item \in Checks
  /\ UNCHANGED <<exc, settlement, proposed>>

LEMMA LoadedByLoad ==
  ASSUME TypeOK, NEW s \in Sessions, NEW k \in Kinds, NEW e \in Items, NEW u \in Users,
         NEW o \in Outcomes, NEW r, NEW dual, Load(s, k, e, u, o, r, dual),
         k = "decide" =>
           /\ exc[e].status \in Undecided
           /\ dual => exc[e].status = "pending_approval" /\ exc[e].by # u
           /\ (r # None) <=> (e \in AchTxns /\ o = "return"),
         k = "back_out" => e \in Checks
  PROVE  \A t \in Sessions : request'[t] = request[t] \/ Loaded(request'[t])
<1> DEFINE q == [kind |-> k, item |-> e, user |-> u, outcome |-> o, reason |-> r,
                 row |-> exc[e], settlement |-> settlement[e], dual |-> dual]
<1>1. request' = [request EXCEPT ![s] = q] /\ UNCHANGED <<exc, settlement, proposed>>
  BY DEF Load
<1>2. Loaded(q)
  BY <1>1 DEF Loaded
<1>3. \A t \in Sessions : request'[t] = request[t] \/ request'[t] = q
  <2> HIDE DEF q
  <2> QED BY <1>1 DEF TypeOK
<1> QED BY <1>2, <1>3

LEMMA RequestStep ==
  ASSUME TypeOK, [Next]_vars
  PROVE  \A s \in Sessions :
           \/ request'[s] = None \/ request'[s] = request[s] \/ Loaded(request'[s])
<1>1. CASE Environment
  BY <1>1 DEF Environment, DeadlinePasses, Ingest, RetractLabel, EscalateAfterOcr
<1>2. CASE Administrator
  BY <1>2 DEF Administrator, SetDualControl, SetDisposition, SetReasonActive
<1>3. CASE BeginSweep \/ SweepRow \/ RestartWorker
  BY <1>3 DEF BeginSweep, SweepRow, RestartWorker, SweepSkip, SweepAbort, SweepDecide
<1>4. ASSUME NEW s \in Sessions, Answer(s) \/ Rollback(s)
      PROVE  \A t \in Sessions : request'[t] = None \/ request'[t] = request[t]
  BY <1>4 DEF TypeOK, Answer, Rollback, CommitRecommend, CommitDecide, CommitBackOut, CommitLabel, Finish
<1>5. ASSUME NEW s \in Sessions, NEW e \in Items, NEW u \in Users, NEW o \in Outcomes,
             NEW r \in Reasons \cup {None}, LoadRecommend(s, e, u, o, r)
      PROVE  \A t \in Sessions : request'[t] = request[t] \/ Loaded(request'[t])
  BY <1>5, LoadedByLoad DEF LoadRecommend, Kinds
<1>6. ASSUME NEW s \in Sessions, NEW e \in Items, NEW u \in Users, NEW o \in Outcomes,
             NEW r \in Reasons \cup {None}, LoadDecide(s, e, u, o, r)
      PROVE  \A t \in Sessions : request'[t] = request[t] \/ Loaded(request'[t])
  <2>1. (r # None) <=> (e \in AchTxns /\ o = "return")
    BY <1>6, ConstantsAssumption DEF LoadDecide, ReasonResolves, TypeOK
  <2> QED BY <1>6, <2>1, LoadedByLoad DEF LoadDecide, Kinds
<1>7. ASSUME NEW s \in Sessions, NEW e \in Items, NEW u \in Users, LoadBackOut(s, e, u)
      PROVE  \A t \in Sessions : request'[t] = request[t] \/ Loaded(request'[t])
  BY <1>7, LoadedByLoad DEF LoadBackOut, Kinds, Outcomes
<1>8. ASSUME NEW s \in Sessions, NEW e \in Items, NEW u \in Users, NEW r \in Reasons \cup {None},
             LoadLabel(s, e, u, r)
      PROVE  \A t \in Sessions : request'[t] = request[t] \/ Loaded(request'[t])
  BY <1>8, LoadedByLoad DEF LoadLabel, Kinds, Outcomes
<1>9. CASE UNCHANGED vars
  BY <1>9 DEF vars
<1> QED BY <1>1, <1>2, <1>3, <1>4, <1>5, <1>6, <1>7, <1>8, <1>9 DEF Next, Reviewer, Staff

\* Recommendations on record are never forgotten.
LEMMA ProposedGrows ==
  ASSUME TypeOK, [Next]_vars, NEW e \in Items
  PROVE  proposed[e] \subseteq proposed'[e]
<1>1. ASSUME NEW s \in Sessions, CommitRecommend(s) PROVE proposed[e] \subseteq proposed'[e]
  BY <1>1, RecommendEffect DEF TypeOK
<1> QED BY <1>1, StepCases DEF Ingest, EscalateAfterOcr, RetractLabel, SweepDecide, CommitDecide,
           CommitBackOut, CommitLabel

\* Nor does an exception that has a maker ever lose it.
LEMMA MakerStays ==
  ASSUME TypeOK, LoadedGuardInv, [Next]_vars, NEW e \in Items, exc[e].by # None
  PROVE  exc'[e].by # None
<1>1. ASSUME NEW f \in Items, Ingest(f) \/ EscalateAfterOcr(f) PROVE exc'[e].by = exc[e].by
  BY <1>1 DEF Ingest, EscalateAfterOcr, TypeOK, Row
<1>2. ASSUME NEW s \in Sessions, CommitRecommend(s) PROVE exc'[e].by # None
  BY <1>2, RecommendEffect, ConstantsAssumption
<1>3. ASSUME NEW s \in Sessions, CommitDecide(s) PROVE exc'[e].by = exc[e].by
  BY <1>3, DecideEffect
<1>4. ASSUME NEW s \in Sessions, CommitBackOut(s) PROVE exc'[e].by = exc[e].by
  BY <1>4, BackOutEffect
<1>5. ASSUME NEW f \in Items, NEW o \in Outcomes, SweepDecide(f, o) PROVE exc'[e].by = exc[e].by
  BY <1>5, SweepEffect
<1> QED BY <1>1, <1>2, <1>3, <1>4, <1>5, StepCases DEF RetractLabel, CommitLabel

-----------------------------------------------------------------------------
(* Each part of the invariant survives a step.                             *)

LEMMA InitInv == Init => IInv
<1> SUFFICES ASSUME Init PROVE IInv
  OBVIOUS
<1>1. TypeOK
  BY ConstantsAssumption DEF Init, TypeOK, Row, Statuses, Settlements
<1>2. MakerInv /\ LoadedMakerInv /\ LoadedGuardInv
  BY DEF Init, MakerInv, LoadedMakerInv, LoadedGuardInv
<1>3. DecidedInv /\ DeadlineInv /\ SweepInv
  BY DEF Init, DecidedInv, DeadlineInv, SweepInv, Decided
<1>4. FourEyes /\ StatusBacked /\ AutoOnlyWhenDue
  BY DEF Init, FourEyes, StatusBacked, AutoOnlyWhenDue, Decided, Outcomes
<1>5. AchReturnSettled
  BY DEF Init, AchReturnSettled, Decided
<1> QED BY <1>1, <1>2, <1>3, <1>4, <1>5 DEF IInv

LEMMA MakerStep ==
  ASSUME TypeOK, MakerInv, LoadedMakerInv, LoadedGuardInv, [Next]_vars
  PROVE  MakerInv'
<1> SUFFICES ASSUME NEW e \in Items
             PROVE  /\ exc'[e].by # None => Recommended(exc[e].by, e)'
                    /\ exc'[e].status = "pending_approval" => exc'[e].by # None
  BY DEF MakerInv
<1>1. exc[e].by # None => Recommended(exc[e].by, e)
  BY DEF MakerInv
<1>2. exc[e].status = "pending_approval" => exc[e].by # None
  BY DEF MakerInv
<1>3. proposed[e] \subseteq proposed'[e]
  BY ProposedGrows
<1>4. ASSUME exc'[e].by = exc[e].by, exc'[e].status # "pending_approval" \/ exc'[e].status = exc[e].status
      PROVE  /\ exc'[e].by # None => Recommended(exc[e].by, e)'
             /\ exc'[e].status = "pending_approval" => exc'[e].by # None
  BY <1>1, <1>2, <1>3, <1>4 DEF Recommended
<1>5. ASSUME NEW f \in Items, Ingest(f) \/ EscalateAfterOcr(f)
      PROVE  exc'[e].by = exc[e].by /\ (exc'[e].status # "pending_approval" \/ exc'[e].status = exc[e].status)
  BY <1>5 DEF Ingest, EscalateAfterOcr, TypeOK, Row
<1>6. ASSUME NEW s \in Sessions, CommitRecommend(s)
      PROVE  /\ exc'[e].by # None => Recommended(exc[e].by, e)'
             /\ exc'[e].status = "pending_approval" => exc'[e].by # None
  <2> DEFINE q == request[s]
  <2>1. CASE e # q.item
    <3>1. exc'[e] = exc[e]
      BY <1>6, <2>1, RecommendEffect
    <3> QED BY <3>1, <1>4
  <2>2. CASE e = q.item
    <3>1. /\ q.user \in Users /\ q.outcome \in Outcomes
          /\ \/ exc'[e].by = q.user
             \/ exc'[e].by = exc[e].by /\ q.row.by = q.user
      BY <1>6, <2>2, RecommendEffect
    <3>2. <<q.user, q.outcome>> \in proposed'[e]
      <4>1. proposed' = [proposed EXCEPT ![e] = proposed[e] \cup {<<q.user, q.outcome>>}]
        BY <1>6, <2>2, RecommendEffect
      <4> QED BY <4>1 DEF TypeOK
    <3>3. q.user # None
      BY <3>1, ConstantsAssumption
    <3>4. CASE exc'[e].by = q.user
      BY <3>1, <3>2, <3>3, <3>4 DEF Recommended
    <3>5. CASE exc'[e].by = exc[e].by /\ q.row.by = q.user
      <4>1. exc[e].by # None
        BY <1>6, <2>2, <3>3, <3>5 DEF LoadedMakerInv, CommitRecommend
      <4> QED BY <1>1, <1>3, <3>5, <4>1 DEF Recommended
    <3> QED BY <3>1, <3>4, <3>5
  <2> QED BY <2>1, <2>2
<1>7. ASSUME NEW s \in Sessions, CommitDecide(s)
      PROVE  exc'[e].by = exc[e].by /\ (exc'[e].status # "pending_approval" \/ exc'[e].status = exc[e].status)
  BY <1>7, DecideEffect DEF Outcomes
<1>8. ASSUME NEW s \in Sessions, CommitBackOut(s)
      PROVE  exc'[e].by = exc[e].by /\ (exc'[e].status # "pending_approval" \/ exc'[e].status = exc[e].status)
  BY <1>8, BackOutEffect
<1>9. ASSUME NEW f \in Items, NEW o \in Outcomes, SweepDecide(f, o)
      PROVE  exc'[e].by = exc[e].by /\ (exc'[e].status # "pending_approval" \/ exc'[e].status = exc[e].status)
  BY <1>9, SweepEffect DEF Outcomes
<1>10. (UNCHANGED exc) => exc'[e].by = exc[e].by /\ exc'[e].status = exc[e].status
  OBVIOUS
<1> QED BY <1>4, <1>5, <1>6, <1>7, <1>8, <1>9, <1>10, StepCases DEF RetractLabel, CommitLabel

LEMMA LoadedMakerStep ==
  ASSUME TypeOK, MakerInv, LoadedMakerInv, LoadedGuardInv, [Next]_vars
  PROVE  LoadedMakerInv'
<1> SUFFICES ASSUME NEW s \in Sessions, request'[s] # None
             PROVE  /\ request'[s].row.by # None =>
                         /\ Recommended(request[s].row.by, request[s].item)'
                         /\ exc'[request'[s].item].by # None
                    /\ request'[s].row.status = "pending_approval" => request'[s].row.by # None
  BY DEF LoadedMakerInv
<1>1. CASE request'[s] = request[s]
  <2>1. request[s].item \in Items
    BY <1>1, RequestType
  <2>2. /\ request[s].row.by # None =>
             /\ Recommended(request[s].row.by, request[s].item)
             /\ exc[request[s].item].by # None
        /\ request[s].row.status = "pending_approval" => request[s].row.by # None
    BY <1>1 DEF LoadedMakerInv
  <2>3. proposed[request[s].item] \subseteq proposed'[request[s].item]
    BY <2>1, ProposedGrows
  <2>4. exc[request[s].item].by # None => exc'[request[s].item].by # None
    BY <2>1, MakerStays
  <2> QED BY <1>1, <2>2, <2>3, <2>4 DEF Recommended
<1>2. CASE Loaded(request'[s])
  BY <1>2 DEF Loaded, MakerInv, Recommended
<1> QED BY <1>1, <1>2, RequestStep

\* An ACH transaction once settled RETURNED stays so.
LEMMA AchReturnStays ==
  ASSUME TypeOK, LoadedGuardInv, [Next]_vars, NEW a \in AchTxns, settlement[a] = "returned"
  PROVE  settlement'[a] = "returned"
<1>1. ASSUME NEW e \in Items, Ingest(e) \/ (e \in Checks /\ EscalateAfterOcr(e))
      PROVE  settlement'[a] = settlement[a]
  BY <1>1, ConstantsAssumption DEF Ingest, EscalateAfterOcr, TypeOK
<1>2. ASSUME NEW e \in Items, NEW d, NEW row, NEW st, Close(e, d, row, st)
      PROVE  settlement'[a] = "returned"
  BY <1>2 DEF Close, TypeOK
<1>3. ASSUME NEW s \in Sessions, CommitDecide(s) PROVE settlement'[a] = "returned"
  BY <1>2, <1>3, RequestType DEF CommitDecide
<1>4. ASSUME NEW e \in Items, NEW o \in Outcomes, SweepDecide(e, o)
      PROVE  settlement'[a] = "returned"
  BY <1>2, <1>4 DEF SweepDecide
<1>5. ASSUME NEW s \in Sessions, CommitBackOut(s) PROVE settlement'[a] = settlement[a]
  <2>1. request[s].item \in Checks
    BY <1>5 DEF LoadedGuardInv, CommitBackOut
  <2> QED BY <1>5, <2>1, BackOutEffect, ConstantsAssumption
<1>6. ASSUME NEW s \in Sessions, CommitLabel(s) PROVE settlement'[a] = "returned"
  BY <1>6 DEF CommitLabel, TypeOK
<1> QED BY <1>1, <1>3, <1>4, <1>5, <1>6, StepCases DEF RetractLabel, CommitRecommend

LEMMA LoadedGuardStep ==
  ASSUME TypeOK, LoadedGuardInv, [Next]_vars
  PROVE  LoadedGuardInv'
<1> SUFFICES ASSUME NEW s \in Sessions, request'[s] # None
             PROVE  LET q == request'[s] IN
                    /\ q.kind = "decide" =>
                         /\ q.row.status \in Undecided
                         /\ q.dual => q.row.status = "pending_approval" /\ q.row.by # q.user
                         /\ (q.reason # None) <=> (q.item \in AchTxns /\ q.outcome = "return")
                    /\ q.kind = "back_out" => q.item \in Checks
                    /\ q.item \in AchTxns /\ q.settlement = "returned" =>
                         settlement'[q.item] = "returned"
  BY DEF LoadedGuardInv
<1>1. CASE request'[s] = request[s]
  BY <1>1, AchReturnStays DEF LoadedGuardInv
<1>2. CASE Loaded(request'[s])
  BY <1>2 DEF Loaded
<1> QED BY <1>1, <1>2, RequestStep

\* Both closing actions, as one: the item had no decision, and gets one whose
\* outcome is its new status; every other item keeps both.
Closes(e, d) ==
  /\ d \in Decision
  /\ decision[e] = None /\ decision' = [decision EXCEPT ![e] = d]
  /\ exc'[e].status = d.outcome /\ d.outcome \in Outcomes
  /\ \A f \in Items : f # e => exc'[f] = exc[f]

LEMMA DecideCloses ==
  ASSUME TypeOK, LoadedGuardInv, NEW s \in Sessions, CommitDecide(s)
  PROVE  LET q == request[s] IN
         /\ q.item \in Items
         /\ Closes(q.item, [outcome |-> q.outcome, source |-> "human", reason |-> q.reason,
                            dual |-> q.dual, maker |-> IF q.dual THEN q.row.by ELSE None,
                            checker |-> q.user])
BY DecideEffect DEF Closes

LEMMA SweepCloses ==
  ASSUME TypeOK, NEW e \in Items, NEW o \in Outcomes, SweepDecide(e, o)
  PROVE  \E d \in Decision : Closes(e, d) /\ d.dual = FALSE /\ d.reason = AutoReason(e, o)
                             /\ d.outcome = o
<1>1. PICK d \in Decision : /\ decision' = [decision EXCEPT ![e] = d]
                           /\ d.outcome = o /\ d.dual = FALSE /\ d.reason = AutoReason(e, o)
  BY SweepEffect
<1>2. Closes(e, d)
  BY <1>1, SweepEffect DEF Closes
<1> QED BY <1>1, <1>2

\* What a step does to one item's status and decision.
LEMMA StatusStep ==
  ASSUME TypeOK, LoadedGuardInv, [Next]_vars, NEW e \in Items
  PROVE  \/ /\ decision'[e] = decision[e]
            /\ \/ exc'[e].status \in {exc[e].status, "pending_approval", "withdrawn"}
               \/ (exc[e].status = "absent" /\ exc'[e].status = "open")
         \/ \E d : Closes(e, d)
<1> DEFINE Kept == exc'[e].status \in {exc[e].status, "pending_approval", "withdrawn"}
<1>1. ASSUME NEW f \in Items, Ingest(f) \/ EscalateAfterOcr(f)
      PROVE  decision'[e] = decision[e] /\ (Kept \/ (exc[e].status = "absent" /\ exc'[e].status = "open"))
  <2>1. UNCHANGED decision /\ exc[f].status = "absent" /\ exc' = [exc EXCEPT ![f].status = "open"]
    BY <1>1 DEF Ingest, EscalateAfterOcr
  <2>2. exc'[e] = IF e = f THEN [exc[e] EXCEPT !.status = "open"] ELSE exc[e]
    BY <2>1 DEF TypeOK
  <2>3. CASE e = f
    BY <2>1, <2>2, <2>3 DEF TypeOK, Row
  <2>4. CASE e # f
    BY <2>1, <2>2, <2>4
  <2> QED BY <2>3, <2>4
<1>2. ASSUME NEW f \in Items, NEW d, Closes(f, d)
      PROVE  (decision'[e] = decision[e] /\ Kept) \/ Closes(e, d)
  <2>1. CASE f = e
    BY <1>2, <2>1
  <2>2. CASE f # e
    <3>1. exc'[e] = exc[e] /\ decision' = [decision EXCEPT ![f] = d]
      BY <1>2, <2>2 DEF Closes
    <3>2. decision'[e] = decision[e]
      BY <2>2, <3>1 DEF TypeOK
    <3> QED BY <3>1, <3>2
  <2> QED BY <2>1, <2>2
<1>3. ASSUME NEW s \in Sessions, CommitDecide(s)
      PROVE  (decision'[e] = decision[e] /\ Kept) \/ \E d : Closes(e, d)
  BY <1>2, <1>3, DecideCloses
<1>4. ASSUME NEW f \in Items, NEW o \in Outcomes, SweepDecide(f, o)
      PROVE  (decision'[e] = decision[e] /\ Kept) \/ \E d : Closes(e, d)
  BY <1>2, <1>4, SweepCloses
<1>5. ASSUME NEW s \in Sessions, CommitRecommend(s) PROVE decision'[e] = decision[e] /\ Kept
  <2>1. UNCHANGED decision
    BY <1>5 DEF CommitRecommend
  <2> QED BY <1>5, <2>1, RecommendEffect
<1>6. ASSUME NEW s \in Sessions, CommitBackOut(s) PROVE decision'[e] = decision[e] /\ Kept
  <2>1. UNCHANGED decision
    BY <1>6 DEF CommitBackOut
  <2> QED BY <1>6, <2>1, BackOutEffect
<1>7. (UNCHANGED <<exc, decision>>) => decision'[e] = decision[e] /\ Kept
  OBVIOUS
<1> QED BY <1>1, <1>3, <1>4, <1>5, <1>6, <1>7, StepCases DEF RetractLabel, CommitLabel

LEMMA DecidedStep ==
  ASSUME TypeOK, LoadedGuardInv, DecidedInv, StatusBacked, [Next]_vars
  PROVE  DecidedInv' /\ StatusBacked'
<1> SUFFICES ASSUME NEW e \in Items
             PROVE  /\ decision'[e] # None => exc'[e].status \notin {"absent", "open"}
                    /\ exc'[e].status \in Outcomes =>
                         decision'[e] # None /\ decision'[e].outcome = exc'[e].status
  BY DEF DecidedInv, StatusBacked, Decided
<1>1. /\ decision[e] # None => exc[e].status \notin {"absent", "open"}
      /\ exc[e].status \in Outcomes => decision[e] # None /\ decision[e].outcome = exc[e].status
  BY DEF DecidedInv, StatusBacked, Decided
<1>2. CASE decision'[e] = decision[e] /\ exc'[e].status \in {exc[e].status, "pending_approval", "withdrawn"}
  BY <1>1, <1>2 DEF Outcomes
<1>3. CASE decision'[e] = decision[e] /\ exc[e].status = "absent" /\ exc'[e].status = "open"
  BY <1>1, <1>3 DEF Outcomes
<1>4. ASSUME NEW d, Closes(e, d)
      PROVE  /\ exc'[e].status \notin {"absent", "open"}
             /\ decision'[e] = d /\ d.outcome = exc'[e].status
  BY <1>4 DEF Closes, Outcomes, TypeOK
<1>5. ASSUME NEW d, Closes(e, d) PROVE d # None
  BY <1>5, ConstantsAssumption DEF Closes
<1> QED BY <1>1, <1>2, <1>3, <1>4, <1>5, StatusStep

\* A deadline is set when its exception is raised, and after that only passes.
LEMMA DeadlineCases ==
  ASSUME TypeOK, [Next]_vars, NEW e \in Items
  PROVE  \/ deadline'[e] = deadline[e]
         \/ exc[e].status = "absent" /\ exc'[e].status = "open"
         \/ deadline[e] = "running" /\ deadline'[e] = "passed"
<1>1. ASSUME NEW f \in Items, Ingest(f)
      PROVE  deadline'[e] = deadline[e] \/ (exc[e].status = "absent" /\ exc'[e].status = "open")
  <2>1. CASE e = f
    BY <1>1, <2>1 DEF Ingest, TypeOK, Row
  <2>2. CASE e # f
    BY <1>1, <2>2 DEF Ingest, TypeOK
  <2> QED BY <2>1, <2>2
<1>2. ASSUME NEW f \in Items, DeadlinePasses(f)
      PROVE  deadline'[e] = deadline[e] \/ (deadline[e] = "running" /\ deadline'[e] = "passed")
  BY <1>2 DEF DeadlinePasses, TypeOK
<1>3. ASSUME NEW f \in Items, EscalateAfterOcr(f) \/ RetractLabel(f) PROVE UNCHANGED deadline
  BY <1>3 DEF EscalateAfterOcr, RetractLabel
<1>4. CASE Administrator
  BY <1>4 DEF Administrator, SetDualControl, SetDisposition, SetReasonActive
<1>5. CASE BeginSweep \/ SweepRow \/ RestartWorker
  BY <1>5 DEF BeginSweep, SweepRow, RestartWorker, SweepSkip, SweepAbort, SweepDecide
<1>6. ASSUME NEW s \in Sessions, Reviewer(s) \/ Staff(s) \/ Answer(s) \/ Rollback(s)
      PROVE  UNCHANGED deadline
  BY <1>6 DEF Reviewer, Staff, Answer, Rollback, LoadRecommend, LoadDecide, LoadBackOut, LoadLabel,
              Load, CommitRecommend, CommitDecide, CommitBackOut, CommitLabel
<1>7. CASE UNCHANGED vars
  BY <1>7 DEF vars
<1> QED BY <1>1, <1>2, <1>3, <1>4, <1>5, <1>6, <1>7 DEF Next, Environment

LEMMA DeadlineStep ==
  ASSUME TypeOK, LoadedGuardInv, DeadlineInv, [Next]_vars
  PROVE  DeadlineInv'
<1> SUFFICES ASSUME NEW e \in Items, exc'[e].status = "absent" PROVE deadline'[e] = "none"
  BY DEF DeadlineInv
<1>1. ASSUME NEW d PROVE ~Closes(e, d)
  BY DEF Closes, Outcomes
<1>2. exc[e].status = "absent"
  BY <1>1, StatusStep
<1> QED BY <1>2, DeadlineCases DEF DeadlineInv

\* An expired deadline stays expired: its exception was raised before.
LEMMA PassedStays ==
  ASSUME TypeOK, DeadlineInv, [Next]_vars, NEW e \in Items, deadline[e] = "passed"
  PROVE  deadline'[e] = "passed"
BY DeadlineCases DEF DeadlineInv

LEMMA SweepStep ==
  ASSUME TypeOK, DeadlineInv, SweepInv, [Next]_vars
  PROVE  SweepInv'
<1>1. ASSUME NEW e \in sweep PROVE deadline'[e] = "passed"
  BY <1>1, PassedStays DEF SweepInv, TypeOK
<1>2. CASE BeginSweep
  BY <1>2 DEF BeginSweep, Due, SweepInv
<1>3. sweep' \subseteq sweep \/ BeginSweep
  <2>1. CASE Environment
    BY <2>1 DEF Environment, Ingest, EscalateAfterOcr, DeadlinePasses, RetractLabel, worker
  <2>2. CASE Administrator
    BY <2>2 DEF Administrator, SetDualControl, SetDisposition, SetReasonActive, worker
  <2>3. CASE SweepRow \/ RestartWorker
    BY <2>3 DEF SweepRow, RestartWorker, SweepSkip, SweepAbort, SweepDecide
  <2>4. ASSUME NEW s \in Sessions, Reviewer(s) \/ Staff(s) \/ Answer(s) \/ Rollback(s)
        PROVE  UNCHANGED sweep
    BY <2>4 DEF Reviewer, Staff, Answer, Rollback, LoadRecommend, LoadDecide, LoadBackOut, LoadLabel,
                Load, CommitRecommend, CommitDecide, CommitBackOut, CommitLabel, worker
  <2>5. CASE UNCHANGED vars
    BY <2>5 DEF vars
  <2> QED BY <2>1, <2>2, <2>3, <2>4, <2>5 DEF Next
<1> QED BY <1>1, <1>2, <1>3 DEF SweepInv

\* Only a deciding request or the sweep writes an item's decision.
LEMMA DecisionCases ==
  ASSUME TypeOK, LoadedGuardInv, [Next]_vars, NEW e \in Items
  PROVE  \/ decision'[e] = decision[e]
         \/ \E s \in Sessions : CommitDecide(s) /\ request[s].item = e
         \/ \E o \in Outcomes : SweepDecide(e, o)
<1>1. ASSUME NEW f \in Items, NEW d, Closes(f, d), f # e PROVE decision'[e] = decision[e]
  BY <1>1 DEF Closes, TypeOK
<1>2. ASSUME NEW s \in Sessions, CommitDecide(s), request[s].item # e
      PROVE  decision'[e] = decision[e]
  BY <1>1, <1>2, DecideCloses
<1>3. ASSUME NEW f \in Items, NEW o \in Outcomes, SweepDecide(f, o), f # e
      PROVE  decision'[e] = decision[e]
  BY <1>1, <1>3, SweepCloses
<1> QED BY <1>2, <1>3, StepCases
        DEF Ingest, EscalateAfterOcr, RetractLabel, CommitRecommend, CommitBackOut, CommitLabel

\* The decision a request writes, read back.
LEMMA DecideWrites ==
  ASSUME TypeOK, LoadedGuardInv, NEW s \in Sessions, CommitDecide(s)
  PROVE  LET q == request[s]
             d == decision'[q.item] IN
         /\ d.outcome = q.outcome /\ d.source = "human" /\ d.reason = q.reason
         /\ d.dual = q.dual /\ d.checker = q.user
         /\ q.dual => d.maker = q.row.by
<1> DEFINE q == request[s]
           d == [outcome |-> q.outcome, source |-> "human", reason |-> q.reason, dual |-> q.dual,
                 maker |-> IF q.dual THEN q.row.by ELSE None, checker |-> q.user]
<1>1. q.item \in Items /\ decision' = [decision EXCEPT ![q.item] = d]
  BY DecideEffect
<1>2. decision'[q.item] = d
  <2> HIDE DEF d
  <2> QED BY <1>1 DEF TypeOK
<1> QED BY <1>2

\* And the one the sweep writes.
LEMMA SweepWrites ==
  ASSUME TypeOK, NEW e \in Items, NEW o \in Outcomes, SweepDecide(e, o)
  PROVE  /\ decision'[e].outcome = o /\ decision'[e].dual = FALSE
         /\ decision'[e].reason = AutoReason(e, o)
<1>1. PICK d \in Decision : /\ decision' = [decision EXCEPT ![e] = d]
                           /\ d.outcome = o /\ d.dual = FALSE /\ d.reason = AutoReason(e, o)
  BY SweepEffect
<1> QED BY <1>1 DEF TypeOK

LEMMA FourEyesStep ==
  ASSUME TypeOK, LoadedMakerInv, LoadedGuardInv, FourEyes, [Next]_vars
  PROVE  FourEyes'
<1> SUFFICES ASSUME NEW e \in Items, decision'[e] # None, decision'[e].dual
             PROVE  /\ decision'[e].maker # None
                    /\ decision'[e].maker # decision'[e].checker
                    /\ \E o \in Outcomes : <<decision'[e].maker, o>> \in proposed'[e]
  BY DEF FourEyes, Decided
<1>1. CASE decision'[e] = decision[e]
  BY <1>1, ProposedGrows DEF FourEyes, Decided
<1>2. ASSUME NEW s \in Sessions, CommitDecide(s), request[s].item = e
      PROVE  /\ decision'[e].maker # None
             /\ decision'[e].maker # decision'[e].checker
             /\ \E o \in Outcomes : <<decision'[e].maker, o>> \in proposed'[e]
  <2> DEFINE q == request[s]
  <2>1. decision'[e].dual = q.dual /\ decision'[e].checker = q.user /\ decision'[e].maker = q.row.by
    BY <1>2, DecideWrites
  <2>2. q.row.status = "pending_approval" /\ q.row.by # q.user
    BY <1>2, <2>1 DEF LoadedGuardInv, CommitDecide
  <2>3. q.row.by # None /\ Recommended(q.row.by, e)
    BY <1>2, <2>2 DEF LoadedMakerInv, CommitDecide
  <2>4. UNCHANGED proposed
    BY <1>2 DEF CommitDecide
  <2> QED BY <2>1, <2>2, <2>3, <2>4 DEF Recommended
<1>3. ASSUME NEW o \in Outcomes, SweepDecide(e, o) PROVE FALSE
  BY <1>3, SweepWrites
<1> QED BY <1>1, <1>2, <1>3, DecisionCases

LEMMA AutoStep ==
  ASSUME TypeOK, LoadedGuardInv, DeadlineInv, SweepInv, AutoOnlyWhenDue, [Next]_vars
  PROVE  AutoOnlyWhenDue'
<1> DEFINE Due1(e) == decision'[e].source # "human" => deadline'[e] = "passed"
           Named(e) == (decision'[e].reason # None)
                         <=> (e \in AchTxns /\ decision'[e].outcome = "return")
<1> SUFFICES ASSUME NEW e \in Items, decision'[e] # None PROVE Due1(e) /\ Named(e)
  BY DEF AutoOnlyWhenDue, Decided
<1>1. CASE decision'[e] = decision[e]
  BY <1>1, PassedStays DEF AutoOnlyWhenDue, Decided
<1>2. ASSUME NEW s \in Sessions, CommitDecide(s), request[s].item = e PROVE Due1(e) /\ Named(e)
  <2>1. (request[s].reason # None) <=> (e \in AchTxns /\ request[s].outcome = "return")
    BY <1>2 DEF LoadedGuardInv, CommitDecide
  <2> QED BY <1>2, <2>1, DecideWrites
<1>3. ASSUME NEW o \in Outcomes, SweepDecide(e, o) PROVE Due1(e) /\ Named(e)
  <2>1. deadline[e] = "passed" /\ ReasonResolves(e, o, AutoReason(e, o))
    BY <1>3 DEF SweepDecide, SweepInv
  <2>2. (AutoReason(e, o) # None) <=> (e \in AchTxns /\ o = "return")
    BY <2>1, ConstantsAssumption DEF ReasonResolves, TypeOK
  <2> QED BY <1>3, <2>1, <2>2, PassedStays, SweepWrites
<1> QED BY <1>1, <1>2, <1>3, DecisionCases

\* Closing an ACH item settles it exactly when it is returned, provided the
\* copy did not claim a settlement the stored row lacks.
LEMMA CloseSettles ==
  ASSUME TypeOK, NEW a \in AchTxns, NEW d, NEW row, NEW st, Close(a, d, row, st),
         st = "returned" => settlement[a] = "returned"
  PROVE  settlement'[a] = "returned" <=> (d.outcome = "return" \/ settlement[a] = "returned")
BY DEF Close, TypeOK

LEMMA AchReturnStep ==
  ASSUME TypeOK, LoadedGuardInv, AchReturnSettled, [Next]_vars
  PROVE  AchReturnSettled'
<1> DEFINE Returned(a) == decision'[a] # None /\ decision'[a].outcome = "return"
           Goal(a) == settlement'[a] = "returned" <=> (Returned(a) \/ labels'[a].total > 0)
<1> SUFFICES ASSUME NEW a \in AchTxns PROVE Goal(a)
  BY DEF AchReturnSettled, Decided
<1>1. settlement[a] = "returned" <=>
        ((decision[a] # None /\ decision[a].outcome = "return") \/ labels[a].total > 0)
  BY DEF AchReturnSettled, Decided
<1>2. ASSUME settlement'[a] = settlement[a], decision'[a] = decision[a],
             labels'[a].total = labels[a].total
      PROVE  Goal(a)
  BY <1>1, <1>2
<1>3. ASSUME NEW e \in Items, Ingest(e) \/ (e \in Checks /\ EscalateAfterOcr(e)) PROVE Goal(a)
  <2>1. settlement'[a] = settlement[a]
    BY <1>3, ConstantsAssumption DEF Ingest, EscalateAfterOcr, TypeOK
  <2> QED BY <1>2, <1>3, <2>1 DEF Ingest, EscalateAfterOcr
<1>4. ASSUME NEW e \in Items, RetractLabel(e) PROVE Goal(a)
  <2>1. labels'[a].total = labels[a].total
    BY <1>4 DEF RetractLabel, TypeOK
  <2> QED BY <1>2, <1>4, <2>1 DEF RetractLabel
<1>5. ASSUME decision[a] = None, decision'[a] # None, UNCHANGED labels,
             settlement'[a] = "returned" <=>
               (decision'[a].outcome = "return" \/ settlement[a] = "returned")
      PROVE  Goal(a)
  BY <1>1, <1>5
<1>6. ASSUME NEW s \in Sessions, CommitDecide(s) PROVE Goal(a)
  <2> DEFINE q == request[s]
             d == [outcome |-> q.outcome, source |-> "human", reason |-> q.reason, dual |-> q.dual,
                   maker |-> IF q.dual THEN q.row.by ELSE None, checker |-> q.user]
  <2>1. UNCHANGED labels /\ Close(q.item, d, q.row, q.settlement)
    BY <1>6 DEF CommitDecide
  <2>2. q.item \in Items /\ Closes(q.item, d)
    BY <1>6, DecideCloses
  <2>3. CASE q.item # a
    <3>1. settlement'[a] = settlement[a]
      BY <1>6, <2>3, DecideEffect
    <3>2. decision'[a] = decision[a]
      BY <1>6, <2>3, DecideEffect DEF TypeOK
    <3> QED BY <1>2, <2>1, <3>1, <3>2
  <2>4. CASE q.item = a
    <3>1. q.settlement = "returned" => settlement[a] = "returned"
      BY <1>6, <2>4 DEF LoadedGuardInv, CommitDecide
    <3>2. settlement'[a] = "returned" <=> (d.outcome = "return" \/ settlement[a] = "returned")
      <4> HIDE DEF d
      <4> QED BY <2>1, <2>4, <3>1, CloseSettles
    <3>3. decision[a] = None /\ decision'[a] = d
      <4> HIDE DEF d
      <4> QED BY <2>2, <2>4 DEF Closes, TypeOK
    <3>4. d # None
      <4> HIDE DEF d
      <4> QED BY <2>2, ConstantsAssumption DEF Closes
    <3> HIDE DEF d
    <3> QED BY <1>5, <2>1, <3>2, <3>3, <3>4
  <2> QED BY <2>3, <2>4
<1>7. ASSUME NEW e \in Items, NEW o \in Outcomes, SweepDecide(e, o) PROVE Goal(a)
  <2>1. UNCHANGED labels /\ decision[e] = None
    BY <1>7, SweepEffect DEF SweepDecide
  <2>2. CASE e # a
    <3>1. settlement'[a] = settlement[a]
      BY <1>7, <2>2, SweepEffect
    <3>2. decision'[a] = decision[a]
      <4>1. PICK d : decision' = [decision EXCEPT ![e] = d]
        BY <1>7, SweepEffect
      <4> QED BY <2>2, <4>1 DEF TypeOK
    <3> QED BY <1>2, <2>1, <3>1, <3>2
  <2>3. CASE e = a
    <3>1. decision'[a].outcome = o /\ decision'[a] # None
      <4>1. PICK d \in Decision : Closes(a, d) /\ d.outcome = o
        BY <1>7, <2>3, SweepCloses
      <4>2. decision'[a] = d
        BY <4>1 DEF Closes, TypeOK
      <4> QED BY <4>1, <4>2, ConstantsAssumption
    <3>2. settlement'[a] = "returned" <=> (o = "return" \/ settlement[a] = "returned")
      <4>1. PICK d, row : Close(a, d, row, settlement[a]) /\ d.outcome = o
        BY <1>7, <2>3 DEF SweepDecide
      <4> QED BY <4>1, CloseSettles
    <3> QED BY <1>5, <2>1, <2>3, <3>1, <3>2
  <2> QED BY <2>2, <2>3
<1>8. ASSUME NEW s \in Sessions, CommitRecommend(s) PROVE Goal(a)
  BY <1>2, <1>8 DEF CommitRecommend
<1>9. ASSUME NEW s \in Sessions, CommitBackOut(s) PROVE Goal(a)
  <2>1. request[s].item \in Checks
    BY <1>9 DEF LoadedGuardInv, CommitBackOut
  <2>2. settlement'[a] = settlement[a]
    BY <1>9, <2>1, BackOutEffect, ConstantsAssumption
  <2> QED BY <1>2, <1>9, <2>2 DEF CommitBackOut
<1>10. ASSUME NEW s \in Sessions, CommitLabel(s) PROVE Goal(a)
  <2> DEFINE q == request[s]
  <2>1. q.item \in Items
    BY <1>10, RequestType DEF CommitLabel
  <2>2. labels' = [labels EXCEPT ![q.item] = [active |-> labels[q.item].active + 1,
                                              total |-> labels[q.item].total + 1]]
    BY <1>10 DEF CommitLabel
  <2>3. CASE q.item # a
    <3>1. labels'[a] = labels[a] /\ settlement'[a] = settlement[a]
      BY <1>10, <2>1, <2>2, <2>3 DEF CommitLabel, TypeOK
    <3> QED BY <1>2, <1>10, <3>1 DEF CommitLabel
  <2>4. CASE q.item = a
    <3>1. labels'[a].total = labels[a].total + 1 /\ labels[a].total \in Nat
      BY <2>2, <2>4 DEF TypeOK
    <3>2. q.settlement = "returned" => settlement[a] = "returned"
      BY <1>10, <2>4 DEF LoadedGuardInv, CommitLabel
    <3>3. settlement'[a] = "returned"
      BY <1>10, <2>4, <3>2 DEF CommitLabel, TypeOK
    <3> QED BY <3>1, <3>3
  <2> QED BY <2>3, <2>4
<1> QED BY <1>2, <1>3, <1>4, <1>6, <1>7, <1>8, <1>9, <1>10, StepCases

-----------------------------------------------------------------------------
(* The theorems.                                                           *)

LEMMA InvStep == IInv /\ [Next]_vars => IInv'
<1> SUFFICES ASSUME IInv, [Next]_vars PROVE IInv'
  OBVIOUS
<1>1. /\ TypeOK /\ MakerInv /\ LoadedMakerInv /\ LoadedGuardInv /\ DecidedInv
      /\ DeadlineInv /\ SweepInv
      /\ FourEyes /\ StatusBacked /\ AchReturnSettled /\ AutoOnlyWhenDue
  BY DEF IInv
<1>2. TypeOK'
  BY <1>1, TypeStep
<1>3. MakerInv' /\ LoadedMakerInv' /\ LoadedGuardInv'
  BY <1>1, MakerStep, LoadedMakerStep, LoadedGuardStep
<1>4. DecidedInv' /\ StatusBacked'
  BY <1>1, DecidedStep
<1>5. DeadlineInv' /\ SweepInv'
  BY <1>1, DeadlineStep, SweepStep
<1>6. FourEyes' /\ AchReturnSettled' /\ AutoOnlyWhenDue'
  BY <1>1, FourEyesStep, AchReturnStep, AutoStep
<1> QED BY <1>2, <1>3, <1>4, <1>5, <1>6 DEF IInv

\* The strengthening holds in every reachable state.
THEOREM InductiveInvariant == Spec => []IInv
BY InitInv, InvStep, PTL DEF Spec

\* Dual control: the checker of a decision taken under it is never its maker,
\* and the maker did recommend that item, however many requests of
\* decision_service overlap.
THEOREM FourEyesHolds == Spec => []FourEyes
<1>1. IInv => FourEyes
  BY DEF IInv
<1> QED BY <1>1, InductiveInvariant, PTL

\* No interleaving of requests and sweeps leaves an exception marked PAY or
\* RETURN without a decision saying the same, or reopens a decided one.
THEOREM StatusIsBacked == Spec => []StatusBacked
<1>1. IInv => StatusBacked
  BY DEF IInv
<1> QED BY <1>1, InductiveInvariant, PTL

\* An ACH transaction is settled RETURNED exactly when it was decided so or
\* labelled as fraud: what wsud_service's return window starts from.
THEOREM AchReturnIsSettled == Spec => []AchReturnSettled
<1>1. IInv => AchReturnSettled
  BY DEF IInv
<1> QED BY <1>1, InductiveInvariant, PTL

\* The sweep decides only what has expired, and every ACH return, human or
\* automatic, names a reason (auto_disposition_service.auto_decide_exception).
THEOREM AutoDecisionsAreDue == Spec => []AutoOnlyWhenDue
<1>1. IInv => AutoOnlyWhenDue
  BY DEF IInv
<1> QED BY <1>1, InductiveInvariant, PTL

\* No step, of a request or of the worker, replaces or drops a decision.
THEOREM DecisionsAreFinal == Spec => DecisionIsFinal
<1>1. IInv /\ [Next]_vars => [\A e \in Items : Decided(e) => decision'[e] = decision[e]]_vars
  <2> SUFFICES ASSUME IInv, [Next]_vars, NEW e \in Items, decision[e] # None
               PROVE  decision'[e] = decision[e]
    BY DEF Decided
  <2>1. TypeOK /\ LoadedGuardInv
    BY DEF IInv
  <2>2. ASSUME NEW s \in Sessions, CommitDecide(s) PROVE decision[request[s].item] = None
    BY <2>1, <2>2, DecideEffect
  <2>3. ASSUME NEW o \in Outcomes, SweepDecide(e, o) PROVE decision[e] = None
    BY <2>1, <2>3, SweepEffect
  <2> QED BY <2>1, <2>2, <2>3, DecisionCases
<1> QED BY <1>1, InductiveInvariant, PTL DEF DecisionIsFinal, Spec

-----------------------------------------------------------------------------
(* The serial case: what only holds as long as nothing overlaps.           *)

\* One request or one sweep is under way.
OneThing ==
  /\ \A s, t \in Sessions : request[s] # None /\ request[t] # None => s = t
  /\ sweep # {} => \A s \in Sessions : request[s] = None

\* What a request has loaded is what is stored.
FreshInv == \A s \in Sessions :
  request[s] # None =>
    /\ request[s].row = exc[request[s].item] /\ request[s].row.status # "absent"
    /\ request[s].kind \in {"recommend", "decide"} => request[s].row.status \in Undecided
    /\ request[s].kind = "label" => labels[request[s].item].active = 0

\* What the sweep has loaded is still to be decided.
SweptInv == \A e \in sweep : exc[e].status \in Undecided

SInv == IInv /\ OneThing /\ FreshInv /\ SweptInv /\ RowsAgree

\* The rows of the items but e are as they were.
Others(e) == \A f \in Items : f # e => exc'[f] = exc[f] /\ decision'[f] = decision[f]

LEMMA SerialFacts ==
  ASSUME SInv
  PROVE  /\ TypeOK /\ LoadedGuardInv /\ OneThing /\ FreshInv /\ SweptInv
         /\ StatusIffDecision /\ RecommendationIsTheMakers /\ OneActiveLabel
         /\ \A e \in Items : exc[e].status \notin Outcomes => decision[e] = None
         /\ \A e \in Items : labels[e].active \in Nat /\ labels[e].total \in Nat
<1>1. \A e \in Items : exc[e].status \notin Outcomes => decision[e] = None
  BY DEF SInv, RowsAgree, StatusIffDecision, Decided
<1>2. \A e \in Items : labels[e].active \in Nat /\ labels[e].total \in Nat
  BY DEF SInv, IInv, TypeOK
<1> QED BY <1>1, <1>2 DEF SInv, IInv, RowsAgree

\* A step of e's rows that leaves what each other row says of the others true.
LEMMA RowsStep ==
  ASSUME SInv, NEW e \in Items, Others(e), UNCHANGED labels,
         \A f \in Items : proposed[f] \subseteq proposed'[f],
         decision'[e] # None <=> exc'[e].status \in Outcomes,
         exc'[e].by # None => <<exc'[e].by, exc'[e].outcome>> \in proposed'[e]
  PROVE  RowsAgree'
<1>1. ASSUME NEW f \in Items
      PROVE  /\ decision'[f] # None <=> exc'[f].status \in Outcomes
             /\ exc'[f].by # None => <<exc'[f].by, exc'[f].outcome>> \in proposed'[f]
  <2>1. CASE f = e
    BY <2>1
  <2>2. CASE f # e
    BY <2>2, SerialFacts DEF Others, StatusIffDecision, RecommendationIsTheMakers, Decided
  <2> QED BY <2>1, <2>2
<1>2. OneActiveLabel'
  BY SerialFacts DEF OneActiveLabel
<1> QED BY <1>1, <1>2 DEF RowsAgree, StatusIffDecision, RecommendationIsTheMakers, Decided

LEMMA SameRows ==
  ASSUME SInv, UNCHANGED <<exc, decision, proposed>>, \A e \in Items : labels'[e].active <= 1
  PROVE  RowsAgree'
BY DEF SInv, RowsAgree, StatusIffDecision, RecommendationIsTheMakers, OneActiveLabel, Decided

\* An item is raised: no request and no sweep has it.
LEMMA RaiseStep ==
  ASSUME SInv, NEW e \in Items, Ingest(e) \/ EscalateAfterOcr(e)
  PROVE  /\ exc[e].status = "absent" /\ exc'[e].status = "open" /\ Others(e)
         /\ decision' = decision /\ decision[e] = None
         /\ OneThing' /\ FreshInv' /\ SweptInv' /\ RowsAgree'
<1>1. /\ exc[e].status = "absent" /\ exc' = [exc EXCEPT ![e].status = "open"]
      /\ UNCHANGED <<decision, labels, request, sweep, proposed>>
  BY DEF Ingest, EscalateAfterOcr, worker
<1>2. /\ exc'[e].status = "open" /\ exc'[e].by = exc[e].by /\ exc'[e].outcome = exc[e].outcome
      /\ \A f \in Items : f # e => exc'[f] = exc[f]
  BY <1>1, SerialFacts DEF TypeOK, Row
<1>3. decision[e] = None
  BY <1>1, SerialFacts DEF Outcomes
<1>4. OneThing'
  BY <1>1, SerialFacts DEF OneThing
<1>5. FreshInv'
  <2>1. ASSUME NEW s \in Sessions, request[s] # None
        PROVE  request[s].item \in Items /\ exc'[request[s].item] = exc[request[s].item]
    <3>1. request[s].item \in Items
      BY <2>1, SerialFacts, RequestType
    <3>2. request[s].item # e
      BY <1>1, <2>1, SerialFacts DEF FreshInv
    <3> QED BY <1>2, <3>1, <3>2
  <2> QED BY <1>1, <2>1, SerialFacts DEF FreshInv
<1>6. SweptInv'
  <2>1. \A f \in sweep : f \in Items
    BY SerialFacts DEF TypeOK
  <2> QED BY <1>1, <1>2, <2>1, SerialFacts DEF SweptInv, Undecided
<1>7. RowsAgree'
  <2>1. Others(e) /\ exc'[e].status \notin Outcomes
    BY <1>1, <1>2 DEF Others, Outcomes
  <2>2. exc'[e].by # None => <<exc'[e].by, exc'[e].outcome>> \in proposed'[e]
    BY <1>1, <1>2, SerialFacts DEF RecommendationIsTheMakers
  <2>3. \A f \in Items : proposed[f] \subseteq proposed'[f]
    BY <1>1
  <2> QED BY <1>1, <1>3, <2>1, <2>2, <2>3, RowsStep
<1> QED BY <1>1, <1>2, <1>3, <1>4, <1>5, <1>6, <1>7 DEF Others

\* A request that ends was the only one, and no sweep was under way.
LEMMA EndStep ==
  ASSUME SInv, NEW s \in Sessions, request[s] # None, Finish(s), sweep' = sweep
  PROVE  OneThing' /\ FreshInv' /\ SweptInv'
<1>1. \A t \in Sessions : request'[t] = None
  BY SerialFacts DEF TypeOK, OneThing, Finish
<1>2. sweep' = {}
  BY SerialFacts DEF OneThing
<1> QED BY <1>1, <1>2 DEF OneThing, FreshInv, SweptInv

LEMMA SerialRecommend ==
  ASSUME SInv, NEW s \in Sessions, CommitRecommend(s)
  PROVE  /\ request[s].item \in Items /\ exc[request[s].item].status \in Undecided
         /\ exc'[request[s].item].status = "pending_approval" /\ Others(request[s].item)
         /\ decision' = decision /\ decision[request[s].item] = None /\ RowsAgree'
<1>1. /\ request[s] # None /\ request[s].kind = "recommend" /\ UNCHANGED <<decision, labels>>
  BY DEF CommitRecommend
<1>2. PICK e \in Items, u \in Users, o \in Outcomes :
        e = request[s].item /\ u = request[s].user /\ o = request[s].outcome
  BY <1>1, SerialFacts, RequestType
<1>3. request[s].row = exc[e] /\ exc[e].status \in Undecided
  BY <1>1, <1>2, SerialFacts DEF FreshInv
<1>4. decision[e] = None
  BY <1>3, SerialFacts DEF Undecided, Outcomes
<1> DEFINE edited == [status |-> "pending_approval", by |-> u, outcome |-> o]
<1>5. exc' = [exc EXCEPT ![e] = Flush(exc[e], exc[e], edited)]
  BY <1>2, <1>3 DEF CommitRecommend
<1>6. exc'[e] = Flush(exc[e], exc[e], edited) /\ \A f \in Items : f # e => exc'[f] = exc[f]
  BY <1>5, SerialFacts DEF TypeOK
<1>7. exc'[e].status = "pending_approval" /\ exc'[e].by = u /\ exc'[e].outcome = o
  BY <1>6 DEF Flush
<1>8. /\ proposed' = [proposed EXCEPT ![e] = proposed[e] \cup {<<u, o>>}]
      /\ proposed \in [Items -> SUBSET (Users \X Outcomes)]
  BY <1>2, SerialFacts DEF CommitRecommend, TypeOK
<1>9. <<u, o>> \in proposed'[e] /\ \A f \in Items : proposed[f] \subseteq proposed'[f]
  BY <1>8
<1>10. Others(e)
  BY <1>1, <1>6 DEF Others
<1>11. RowsAgree'
  <2>1. decision'[e] # None <=> exc'[e].status \in Outcomes
    BY <1>1, <1>4, <1>7 DEF Outcomes
  <2>2. <<exc'[e].by, exc'[e].outcome>> \in proposed'[e]
    BY <1>7, <1>9
  <2> QED BY <1>1, <1>9, <1>10, <2>1, <2>2, RowsStep
<1> QED BY <1>1, <1>2, <1>3, <1>4, <1>7, <1>10, <1>11

LEMMA SerialClose ==
  ASSUME SInv, NEW e \in Items, NEW d \in Decision, decision' = [decision EXCEPT ![e] = d],
         exc'[e].status = d.outcome, d.outcome \in Outcomes,
         exc'[e].by = exc[e].by, exc'[e].outcome = exc[e].outcome,
         \A f \in Items : f # e => exc'[f] = exc[f], UNCHANGED <<labels, proposed>>
  PROVE  Others(e) /\ decision'[e] = d /\ RowsAgree'
<1>1. decision'[e] = d /\ \A f \in Items : f # e => decision'[f] = decision[f]
  BY SerialFacts DEF TypeOK
<1>2. d # None
  BY ConstantsAssumption
<1>3. Others(e)
  BY <1>1 DEF Others
<1>4. exc'[e].by # None => <<exc'[e].by, exc'[e].outcome>> \in proposed'[e]
  BY SerialFacts DEF RecommendationIsTheMakers
<1>5. \A f \in Items : proposed[f] \subseteq proposed'[f]
  OBVIOUS
<1> QED BY <1>1, <1>2, <1>3, <1>4, <1>5, RowsStep

LEMMA SerialDecide ==
  ASSUME SInv, NEW s \in Sessions, CommitDecide(s)
  PROVE  /\ request[s].item \in Items /\ exc[request[s].item].status \in Undecided
         /\ Others(request[s].item) /\ RowsAgree'
         /\ \E d \in Decision : /\ decision' = [decision EXCEPT ![request[s].item] = d]
                                /\ decision'[request[s].item] = d
                                /\ exc'[request[s].item].status = d.outcome
<1>1. PICK e \in Items : e = request[s].item
  BY SerialFacts, RequestType DEF CommitDecide
<1>2. exc[e].status \in Undecided
  BY <1>1, SerialFacts DEF FreshInv, CommitDecide
<1>3. PICK d \in Decision :
        /\ decision' = [decision EXCEPT ![e] = d]
        /\ exc'[e].status = d.outcome /\ d.outcome \in Outcomes
        /\ exc'[e].by = exc[e].by /\ exc'[e].outcome = exc[e].outcome
        /\ \A f \in Items : f # e => exc'[f] = exc[f]
  BY <1>1, SerialFacts, DecideEffect
<1>4. UNCHANGED <<labels, proposed>>
  BY DEF CommitDecide
<1>5. Others(e) /\ decision'[e] = d /\ RowsAgree'
  BY <1>3, <1>4, SerialClose
<1> QED BY <1>1, <1>2, <1>3, <1>5

LEMMA SerialSweep ==
  ASSUME SInv, NEW e \in Items, NEW o \in Outcomes, SweepDecide(e, o)
  PROVE  /\ exc[e].status \in Undecided /\ Others(e) /\ OneThing' /\ FreshInv' /\ SweptInv' /\ RowsAgree'
         /\ \E d \in Decision : /\ decision' = [decision EXCEPT ![e] = d] /\ decision'[e] = d
                                /\ exc'[e].status = d.outcome
<1>1. /\ e \in sweep /\ sweep' = sweep \ {e} /\ UNCHANGED <<labels, proposed, request>>
  BY DEF SweepDecide
<1>2. exc[e].status \in Undecided
  BY <1>1, SerialFacts DEF SweptInv
<1>3. PICK d \in Decision :
        /\ decision' = [decision EXCEPT ![e] = d]
        /\ exc'[e].status = d.outcome /\ d.outcome \in Outcomes
        /\ exc'[e].by = exc[e].by /\ exc'[e].outcome = exc[e].outcome
        /\ \A f \in Items : f # e => exc'[f] = exc[f]
  <2>1. /\ exc'[e].status = o /\ exc'[e].by = exc[e].by /\ exc'[e].outcome = exc[e].outcome
        /\ \A f \in Items : f # e => exc'[f] = exc[f]
        /\ \E d \in Decision : decision' = [decision EXCEPT ![e] = d] /\ d.outcome = o
    BY SerialFacts, SweepEffect
  <2> QED BY <2>1
<1>4. Others(e) /\ decision'[e] = d /\ RowsAgree'
  BY <1>1, <1>3, SerialClose
<1>5. \A s \in Sessions : request'[s] = None
  BY <1>1, SerialFacts DEF OneThing
<1>6. SweptInv'
  BY <1>1, <1>3, SerialFacts DEF SweptInv, TypeOK
<1> QED BY <1>2, <1>3, <1>4, <1>5, <1>6 DEF OneThing, FreshInv

\* A back-out withdraws an item that is still to be decided.
LEMMA SerialBackOut ==
  ASSUME SInv, NEW s \in Sessions, CommitBackOut(s)
  PROVE  /\ request[s].item \in Items /\ decision' = decision /\ Others(request[s].item) /\ RowsAgree'
         /\ \/ exc' = exc
            \/ /\ exc[request[s].item].status \in Undecided /\ decision[request[s].item] = None
               /\ exc'[request[s].item].status = "withdrawn"
<1>1. PICK e \in Items : e = request[s].item
  BY SerialFacts, RequestType DEF CommitBackOut
<1>2. UNCHANGED <<decision, labels, proposed>>
  BY DEF CommitBackOut
<1>3. request[s].row = exc[e] /\ exc[e] \in Row
  BY <1>1, SerialFacts DEF FreshInv, CommitBackOut, TypeOK
<1>4. CASE exc[e].status \notin Undecided
  <2>1. exc' = exc
    BY <1>1, <1>3, <1>4, SerialFacts, BackOutEffect
  <2>2. \A f \in Items : labels'[f].active <= 1
    BY <1>2, SerialFacts DEF OneActiveLabel
  <2> QED BY <1>1, <1>2, <2>1, <2>2, SameRows DEF Others
<1>5. CASE exc[e].status \in Undecided
  <2>1. /\ exc'[e].by = exc[e].by /\ exc'[e].outcome = exc[e].outcome
        /\ \A f \in Items : f # e => exc'[f] = exc[f]
    BY <1>1, SerialFacts, BackOutEffect
  <2> DEFINE edited == [exc[e] EXCEPT !.status = "withdrawn"]
  <2>2. edited.status = "withdrawn"
    BY <1>3 DEF Row
  <2>3. exc' = [exc EXCEPT ![e] = Flush(exc[e], exc[e], edited)]
    BY <1>1, <1>3, <1>5 DEF CommitBackOut
  <2> HIDE DEF edited
  <2>4. exc'[e] = Flush(exc[e], exc[e], edited)
    BY <2>3, SerialFacts DEF TypeOK
  <2>5. exc'[e].status = "withdrawn"
    BY <2>2, <2>4 DEF Flush
  <2>6. decision[e] = None
    BY <1>5, SerialFacts DEF Undecided, Outcomes
  <2>7. Others(e)
    BY <1>2, <2>1 DEF Others
  <2>8. RowsAgree'
    <3>1. decision'[e] # None <=> exc'[e].status \in Outcomes
      BY <1>2, <2>5, <2>6 DEF Outcomes
    <3>2. exc'[e].by # None => <<exc'[e].by, exc'[e].outcome>> \in proposed'[e]
      BY <1>2, <2>1, SerialFacts DEF RecommendationIsTheMakers
    <3>3. \A f \in Items : proposed[f] \subseteq proposed'[f]
      BY <1>2
    <3> QED BY <1>2, <2>7, <3>1, <3>2, <3>3, RowsStep
  <2> QED BY <1>1, <1>2, <1>5, <2>5, <2>6, <2>7, <2>8
<1> QED BY <1>4, <1>5

LEMMA SerialLabel ==
  ASSUME SInv, NEW s \in Sessions, CommitLabel(s)
  PROVE  UNCHANGED <<exc, decision>> /\ RowsAgree'
<1>1. PICK e \in Items : e = request[s].item
  BY SerialFacts, RequestType DEF CommitLabel
<1>2. /\ labels' = [labels EXCEPT ![e] = [active |-> labels[e].active + 1, total |-> labels[e].total + 1]]
      /\ UNCHANGED <<exc, decision, proposed>>
  BY <1>1 DEF CommitLabel
<1>3. labels[e].active = 0
  BY <1>1, SerialFacts DEF FreshInv, CommitLabel
<1>4. \A f \in Items : labels'[f].active <= 1
  BY <1>2, <1>3, SerialFacts DEF TypeOK, OneActiveLabel
<1> QED BY <1>2, <1>4, SameRows

LEMMA SerialRetract ==
  ASSUME SInv, NEW e \in Items, RetractLabel(e)
  PROVE  UNCHANGED <<exc, decision>> /\ OneThing' /\ FreshInv' /\ SweptInv' /\ RowsAgree'
<1>1. /\ labels[e].active > 0 /\ labels' = [labels EXCEPT ![e].active = labels[e].active - 1]
      /\ UNCHANGED <<exc, decision, request, sweep, proposed>>
  BY DEF RetractLabel, worker
<1>2. /\ labels'[e].active = labels[e].active - 1 /\ labels[e].active \in Nat
      /\ \A f \in Items : f # e => labels'[f] = labels[f]
  BY <1>1, SerialFacts DEF TypeOK
<1>3. \A f \in Items : labels'[f].active <= 1
  BY <1>1, <1>2, SerialFacts DEF OneActiveLabel
<1>4. RowsAgree'
  BY <1>1, <1>3, SameRows
<1>5. OneThing' /\ SweptInv'
  BY <1>1, SerialFacts DEF OneThing, SweptInv
<1>6. FreshInv'
  <2>1. ASSUME NEW s \in Sessions, request[s] # None, request[s].kind = "label"
        PROVE  labels'[request[s].item].active = 0
    <3>1. request[s].item \in Items /\ labels[request[s].item].active = 0
      BY <2>1, SerialFacts, RequestType DEF FreshInv
    <3> QED BY <1>1, <1>2, <3>1
  <2> QED BY <1>1, <2>1, SerialFacts DEF FreshInv
<1> QED BY <1>1, <1>4, <1>5, <1>6

\* A request starts while nothing else is under way.
LEMMA SerialLoad ==
  ASSUME Serial, SInv, NEW s \in Sessions, NEW k \in Kinds, NEW e \in Items, NEW u \in Users,
         NEW o \in Outcomes, NEW r, NEW dual, Load(s, k, e, u, o, r, dual),
         exc[e].status # "absent", k \in {"recommend", "decide"} => exc[e].status \in Undecided,
         k = "label" => labels[e].active = 0
  PROVE  UNCHANGED <<exc, decision>> /\ OneThing' /\ FreshInv' /\ SweptInv' /\ RowsAgree'
<1> DEFINE q == [kind |-> k, item |-> e, user |-> u, outcome |-> o, reason |-> r,
                 row |-> exc[e], settlement |-> settlement[e], dual |-> dual]
<1>1. /\ request' = [request EXCEPT ![s] = q]
      /\ UNCHANGED <<exc, decision, labels, proposed, sweep>>
      /\ sweep = {} /\ \A t \in Sessions : request[t] = None
  BY DEF Load, CanStart, Quiet, worker
<1>2. q.row = exc[e] /\ q.item = e /\ q.kind = k
  OBVIOUS
<1>3. \A t \in Sessions : request'[t] # None => t = s /\ request'[t] = q
  <2> HIDE DEF q
  <2> QED BY <1>1, SerialFacts DEF TypeOK
<1>4. RowsAgree'
  BY <1>1, SameRows, SerialFacts DEF OneActiveLabel
<1>5. OneThing' /\ SweptInv'
  BY <1>1, <1>3 DEF OneThing, SweptInv
<1>6. FreshInv'
  <2> HIDE DEF q
  <2> QED BY <1>1, <1>2, <1>3 DEF FreshInv
<1> QED BY <1>1, <1>4, <1>5, <1>6

\* Whatever else happens, the tables and the request stay; the sweep loads what is
\* due while nothing is under way, and loses rows it has not handled.
LEMMA SerialRest ==
  ASSUME Serial, SInv, UNCHANGED <<exc, decision, labels, proposed, request>>,
         sweep' \subseteq sweep \/ BeginSweep
  PROVE  OneThing' /\ FreshInv' /\ SweptInv' /\ RowsAgree'
<1>1. RowsAgree' /\ FreshInv'
  BY SameRows, SerialFacts DEF OneActiveLabel, FreshInv
<1>2. OneThing'
  BY SerialFacts DEF OneThing, BeginSweep, Quiet
<1>3. SweptInv'
  BY SerialFacts DEF SweptInv, BeginSweep, Due
<1> QED BY <1>1, <1>2, <1>3

\* What a serial step is of the life of an exception.
Life(e) ==
  /\ Others(e)
  /\ \/ exc[e].status = "absent" /\ exc'[e].status = "open" /\ decision'[e] = decision[e]
     \/ exc[e].status \in Undecided /\ exc'[e].status = "pending_approval" /\ decision'[e] = decision[e]
     \/ exc[e].status \in Undecided /\ exc'[e].status = "withdrawn" /\ decision'[e] = decision[e]
     \/ /\ exc[e].status \in Undecided /\ decision'[e] \in Decision
        /\ exc'[e].status = decision'[e].outcome

LEMMA SerialStep ==
  ASSUME Serial, SInv, [Next]_vars
  PROVE  /\ OneThing' /\ FreshInv' /\ SweptInv' /\ RowsAgree'
         /\ UNCHANGED <<exc, decision>> \/ \E e \in Items : Life(e)
<1>1. ASSUME NEW e \in Items, Ingest(e) \/ EscalateAfterOcr(e)
      PROVE  OneThing' /\ FreshInv' /\ SweptInv' /\ RowsAgree' /\ Life(e)
  BY <1>1, RaiseStep DEF Life
<1>2. ASSUME NEW e \in Items, RetractLabel(e)
      PROVE  OneThing' /\ FreshInv' /\ SweptInv' /\ RowsAgree' /\ UNCHANGED <<exc, decision>>
  BY <1>2, SerialRetract
<1>3. ASSUME NEW e \in Items, NEW o \in Outcomes, SweepDecide(e, o)
      PROVE  OneThing' /\ FreshInv' /\ SweptInv' /\ RowsAgree' /\ Life(e)
  BY <1>3, SerialSweep DEF Life
<1>4. ASSUME NEW s \in Sessions, Answer(s)
      PROVE  OneThing' /\ FreshInv' /\ SweptInv'
  <2>1. request[s] # None /\ Finish(s) /\ sweep' = sweep
    BY <1>4 DEF Answer, CommitRecommend, CommitDecide, CommitBackOut, CommitLabel, worker
  <2> QED BY <2>1, EndStep
<1>5. ASSUME NEW s \in Sessions, Answer(s)
      PROVE  RowsAgree' /\ (UNCHANGED <<exc, decision>> \/ \E e \in Items : Life(e))
  <2>1. CASE CommitRecommend(s)
    BY <2>1, SerialRecommend DEF Life
  <2>2. CASE CommitDecide(s)
    BY <2>2, SerialDecide DEF Life
  <2>3. CASE CommitBackOut(s)
    BY <2>3, SerialBackOut DEF Life
  <2>4. CASE CommitLabel(s)
    BY <2>4, SerialLabel
  <2> QED BY <1>5, <2>1, <2>2, <2>3, <2>4 DEF Answer
<1>6. ASSUME NEW s \in Sessions, Rollback(s)
      PROVE  OneThing' /\ FreshInv' /\ SweptInv' /\ RowsAgree' /\ UNCHANGED <<exc, decision>>
  <2>1. /\ request[s] # None /\ Finish(s) /\ sweep' = sweep
        /\ UNCHANGED <<exc, decision, proposed, labels>>
    BY <1>6 DEF Rollback, worker
  <2>2. RowsAgree'
    BY <2>1, SameRows, SerialFacts DEF OneActiveLabel
  <2> QED BY <2>1, <2>2, EndStep
<1>7. ASSUME NEW s \in Sessions, Reviewer(s) \/ Staff(s)
      PROVE  OneThing' /\ FreshInv' /\ SweptInv' /\ RowsAgree' /\ UNCHANGED <<exc, decision>>
  <2>1. PICK k \in Kinds, e \in Items, u \in Users, o \in Outcomes, r \in Reasons \cup {None},
             dual \in BOOLEAN :
          /\ Load(s, k, e, u, o, r, dual) /\ exc[e].status # "absent"
          /\ k \in {"recommend", "decide"} => exc[e].status \in Undecided
          /\ k = "label" => labels[e].active = 0
    <3>1. dualControl \in BOOLEAN /\ {"recommend", "decide", "back_out", "label"} \subseteq Kinds
      BY SerialFacts DEF TypeOK, Kinds
    <3>2. "return" \in Outcomes /\ "absent" \notin Undecided
      BY DEF Outcomes, Undecided
    <3>3. ASSUME NEW e \in Items, NEW u \in Users, NEW o \in Outcomes, NEW r \in Reasons \cup {None},
                 LoadRecommend(s, e, u, o, r) \/ LoadDecide(s, e, u, o, r)
          PROVE  \E k \in Kinds, dual \in BOOLEAN :
                   /\ Load(s, k, e, u, o, r, dual) /\ exc[e].status # "absent" /\ k # "label"
                   /\ exc[e].status \in Undecided
      BY <3>1, <3>2, <3>3 DEF LoadRecommend, LoadDecide
    <3>4. ASSUME NEW e \in Items, NEW u \in Users, NEW r \in Reasons \cup {None},
                 LoadBackOut(s, e, u) \/ LoadLabel(s, e, u, r)
          PROVE  \E k \in Kinds, dual \in BOOLEAN, t \in Reasons \cup {None} :
                   /\ Load(s, k, e, u, "return", t, dual) /\ exc[e].status # "absent"
                   /\ k \notin {"recommend", "decide"} /\ (k = "label" => labels[e].active = 0)
      BY <3>1, <3>4 DEF LoadBackOut, LoadLabel
    <3>5. CASE Reviewer(s)
      <4>1. PICK e \in Items, u \in Users, o \in Outcomes, r \in Reasons \cup {None} :
              LoadRecommend(s, e, u, o, r) \/ LoadDecide(s, e, u, o, r)
        BY <3>5 DEF Reviewer
      <4>2. PICK k \in Kinds, dual \in BOOLEAN :
              /\ Load(s, k, e, u, o, r, dual) /\ exc[e].status # "absent" /\ k # "label"
              /\ exc[e].status \in Undecided
        BY <3>3, <4>1
      <4> QED BY <4>2
    <3>6. CASE Staff(s)
      BY <3>2, <3>4, <3>6 DEF Staff
    <3> QED BY <1>7, <3>5, <3>6
  <2> QED BY <2>1, SerialLoad
<1>8. CASE Administrator \/ BeginSweep \/ RestartWorker \/ (\E e \in Items : SweepSkip(e) \/ SweepAbort(e))
           \/ (\E e \in Items : DeadlinePasses(e)) \/ UNCHANGED vars
  <2>1. /\ UNCHANGED <<exc, decision, labels, proposed, request>>
        /\ sweep' \subseteq sweep \/ BeginSweep
    BY <1>8 DEF Administrator, SetDualControl, SetDisposition, SetReasonActive, BeginSweep, RestartWorker,
                SweepSkip, SweepAbort, DeadlinePasses, vars, worker
  <2> QED BY <2>1, SerialRest
<1> QED BY <1>1, <1>2, <1>3, <1>4, <1>5, <1>6, <1>7, <1>8 DEF Next, Environment, SweepRow

LEMMA SerialInvariance == ASSUME Serial PROVE Spec => []SInv
<1>1. Init => SInv
  <2> SUFFICES ASSUME Init PROVE SInv
    OBVIOUS
  <2>1. OneThing /\ FreshInv /\ SweptInv
    BY DEF Init, OneThing, FreshInv, SweptInv
  <2>2. RowsAgree
    BY DEF Init, RowsAgree, StatusIffDecision, RecommendationIsTheMakers, OneActiveLabel, Decided, Outcomes
  <2> QED BY <2>1, <2>2, InitInv DEF SInv
<1>2. SInv /\ [Next]_vars => SInv'
  BY SerialStep, InvStep DEF SInv
<1> QED BY <1>1, <1>2, PTL DEF Spec

\* Where requests and sweeps do not overlap the rows about a transaction agree: it is
\* decided exactly when its status says so, the maker on record proposed what is on
\* record, and one fraud label is in force at most.
THEOREM RowsTellOneStory == ASSUME Serial PROVE Spec => []RowsAgree
<1>1. SInv => RowsAgree
  BY DEF SInv
<1> QED BY <1>1, SerialInvariance, PTL

-----------------------------------------------------------------------------
(* The refinement: serial handlers implement ExceptionLifecycle.           *)

\* The phase of a status.
PhaseOf(status) ==
  CASE status = "absent" -> "absent"
    [] status = "open" -> "open"
    [] status = "pending_approval" -> "recommended"
    [] status \in Outcomes -> "decided"
    [] status = "withdrawn" -> "withdrawn"

LEMMA PhaseFacts ==
  /\ PhaseOf("absent") = "absent" /\ PhaseOf("open") = "open" /\ PhaseOf("withdrawn") = "withdrawn"
  /\ PhaseOf("pending_approval") = "recommended"
  /\ \A o \in Outcomes : PhaseOf(o) = "decided"
  /\ \A st \in Undecided : PhaseOf(st) \in {"open", "recommended"}
BY DEF PhaseOf, Outcomes, Undecided

LEMMA LifeStep ==
  ASSUME SInv, NEW e \in Items, Life(e)
  PROVE  Lifecycle!Next
<1>1. /\ phaseOf = [f \in Items |-> PhaseOf(exc[f].status)]
      /\ phaseOf' = [f \in Items |-> PhaseOf(exc'[f].status)]
  BY DEF phaseOf, PhaseOf
<1>2. /\ verdictOf = [f \in Items |-> IF decision[f] # None THEN decision[f].outcome ELSE None]
      /\ verdictOf' = [f \in Items |-> IF decision'[f] # None THEN decision'[f].outcome ELSE None]
  BY DEF verdictOf, Decided
<1>3. \A f \in Items : f # e => phaseOf'[f] = phaseOf[f] /\ verdictOf'[f] = verdictOf[f]
  BY <1>1, <1>2 DEF Life, Others
<1>4. phaseOf[e] = PhaseOf(exc[e].status) /\ phaseOf'[e] = PhaseOf(exc'[e].status)
  BY <1>1
<1>5. phaseOf' = [phaseOf EXCEPT ![e] = phaseOf'[e]]
  BY <1>1, <1>3
<1>6. decision'[e] = decision[e] => verdictOf' = verdictOf
  BY <1>2 DEF Life, Others
<1>7. CASE exc[e].status = "absent" /\ exc'[e].status = "open" /\ decision'[e] = decision[e]
  <2>1. Lifecycle!Raise(e)
    BY <1>4, <1>5, <1>6, <1>7, PhaseFacts DEF Lifecycle!Raise
  <2> QED BY <2>1 DEF Lifecycle!Next
<1>8. CASE exc[e].status \in Undecided /\ exc'[e].status = "pending_approval" /\ decision'[e] = decision[e]
  <2>1. Lifecycle!Recommend(e)
    BY <1>4, <1>5, <1>6, <1>8, PhaseFacts DEF Lifecycle!Recommend
  <2> QED BY <2>1 DEF Lifecycle!Next
<1>9. CASE exc[e].status \in Undecided /\ exc'[e].status = "withdrawn" /\ decision'[e] = decision[e]
  <2>1. Lifecycle!Withdraw(e)
    BY <1>4, <1>5, <1>6, <1>9, PhaseFacts DEF Lifecycle!Withdraw
  <2> QED BY <2>1 DEF Lifecycle!Next
<1>10. CASE /\ exc[e].status \in Undecided /\ decision'[e] \in Decision
            /\ exc'[e].status = decision'[e].outcome
  <2>1. PICK o \in Outcomes : o = decision'[e].outcome /\ decision'[e] # None
    BY <1>10, ConstantsAssumption DEF Decision
  <2>2. verdictOf'[e] = o
    BY <1>2, <2>1
  <2>3. verdictOf' = [verdictOf EXCEPT ![e] = o]
    <3>1. /\ verdictOf = [f \in Items |-> verdictOf[f]]
          /\ verdictOf' = [f \in Items |-> verdictOf'[f]]
      BY <1>2
    <3> QED BY <1>3, <2>2, <3>1
  <2>4. phaseOf[e] \in {"open", "recommended"} /\ phaseOf'[e] = "decided"
    BY <1>4, <1>10, <2>1, PhaseFacts
  <2>5. Lifecycle!Decide(e, o)
    BY <1>5, <2>3, <2>4 DEF Lifecycle!Decide
  <2> QED BY <2>5 DEF Lifecycle!Next
<1> QED BY <1>7, <1>8, <1>9, <1>10 DEF Life

\* Handlers that never overlap implement the promised life of an exception: raised
\* once, recommended while it is undecided, and closed once, by a decision of a
\* person or of the sweep or by a back-out; nothing else moves it.
THEOREM ImplementsTheLife == ASSUME Serial PROVE Spec => ImplementsLifecycle
<1>1. Init => Lifecycle!Init
  <2> SUFFICES ASSUME Init PROVE Lifecycle!Init
    OBVIOUS
  <2>1. phaseOf = [e \in Items |-> PhaseOf(exc[e].status)]
    BY DEF phaseOf, PhaseOf
  <2>2. \A e \in Items : exc[e].status = "absent" /\ decision[e] = None
    BY DEF Init
  <2>3. phaseOf = [e \in Items |-> "absent"]
    BY <2>1, <2>2, PhaseFacts
  <2>4. verdictOf = [e \in Items |-> None]
    BY <2>2 DEF verdictOf, Decided
  <2> QED BY <2>3, <2>4 DEF Lifecycle!Init
<1>2. SInv /\ [Next]_vars => [Lifecycle!Next]_(Lifecycle!vars)
  <2> SUFFICES ASSUME SInv, [Next]_vars PROVE Lifecycle!Next \/ UNCHANGED Lifecycle!vars
    OBVIOUS
  <2>1. UNCHANGED <<exc, decision>> => UNCHANGED Lifecycle!vars
    BY DEF Lifecycle!vars, phaseOf, verdictOf, Decided
  <2> QED BY <2>1, SerialStep, LifeStep
<1>3. []SInv /\ [][Next]_vars => [][Lifecycle!Next]_(Lifecycle!vars)
  BY <1>2, PTL
<1> QED BY <1>1, <1>3, SerialInvariance, PTL DEF Spec, ImplementsLifecycle, Lifecycle!Spec

=============================================================================
