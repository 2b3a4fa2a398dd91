-------------------------- MODULE ExceptionReview ---------------------------
(***************************************************************************)
(* The review queue: exception_item rows, the decision rows that close     *)
(* them, and the four kinds of writer that touch them: recommend, decide   *)
(* (services/decision_service.py), the back-out of a bulk upload           *)
(* (services/bulk_upload_reversal_service.py) and fraud labelling          *)
(* (services/fraud_training_service.py), each in a web or API request, and *)
(* the worker's deadline sweep (workers/tasks.py).                         *)
(*                                                                         *)
(* No row carries a version column and nothing is read FOR UPDATE, so a    *)
(* request is two steps: Load... reads rows and checks every guard on that *)
(* copy, Commit... writes what the handler changed in one database         *)
(* transaction.  Requests of different sessions interleave between the     *)
(* two.  With Serial = TRUE nothing starts while something else is in      *)
(* flight, which is the behaviour a reader of the handlers has in mind.    *)
(***************************************************************************)
EXTENDS Naturals, FiniteSets

CONSTANTS
  Checks,        \* paid_item rows that may raise an exception
  AchTxns,       \* ach_transaction rows that may raise an exception
  Users,         \* people holding exception:recommend and exception:decide
  Sessions,      \* requests that may be in flight at once
  Reasons,       \* the tenant's AchReturnReason catalog
  Dispositions,  \* disposition settings an administrator chooses from
  MaxLabels,     \* bound: fraud labels submitted per item
  MaxRestarts,   \* bound: worker restarts in the middle of a sweep
  Serial,        \* TRUE: requests and sweeps never overlap
  None

Items == Checks \cup AchTxns
Network(e) == IF e \in AchTxns THEN "ach" ELSE "check"
Networks == {Network(e) : e \in Items}

Outcomes == {"pay", "return"}
\* Status "absent" stands for a row not yet inserted; ESCALATED is in the
\* enum but no code sets it.
Undecided == {"open", "pending_approval"}
Statuses == {"absent", "withdrawn"} \cup Undecided \cup Outcomes
Modes == {"none", "fixed_pay", "fixed_return", "ml_determined"}
Settlements == {"pending", "paid", "returned", "reversed"}
Sources == {"human", "auto_default", "auto_ml"}

\* The columns of exception_item that a request loads and writes back.
Row == [status: Statuses, by: Users \cup {None}, outcome: Outcomes \cup {None}]

\* A decision row.  "dual" is not a column: it records the dual-control flag
\* the deciding request had read.
Decision == [outcome: Outcomes, source: Sources, maker: Users \cup {None},
             checker: Users \cup {None}, reason: Reasons \cup {None},
             dual: BOOLEAN]

Disposition == [mode: Modes, reason: Reasons \cup {None}]

\* One request in flight: its inputs and the copies it loaded.
Kinds == {"recommend", "decide", "back_out", "label"}
Request == [kind: Kinds, item: Items, user: Users,
            outcome: Outcomes, reason: Reasons \cup {None},
            row: Row, settlement: Settlements, dual: BOOLEAN]

ASSUME ConstantsAssumption ==
  /\ Checks \cap AchTxns = {}
  /\ None \notin Users /\ None \notin Reasons /\ None \notin Outcomes
  /\ None \notin Request /\ None \notin Decision
  /\ Dispositions \subseteq Disposition
  /\ MaxLabels \in Nat /\ MaxRestarts \in Nat
  /\ Serial \in BOOLEAN

VARIABLES
  exc,          \* [Items -> Row]
  deadline,     \* decision_deadline: "none", still "running", or "passed"
  decision,     \* [Items -> Decision \cup {None}], unique per exception
  settlement,   \* settlement_status of the source item
  labels,       \* fraud-training labels of the source item
  dualControl,  \* Tenant.require_dual_control
  disposition,  \* CustomerDispositionSetting per network
  activeReasons,\* catalog entries with is_active
  request,      \* [Sessions -> Request \cup {None}]
  sweep,        \* rows the running sweep has loaded and not yet handled
  restarts,     \* worker restarts so far
  proposed      \* history: the <<maker, outcome>> pairs recommended

vars == <<exc, deadline, decision, settlement, labels, dualControl,
          disposition, activeReasons, request, sweep, restarts, proposed>>
settings == <<dualControl, disposition, activeReasons>>
worker == <<sweep, restarts>>

TypeOK ==
  /\ exc \in [Items -> Row]
  /\ deadline \in [Items -> {"none", "running", "passed"}]
  /\ decision \in [Items -> Decision \cup {None}]
  /\ settlement \in [Items -> Settlements]
  /\ labels \in [Items -> [active: Nat, total: Nat]]
  /\ dualControl \in BOOLEAN
  /\ disposition \in [Networks -> Dispositions]
  /\ activeReasons \subseteq Reasons
  /\ request \in [Sessions -> Request \cup {None}]
  /\ sweep \subseteq Items
  /\ restarts \in 0..MaxRestarts
  /\ proposed \in [Items -> SUBSET (Users \X Outcomes)]

Init ==
  /\ exc = [e \in Items |-> [status |-> "absent", by |-> None, outcome |-> None]]
  /\ deadline = [e \in Items |-> "none"]
  /\ decision = [e \in Items |-> None]
  /\ settlement = [e \in Items |-> "pending"]
  /\ labels = [e \in Items |-> [active |-> 0, total |-> 0]]
  /\ dualControl \in BOOLEAN
  /\ disposition \in [Networks -> Dispositions]
  /\ activeReasons = Reasons
  /\ request = [s \in Sessions |-> None]
  /\ sweep = {}
  /\ restarts = 0
  /\ proposed = [e \in Items |-> {}]

-----------------------------------------------------------------------------
(* How an exception comes to be.                                           *)

\* The matching engine rejects a presented item.  A network whose setting is
\* NONE, or absent, gives it no deadline.
Ingest(e) ==
  /\ exc[e].status = "absent"
  /\ exc' = [exc EXCEPT ![e].status = "open"]
  /\ deadline' = [deadline EXCEPT ![e] =
       IF disposition[Network(e)].mode = "none" THEN "none" ELSE "running"]
  /\ UNCHANGED <<decision, settlement, labels, settings, request, worker, proposed>>

\* OCR finds a mismatch on a check that had matched: the exception gets no
\* deadline, and the item stays settled as it was (paid, or backed out).
EscalateAfterOcr(e) ==
  /\ exc[e].status = "absent"
  /\ exc' = [exc EXCEPT ![e].status = "open"]
  /\ \E st \in {"paid", "reversed"} : settlement' = [settlement EXCEPT ![e] = st]
  /\ UNCHANGED <<deadline, decision, labels, settings, request, worker, proposed>>

DeadlinePasses(e) ==
  /\ deadline[e] = "running"
  /\ deadline' = [deadline EXCEPT ![e] = "passed"]
  /\ UNCHANGED <<exc, decision, settlement, labels, settings, request, worker, proposed>>

-----------------------------------------------------------------------------
(* Requests.                                                               *)

\* The ORM writes back only the columns whose value differs from the value
\* that was loaded; the others keep whatever another session put there.
Flush(stored, loaded, edited) ==
  [status  |-> IF edited.status = loaded.status THEN stored.status ELSE edited.status,
   by      |-> IF edited.by = loaded.by THEN stored.by ELSE edited.by,
   outcome |-> IF edited.outcome = loaded.outcome THEN stored.outcome ELSE edited.outcome]

Quiet == sweep = {} /\ \A s \in Sessions : request[s] = None
CanStart(s) == request[s] = None /\ (Serial => Quiet)

\* An ACH return must name an active catalog entry; anything else ignores it.
ReasonResolves(e, o, r) ==
  IF e \in AchTxns /\ o = "return" THEN r \in activeReasons ELSE r = None

Load(s, k, e, u, o, r, dual) ==
  /\ CanStart(s)
  /\ request' = [request EXCEPT ![s] =
       [kind |-> k, item |-> e, user |-> u, outcome |-> o, reason |-> r,
        row |-> exc[e], settlement |-> settlement[e], dual |-> dual]]
  /\ UNCHANGED <<exc, deadline, decision, settlement, labels, settings, worker, proposed>>

Finish(s) == request' = [request EXCEPT ![s] = None]

LoadRecommend(s, e, u, o, r) ==
  /\ exc[e].status \in Undecided
  /\ ReasonResolves(e, o, r)
  /\ Load(s, "recommend", e, u, o, r, FALSE)

CommitRecommend(s) ==
  /\ request[s] # None /\ request[s].kind = "recommend"
  /\ LET q == request[s] IN
     /\ exc' = [exc EXCEPT ![q.item] =
          Flush(@, q.row, [status |-> "pending_approval", by |-> q.user, outcome |-> q.outcome])]
     /\ proposed' = [proposed EXCEPT ![q.item] = @ \cup {<<q.user, q.outcome>>}]
  /\ Finish(s)
  /\ UNCHANGED <<deadline, decision, settlement, labels, settings, worker>>

\* Mutant: decide does not look at the exception's status unless dual control
\* makes it.
LoadDecide_AnyStatus(s, e, u, o, r) ==
  /\ exc[e].status # "absent"
  /\ dualControl => /\ exc[e].status = "pending_approval"
                    /\ exc[e].by # u
  /\ ReasonResolves(e, o, r)
  /\ Load(s, "decide", e, u, o, r, dualControl)

LoadDecide(s, e, u, o, r) ==
  /\ exc[e].status \in Undecided
  /\ dualControl => /\ exc[e].status = "pending_approval"
                    /\ exc[e].by # u
  /\ ReasonResolves(e, o, r)
  /\ Load(s, "decide", e, u, o, r, dualControl)

\* Mutant: no unique constraint on decision.exception_item_id.
Close_Twice(e, d, row, loadedSettlement) ==
  /\ decision' = [decision EXCEPT ![e] = d]
  /\ exc' = [exc EXCEPT ![e] = Flush(@, row, [row EXCEPT !.status = d.outcome])]
  /\ settlement' = IF e \in AchTxns /\ d.outcome = "return" /\ loadedSettlement # "returned"
                   THEN [settlement EXCEPT ![e] = "returned"] ELSE settlement

\* Mutant: the status is taken from the recommendation, where there is one.
Close_AsRecommended(e, d, row, loadedSettlement) ==
  /\ decision[e] = None
  /\ decision' = [decision EXCEPT ![e] = d]
  /\ exc' = [exc EXCEPT ![e] = Flush(@, row,
       [row EXCEPT !.status = IF row.outcome = None THEN d.outcome ELSE row.outcome])]
  /\ settlement' = IF e \in AchTxns /\ d.outcome = "return" /\ loadedSettlement # "returned"
                   THEN [settlement EXCEPT ![e] = "returned"] ELSE settlement

\* Mutant: only a human decision settles the transaction.
Close_AutoForgetsSettlement(e, d, row, loadedSettlement) ==
  /\ decision[e] = None
  /\ decision' = [decision EXCEPT ![e] = d]
  /\ exc' = [exc EXCEPT ![e] = Flush(@, row, [row EXCEPT !.status = d.outcome])]
  /\ settlement' = IF e \in AchTxns /\ d.outcome = "return" /\ d.source = "human"
                   THEN [settlement EXCEPT ![e] = "returned"] ELSE settlement

\* Closing item e: the decision row, the exception's status and, for an ACH
\* return, the transaction's settlement, all in one transaction.
Close(e, d, row, loadedSettlement) ==
  /\ decision[e] = None
  /\ decision' = [decision EXCEPT ![e] = d]
  /\ exc' = [exc EXCEPT ![e] = Flush(@, row, [row EXCEPT !.status = d.outcome])]
  /\ settlement' = IF e \in AchTxns /\ d.outcome = "return" /\ loadedSettlement # "returned"
                   THEN [settlement EXCEPT ![e] = "returned"] ELSE settlement

\* Mutant: the maker is read again when the decision is written, after the
\* maker-is-not-checker guard has run on the earlier copy.
CommitDecide_RereadsMaker(s) ==
  /\ request[s] # None /\ request[s].kind = "decide"
  /\ LET q == request[s] IN
       Close(q.item,
             [outcome |-> q.outcome, source |-> "human", reason |-> q.reason, dual |-> q.dual,
              maker |-> IF q.dual THEN exc[q.item].by ELSE None, checker |-> q.user],
             q.row, q.settlement)
  /\ Finish(s)
  /\ UNCHANGED <<deadline, labels, settings, worker, proposed>>

CommitDecide(s) ==
  /\ request[s] # None /\ request[s].kind = "decide"
  /\ LET q == request[s] IN
       Close(q.item,
             [outcome |-> q.outcome, source |-> "human", reason |-> q.reason, dual |-> q.dual,
              maker |-> IF q.dual THEN q.row.by ELSE None, checker |-> q.user],
             q.row, q.settlement)
  /\ Finish(s)
  /\ UNCHANGED <<deadline, labels, settings, worker, proposed>>

\* The unique constraint on decision.exception_item_id, or a dropped
\* connection, rolls the request back.
Rollback(s) ==
  /\ request[s] # None
  /\ Finish(s)
  /\ UNCHANGED <<exc, deadline, decision, settlement, labels, settings, worker, proposed>>

LoadBackOut(s, e, u) ==
  /\ e \in Checks
  /\ exc[e].status # "absent"
  /\ settlement[e] \notin {"reversed", "returned"}
  /\ Load(s, "back_out", e, u, "return", None, FALSE)

\* Mutant: a back-out withdraws every exception, decided or not.
CommitBackOut_Always(s) ==
  /\ request[s] # None /\ request[s].kind = "back_out"
  /\ LET q == request[s] IN
     /\ exc' = [exc EXCEPT ![q.item] = Flush(@, q.row, [q.row EXCEPT !.status = "withdrawn"])]
     /\ settlement' = [settlement EXCEPT ![q.item] = "reversed"]
  /\ Finish(s)
  /\ UNCHANGED <<deadline, decision, labels, settings, worker, proposed>>

\* Mutant: the paid item's new status is written into its exception.
CommitBackOut_WrongEnum(s) ==
  /\ request[s] # None /\ request[s].kind = "back_out"
  /\ LET q == request[s] IN
     /\ exc' = [exc EXCEPT ![q.item] = Flush(@, q.row, [q.row EXCEPT !.status = "reversed"])]
     /\ settlement' = [settlement EXCEPT ![q.item] = "reversed"]
  /\ Finish(s)
  /\ UNCHANGED <<deadline, decision, labels, settings, worker, proposed>>

\* An undecided exception is withdrawn, any other is left as it is; the paid
\* item is reversed either way.
CommitBackOut(s) ==
  /\ request[s] # None /\ request[s].kind = "back_out"
  /\ LET q == request[s] IN
     /\ exc' = IF q.row.status \in Undecided
               THEN [exc EXCEPT ![q.item] = Flush(@, q.row, [q.row EXCEPT !.status = "withdrawn"])]
               ELSE exc
     /\ settlement' = [settlement EXCEPT ![q.item] = "reversed"]
  /\ Finish(s)
  /\ UNCHANGED <<deadline, decision, labels, settings, worker, proposed>>

\* Labelling a transaction as known fraud inserts a training exception and
\* its decision, both born closed: they are counted in labels, not in Items.
LoadLabel(s, e, u, r) ==
  /\ exc[e].status # "absent"
  /\ labels[e].active = 0
  /\ labels[e].total < MaxLabels
  /\ ReasonResolves(e, "return", r)
  /\ Load(s, "label", e, u, "return", r, FALSE)

CommitLabel(s) ==
  /\ request[s] # None /\ request[s].kind = "label"
  /\ LET q == request[s] IN
     /\ labels' = [labels EXCEPT ![q.item] = [active |-> @.active + 1, total |-> @.total + 1]]
     /\ settlement' = IF q.settlement = "returned" THEN settlement
                      ELSE [settlement EXCEPT ![q.item] = "returned"]
  /\ Finish(s)
  /\ UNCHANGED <<exc, deadline, decision, settings, worker, proposed>>

\* One-way and soft: the settlement stays as the label left it.
RetractLabel(e) ==
  /\ labels[e].active > 0
  /\ labels' = [labels EXCEPT ![e].active = @ - 1]
  /\ UNCHANGED <<exc, deadline, decision, settlement, settings, request, worker, proposed>>

-----------------------------------------------------------------------------
(* The worker's sweep of expired exceptions.                               *)

\* Mutant: the sweep does not look at the deadline.
Due_AnyTime == {e \in Items : exc[e].status \in Undecided}

\* Mutant: an item awaiting approval is left out of the sweep.
Due_OpenOnly == {e \in Items : exc[e].status = "open" /\ deadline[e] = "passed"}

Due == {e \in Items : exc[e].status \in Undecided /\ deadline[e] = "passed"}

\* One query loads every due row; nothing re-reads them afterwards.
BeginSweep ==
  /\ sweep = {} /\ Due # {}
  /\ Serial => Quiet
  /\ sweep' = Due
  /\ UNCHANGED <<exc, deadline, decision, settlement, labels, settings, request, restarts, proposed>>

\* The outcomes a setting may resolve to; a model's score decides either way.
AutoOutcomes(m) ==
  CASE m = "none" -> {}
    [] m = "fixed_pay" -> {"pay"}
    [] m = "fixed_return" -> {"return"}
    [] m = "ml_determined" -> Outcomes

AutoReason(e, o) ==
  IF e \in AchTxns /\ o = "return" THEN disposition["ach"].reason ELSE None

\* The row's copy still says it is undecided, so its status is written
\* whatever the stored one has become since.
SweepDecide(e, o) ==
  /\ e \in sweep
  /\ o \in AutoOutcomes(disposition[Network(e)].mode)
  /\ ReasonResolves(e, o, AutoReason(e, o))
  /\ Close(e,
           [outcome |-> o, reason |-> AutoReason(e, o), maker |-> None, checker |-> None,
            source |-> IF disposition[Network(e)].mode = "ml_determined"
                       THEN "auto_ml" ELSE "auto_default",
            dual |-> FALSE],
           [exc[e] EXCEPT !.status = "open"], settlement[e])
  /\ sweep' = sweep \ {e}
  /\ UNCHANGED <<deadline, labels, settings, request, restarts, proposed>>

\* No model, no setting or no usable return reason: left for the next sweep.
SweepSkip(e) ==
  /\ e \in sweep
  /\ \/ disposition[Network(e)].mode \in {"none", "ml_determined"}
     \/ \E o \in AutoOutcomes(disposition[Network(e)].mode) :
          ~ReasonResolves(e, o, AutoReason(e, o))
  /\ sweep' = sweep \ {e}
  /\ UNCHANGED <<exc, deadline, decision, settlement, labels, settings, request, restarts, proposed>>

\* The insert hits the unique constraint.  The failed flush leaves the session
\* unusable until it is rolled back and has expired every row it holds, so the
\* handler's own reference to exception_item.id, evaluated before its
\* rollback, raises again and the pass ends with the other rows unhandled.
SweepAbort(e) ==
  /\ e \in sweep
  /\ decision[e] # None
  /\ \E o \in AutoOutcomes(disposition[Network(e)].mode) : ReasonResolves(e, o, AutoReason(e, o))
  /\ sweep' = {}
  /\ UNCHANGED <<exc, deadline, decision, settlement, labels, settings, request, restarts, proposed>>

SweepRow == \E e \in Items :
  SweepSkip(e) \/ SweepAbort(e) \/ \E o \in Outcomes : SweepDecide(e, o)

\* Each row is committed on its own; a restart loses the rest of the pass.
RestartWorker ==
  /\ sweep # {} /\ restarts < MaxRestarts
  /\ sweep' = {}
  /\ restarts' = restarts + 1
  /\ UNCHANGED <<exc, deadline, decision, settlement, labels, settings, request, proposed>>

-----------------------------------------------------------------------------
(* Administration: settings read by the handlers above.                    *)

SetDualControl(b) ==
  /\ dualControl' = b
  /\ UNCHANGED <<exc, deadline, decision, settlement, labels, disposition, activeReasons,
                 request, worker, proposed>>

SetDisposition(n, d) ==
  /\ disposition' = [disposition EXCEPT ![n] = d]
  /\ UNCHANGED <<exc, deadline, decision, settlement, labels, dualControl, activeReasons,
                 request, worker, proposed>>

SetReasonActive(r, active) ==
  /\ activeReasons' = IF active THEN activeReasons \cup {r} ELSE activeReasons \ {r}
  /\ UNCHANGED <<exc, deadline, decision, settlement, labels, dualControl, disposition,
                 request, worker, proposed>>

-----------------------------------------------------------------------------
Answer(s) == CommitRecommend(s) \/ CommitDecide(s) \/ CommitBackOut(s) \/ CommitLabel(s)

Reviewer(s) == \E e \in Items, u \in Users, o \in Outcomes, r \in Reasons \cup {None} :
  LoadRecommend(s, e, u, o, r) \/ LoadDecide(s, e, u, o, r)

Staff(s) == \E e \in Items, u \in Users :
  LoadBackOut(s, e, u) \/ \E r \in Reasons \cup {None} : LoadLabel(s, e, u, r)

Administrator ==
  \/ \E b \in BOOLEAN : SetDualControl(b)
  \/ \E n \in Networks, d \in Dispositions : SetDisposition(n, d)
  \/ \E r \in Reasons, b \in BOOLEAN : SetReasonActive(r, b)

Environment == \E e \in Items :
  \/ Ingest(e) \/ DeadlinePasses(e) \/ RetractLabel(e)
  \/ e \in Checks /\ EscalateAfterOcr(e)

Next ==
  \/ Environment \/ Administrator
  \/ BeginSweep \/ SweepRow \/ RestartWorker
  \/ \E s \in Sessions : Reviewer(s) \/ Staff(s) \/ Answer(s) \/ Rollback(s)

Spec == Init /\ [][Next]_vars

\* The worker keeps polling and handling what it polled, and a request that
\* has started is answered; nothing obliges people to act.  BeginSweep is
\* strongly fair because in the serial case it has to find the queue quiet.
Fairness ==
  /\ SF_vars(BeginSweep) /\ WF_vars(SweepRow)
  /\ \A s \in Sessions : WF_vars(Answer(s) \/ Rollback(s))

FairSpec == Spec /\ Fairness

-----------------------------------------------------------------------------
(* Properties that hold however requests overlap.                          *)

Decided(e) == decision[e] # None

\* Dual control (decision_service.decide): a human decision taken while the
\* flag was on names a maker, who is not the checker and who did recommend
\* this very item, however recommendations and decisions interleave.
FourEyes == \A e \in Items :
  Decided(e) /\ decision[e].dual =>
    /\ decision[e].maker # None
    /\ decision[e].maker # decision[e].checker
    /\ \E o \in Outcomes : <<decision[e].maker, o>> \in proposed[e]

\* A status of PAY or RETURN is backed by a decision row with that outcome,
\* and an exception with a decision never goes back to OPEN.
StatusBacked == \A e \in Items :
  /\ exc[e].status \in Outcomes => Decided(e) /\ decision[e].outcome = exc[e].status
  /\ Decided(e) => exc[e].status # "open"

\* wsud_service relies on it: an ACH transaction is settled RETURNED exactly
\* when its exception was decided RETURN or it was labelled as fraud.
AchReturnSettled == \A e \in AchTxns :
  settlement[e] = "returned" <=>
    \/ Decided(e) /\ decision[e].outcome = "return"
    \/ labels[e].total > 0

\* Only an exception whose deadline has passed is decided by the system, and
\* an ACH return, whoever decides it, names a catalog entry.
AutoOnlyWhenDue == \A e \in Items :
  Decided(e) =>
    /\ decision[e].source # "human" => deadline[e] = "passed"
    /\ (decision[e].reason # None) <=> (e \in AchTxns /\ decision[e].outcome = "return")

\* A decision is the ground truth the models learn from: once recorded, no
\* request and no sweep replaces it.
DecisionIsFinal ==
  [][\A e \in Items : Decided(e) => decision'[e] = decision[e]]_vars

-----------------------------------------------------------------------------
(* Properties of the serial case, which overlapping requests break.        *)

\* An exception is closed by a decision exactly when its status says so: no
\* decided exception is withdrawn or back in the queue.
StatusIffDecision == \A e \in Items : Decided(e) <=> exc[e].status \in Outcomes

\* ExceptionItem's recommended_* columns hold one maker's proposal: the user
\* named there did recommend the outcome recorded there.
RecommendationIsTheMakers == \A e \in Items :
  exc[e].by # None => <<exc[e].by, exc[e].outcome>> \in proposed[e]

\* At most one active fraud label per transaction.
OneActiveLabel == \A e \in Items : labels[e].active <= 1

\* The rows about one transaction agree: status with decision, recommended_*
\* columns with one recommendation, one label in force.
RowsAgree == StatusIffDecision /\ RecommendationIsTheMakers /\ OneActiveLabel

\* The abstract life of an exception, read off the two tables.
phaseOf == [e \in Items |->
  CASE exc[e].status = "absent" -> "absent"
    [] exc[e].status = "open" -> "open"
    [] exc[e].status = "pending_approval" -> "recommended"
    [] exc[e].status \in Outcomes -> "decided"
    [] exc[e].status = "withdrawn" -> "withdrawn"]
verdictOf == [e \in Items |-> IF Decided(e) THEN decision[e].outcome ELSE None]

Lifecycle == INSTANCE ExceptionLifecycle WITH phase <- phaseOf, verdict <- verdictOf

\* Handlers that never overlap implement the promised life of an exception.
ImplementsLifecycle == Lifecycle!Spec

\* The setting in force decides e without needing a model or a reason.
Settled(n) == disposition[n].mode = "fixed_pay"

\* The deadline is a backstop: an exception whose deadline has passed leaves
\* the queue, provided its network's setting stays a fixed PAY.
DeadlineIsBackstop == \A e \in Items :
  (deadline[e] = "passed" /\ []Settled(Network(e))) ~> exc[e].status \notin Undecided
=============================================================================
