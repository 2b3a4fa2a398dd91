--------------------------- MODULE CheckClearing ----------------------------
(***************************************************************************)
(* The check network: the issue file and its stop payments, presented      *)
(* items matched against them (networks/check/ingestion.py, adapter.py,    *)
(* rules.py), matching run again when an image's OCR completes             *)
(* (ocr_processing.py), the back-out of a bulk upload and fraud labels.    *)
(* All of it is on one account.                                            *)
(*                                                                         *)
(* As in ExceptionReview, a request reads rows in its Load step and writes *)
(* in its Commit step, others run in between unless Serial, and a column   *)
(* is written only if the request changed it.  What happens to an          *)
(* exception once it is raised is ExceptionReview's business; here it is a *)
(* row that exists.                                                        *)
(***************************************************************************)
EXTENDS Naturals, FiniteSets

CONSTANTS
  Numbers,    \* check numbers
  Items,      \* presented items (paid_item rows)
  Amounts,
  Sessions,   \* requests and background tasks in flight at once
  MaxStops,   \* bound: active stop payments per check number
  MaxReadings, \* bound: images read, each again if reprocessed
  Serial,     \* TRUE: requests never overlap
  None

IssuedStatuses == {"absent", "outstanding", "paid", "voided"}
MatchStatuses == {"absent", "matched", "exception"}
Settlements == {"pending", "paid", "returned", "reversed"}

\* issued_item: unique per check number; STOPPED and STALE are never written.
IssuedRow == [status: IssuedStatuses, amount: Amounts \cup {None}]

\* paid_item: linked says whether matched_issued_item_id is set, stale that it
\* was presented more than the bank's threshold after the issue date.
PaidRow == [number: Numbers \cup {None}, amount: Amounts \cup {None}, stale: BOOLEAN,
            match: MatchStatuses, settlement: Settlements, linked: BOOLEAN]

\* How the payee an image shows compares with the issued one.
Payees == {"same", "other"}

FindingTypes == {"duplicate_paid", "stopped", "not_in_file", "voided",
                 "amount_mismatch", "payee_mismatch", "stale_dated"}

\* A request in flight, with the copies it has read; rows counts the exception
\* rows its item had.
Kinds == {"ingest", "reevaluate", "back_out", "label"}
Request == [kind: Kinds, item: Items, row: PaidRow, findings: SUBSET FindingTypes,
            issued: IssuedStatuses, rows: Nat]

ASSUME ConstantsAssumption ==
  /\ None \notin Numbers /\ None \notin Amounts /\ None \notin Items /\ None \notin Request
  /\ MaxStops \in Nat /\ MaxReadings \in Nat
  /\ Serial \in BOOLEAN

VARIABLES
  issued,     \* [Numbers -> IssuedRow]
  stops,      \* active stop payments per check number
  paid,       \* [Items -> PaidRow]
  exceptions, \* live exception rows per item
  labels,     \* fraud-training exception rows per item
  ocr,        \* images of an item whose OCR is complete, by the payee they show
  reading,    \* images of an item whose OCR is under way
  asked,      \* history: readings asked for so far
  pending,    \* completed readings whose re-evaluation has not started
  request     \* [Sessions -> Request \cup {None}]

imagery == <<ocr, reading, asked, pending>>
vars == <<issued, stops, paid, exceptions, labels, imagery, request>>

TypeOK ==
  /\ issued \in [Numbers -> IssuedRow]
  /\ stops \in [Numbers -> 0..MaxStops]
  /\ paid \in [Items -> PaidRow]
  /\ exceptions \in [Items -> Nat]
  /\ labels \in [Items -> Nat]
  /\ ocr \in [Items -> [Payees -> Nat]]
  /\ reading \in [Items -> Nat]
  /\ asked \in 0..MaxReadings
  /\ pending \in [Items -> Nat]
  /\ request \in [Sessions -> Request \cup {None}]

NoPaidRow == [number |-> None, amount |-> None, stale |-> FALSE,
              match |-> "absent", settlement |-> "pending", linked |-> FALSE]

Init ==
  /\ issued = [n \in Numbers |-> [status |-> "absent", amount |-> None]]
  /\ stops = [n \in Numbers |-> 0]
  /\ paid = [p \in Items |-> NoPaidRow]
  /\ exceptions = [p \in Items |-> 0]
  /\ labels = [p \in Items |-> 0]
  /\ ocr = [p \in Items |-> [payee \in Payees |-> 0]]
  /\ reading = [p \in Items |-> 0]
  /\ asked = 0
  /\ pending = [p \in Items |-> 0]
  /\ request = [s \in Sessions |-> None]

Quiet == \A s \in Sessions : request[s] = None
Calm == Serial => Quiet

-----------------------------------------------------------------------------
(* The issue file and its stop payments: one row, written unconditionally. *)

Issue(n, a) ==
  /\ Calm
  /\ issued[n].status = "absent"
  /\ issued' = [issued EXCEPT ![n] = [status |-> "outstanding", amount |-> a]]
  /\ UNCHANGED <<stops, paid, exceptions, labels, imagery, request>>

\* The route voids an issued item whatever its status; backing out the upload
\* that created it does so too, but not once it is paid or voided.
Void(n) ==
  /\ Calm
  /\ issued[n].status # "absent"
  /\ issued' = [issued EXCEPT ![n].status = "voided"]
  /\ UNCHANGED <<stops, paid, exceptions, labels, imagery, request>>

\* The service adds an active stop to the number, or ends one of them.
Placed(n) == [stops EXCEPT ![n] = @ + 1]
Cancelled(n) == [stops EXCEPT ![n] = @ - 1]

CreateStop(n) ==
  /\ Calm
  /\ stops[n] < MaxStops
  /\ stops' = Placed(n)
  /\ UNCHANGED <<issued, paid, exceptions, labels, imagery, request>>

CancelStop(n) ==
  /\ Calm
  /\ stops[n] > 0
  /\ stops' = Cancelled(n)
  /\ UNCHANGED <<issued, paid, exceptions, labels, imagery, request>>

-----------------------------------------------------------------------------
(* Matching.                                                               *)

\* Mutant: an item that OCR has put in exception does not count as paid.
DuplicatePaid_MatchedOnly(p, n, a) == \E q \in Items \ {p} :
  /\ paid[q].number = n /\ paid[q].amount = a /\ paid[q].settlement = "paid"
  /\ paid[q].match = "matched"

\* Only payments that stand count: returned and reversed ones do not.
DuplicatePaid(p, n, a) == \E q \in Items \ {p} :
  paid[q].number = n /\ paid[q].amount = a /\ paid[q].settlement = "paid"

\* The issue file's entry for a number: at most one.
Candidate(n) == issued[n]

\* A stop that is active on the day of presentment.
Stopped(n) == stops[n] > 0

When(b, f) == IF b THEN {f} ELSE {}

\* Mutant: the amounts are not compared.
Findings_AnyAmount(duplicate, stopped, candidate, a, stale, payee) ==
  When(duplicate, "duplicate_paid") \cup
  IF stopped THEN {"stopped"}
  ELSE IF candidate.status = "absent" THEN {"not_in_file"}
  ELSE When(candidate.status = "voided", "voided")
       \cup When(payee = "other", "payee_mismatch")
       \cup When(stale, "stale_dated")

\* Mutant: a voided check is found in the file like any other.
Findings_IgnoreVoid(duplicate, stopped, candidate, a, stale, payee) ==
  When(duplicate, "duplicate_paid") \cup
  IF stopped THEN {"stopped"}
  ELSE IF candidate.status = "absent" THEN {"not_in_file"}
  ELSE When(a # candidate.amount, "amount_mismatch")
       \cup When(payee = "other", "payee_mismatch")
       \cup When(stale, "stale_dated")

\* The rules, from facts already loaded: what is wrong with an item presented
\* at amount a.  A stop, and a check missing from the file, end the evaluation.
Findings(duplicate, stopped, candidate, a, stale, payee) ==
  When(duplicate, "duplicate_paid") \cup
  IF stopped THEN {"stopped"}
  ELSE IF candidate.status = "absent" THEN {"not_in_file"}
  ELSE When(candidate.status = "voided", "voided")
       \cup When(a # candidate.amount, "amount_mismatch")
       \cup When(payee = "other", "payee_mismatch")
       \cup When(stale, "stale_dated")

\* The adapter loads those facts for item p; payee is what an image of it shows.
Evaluate(p, n, a, stale, payee) ==
  Findings(DuplicatePaid(p, n, a), Stopped(n), Candidate(n), a, stale, payee)

Start(s, k, p, row, findings, n) ==
  /\ request[s] = None /\ Calm
  /\ request' = [request EXCEPT ![s] =
       [kind |-> k, item |-> p, row |-> row, findings |-> findings,
        issued |-> issued[n].status, rows |-> exceptions[p] + labels[p]]]

Finish(s) == request' = [request EXCEPT ![s] = None]

\* A new item is evaluated before its row is committed, and has no image yet.
LoadIngest(s, p, n, a, stale) ==
  /\ paid[p].match = "absent"
  /\ \A t \in Sessions : request[t] # None => request[t].item # p
  /\ LET findings == Evaluate(p, n, a, stale, "same") IN
     Start(s, "ingest", p,
           [number |-> n, amount |-> a, stale |-> stale, linked |-> issued[n].status # "absent",
            match |-> IF findings = {} THEN "matched" ELSE "exception",
            settlement |-> IF findings = {} THEN "paid" ELSE "pending"],
           findings, n)
  /\ UNCHANGED <<issued, stops, paid, exceptions, labels, imagery>>

CommitIngest(s) ==
  /\ request[s] # None /\ request[s].kind = "ingest"
  /\ LET q == request[s] IN
     /\ paid' = [paid EXCEPT ![q.item] = q.row]
     /\ IF q.findings = {}
        THEN /\ issued' = IF q.issued = "paid" THEN issued
                          ELSE [issued EXCEPT ![q.row.number].status = "paid"]
             /\ UNCHANGED exceptions
        ELSE /\ exceptions' = [exceptions EXCEPT ![q.item] = @ + 1]
             /\ UNCHANGED issued
  /\ Finish(s)
  /\ UNCHANGED <<stops, labels, imagery>>

-----------------------------------------------------------------------------
(* Images and OCR.                                                         *)

Ask(p) ==
  /\ Calm
  /\ asked < MaxReadings
  /\ asked' = asked + 1
  /\ reading' = [reading EXCEPT ![p] = @ + 1]
  /\ UNCHANGED <<issued, stops, paid, exceptions, labels, pending, request>>

\* Through the API the image is saved with the item it is of, and read in a
\* background task after the request.  (The page's form does not link it: its
\* handler looks for paid_item_id in the query.)
UploadImage(p) ==
  /\ paid[p].match # "absent"
  /\ Ask(p)
  /\ UNCHANGED ocr

\* An image that was read is pending again, and what it showed no longer counts.
\* (One whose reading failed is as one just uploaded.)
ReprocessImage(p, payee) ==
  /\ ocr[p][payee] > 0
  /\ Ask(p)
  /\ ocr' = [ocr EXCEPT ![p][payee] = @ - 1]

\* The OCR result is committed first; matching runs again afterwards, in the
\* same background task but in another transaction.
CompleteOcr(p, payee) ==
  /\ Calm
  /\ reading[p] > 0
  /\ reading' = [reading EXCEPT ![p] = @ - 1]
  /\ pending' = [pending EXCEPT ![p] = @ + 1]
  /\ ocr' = [ocr EXCEPT ![p][payee] = @ + 1]
  /\ UNCHANGED <<issued, stops, paid, exceptions, labels, asked, request>>

\* The image cannot be read: matching does not run again.
FailOcr(p) ==
  /\ reading[p] > 0
  /\ reading' = [reading EXCEPT ![p] = @ - 1]
  /\ UNCHANGED <<issued, stops, paid, exceptions, labels, ocr, asked, pending, request>>

\* The process stops between the two transactions.
LoseReevaluation(p) ==
  /\ pending[p] > 0
  /\ pending' = [pending EXCEPT ![p] = @ - 1]
  /\ UNCHANGED <<issued, stops, paid, exceptions, labels, ocr, reading, asked, request>>

\* What matching takes the payee to be: that of any one completed image.  Without
\* one the payees are not compared.
Shown(p) == LET read == {payee \in Payees : ocr[p][payee] > 0}
            IN  IF read = {} THEN {"same"} ELSE read

LoadReevaluate(s, p, payee) ==
  /\ pending[p] > 0
  /\ payee \in Shown(p)
  /\ LET r == paid[p] IN
     Start(s, "reevaluate", p, r, Evaluate(p, r.number, r.amount, r.stale, payee), r.number)
  /\ pending' = [pending EXCEPT ![p] = @ - 1]
  /\ UNCHANGED <<issued, stops, paid, exceptions, labels, ocr, reading, asked>>

\* Mutant: the item's match status is left as it was.
CommitReevaluate_StaysMatched(s) ==
  /\ request[s] # None /\ request[s].kind = "reevaluate"
  /\ exceptions' = IF request[s].findings # {} /\ request[s].rows = 0
                   THEN [exceptions EXCEPT ![request[s].item] = @ + 1] ELSE exceptions
  /\ Finish(s)
  /\ UNCHANGED <<issued, stops, paid, labels, imagery>>

\* Mutant: an escalated item goes back to pending settlement.
CommitReevaluate_Unsettles(s) ==
  /\ request[s] # None /\ request[s].kind = "reevaluate"
  /\ LET q == request[s] IN
     IF q.findings # {} /\ q.rows = 0
     THEN /\ exceptions' = [exceptions EXCEPT ![q.item] = @ + 1]
          /\ paid' = [paid EXCEPT ![q.item].match = "exception", ![q.item].settlement = "pending"]
     ELSE UNCHANGED <<exceptions, paid>>
  /\ Finish(s)
  /\ UNCHANGED <<issued, stops, labels, imagery>>

\* Mutant: an item found clean this time is settled as paid.
CommitReevaluate_PaysClean(s) ==
  /\ request[s] # None /\ request[s].kind = "reevaluate"
  /\ LET q == request[s] IN
     /\ paid' = IF q.findings = {} THEN [paid EXCEPT ![q.item].settlement = "paid"] ELSE paid
     /\ exceptions' = IF q.findings # {} /\ q.rows = 0
                      THEN [exceptions EXCEPT ![q.item] = @ + 1] ELSE exceptions
  /\ Finish(s)
  /\ UNCHANGED <<issued, stops, labels, imagery>>

\* With one exception row the findings are added to its list, with more than
\* one the lookup raises: neither changes anything modelled here.  The item
\* stays settled as it was.
CommitReevaluate(s) ==
  /\ request[s] # None /\ request[s].kind = "reevaluate"
  /\ LET q == request[s] IN
     IF q.findings # {} /\ q.rows = 0
     THEN /\ exceptions' = [exceptions EXCEPT ![q.item] = @ + 1]
          /\ paid' = IF q.row.match = "exception" THEN paid
                     ELSE [paid EXCEPT ![q.item].match = "exception"]
     ELSE UNCHANGED <<exceptions, paid>>
  /\ Finish(s)
  /\ UNCHANGED <<issued, stops, labels, imagery>>

-----------------------------------------------------------------------------
(* Undoing: the back-out of a bulk upload, and fraud labels.               *)

LoadBackOut(s, p) ==
  /\ paid[p].match # "absent"
  /\ paid[p].settlement \notin {"reversed", "returned"}
  /\ Start(s, "back_out", p, paid[p], {}, paid[p].number)
  /\ UNCHANGED <<issued, stops, paid, exceptions, labels, imagery>>

\* Mutant: an item in exception gives its check back too.
CommitBackOut_AnyMatch(s) ==
  /\ request[s] # None /\ request[s].kind = "back_out"
  /\ LET q == request[s] IN
     /\ issued' = IF q.row.linked /\ q.issued = "paid"
                  THEN [issued EXCEPT ![q.row.number].status = "outstanding"] ELSE issued
     /\ paid' = [paid EXCEPT ![q.item].settlement = "reversed"]
  /\ Finish(s)
  /\ UNCHANGED <<stops, exceptions, labels, imagery>>

\* A matched item gives its check back to the issue file; an item in exception
\* needs its one exception row (several make the lookup raise).
CommitBackOut(s) ==
  /\ request[s] # None /\ request[s].kind = "back_out"
  /\ LET q == request[s] IN
     /\ q.row.match = "exception" => q.rows <= 1
     /\ issued' = IF q.row.match = "matched" /\ q.row.linked /\ q.issued = "paid"
                  THEN [issued EXCEPT ![q.row.number].status = "outstanding"] ELSE issued
     /\ paid' = [paid EXCEPT ![q.item].settlement = "reversed"]
  /\ Finish(s)
  /\ UNCHANGED <<stops, exceptions, labels, imagery>>

LoadLabel(s, p) ==
  /\ paid[p].match # "absent"
  /\ labels[p] = 0
  /\ Start(s, "label", p, paid[p], {}, paid[p].number)
  /\ UNCHANGED <<issued, stops, paid, exceptions, labels, imagery>>

\* Mutant: the label is written into the match status.
CommitLabel_WrongColumn(s) ==
  /\ request[s] # None /\ request[s].kind = "label"
  /\ labels' = [labels EXCEPT ![request[s].item] = @ + 1]
  /\ paid' = [paid EXCEPT ![request[s].item].match = "returned"]
  /\ Finish(s)
  /\ UNCHANGED <<issued, stops, exceptions, imagery>>

CommitLabel(s) ==
  /\ request[s] # None /\ request[s].kind = "label"
  /\ LET q == request[s] IN
     /\ labels' = [labels EXCEPT ![q.item] = @ + 1]
     /\ paid' = IF q.row.settlement = "returned" THEN paid
                ELSE [paid EXCEPT ![q.item].settlement = "returned"]
  /\ Finish(s)
  /\ UNCHANGED <<issued, stops, exceptions, imagery>>

Rollback(s) ==
  /\ request[s] # None
  /\ Finish(s)
  /\ UNCHANGED <<issued, stops, paid, exceptions, labels, imagery>>

-----------------------------------------------------------------------------
IssueFile == \E n \in Numbers :
  Void(n) \/ CreateStop(n) \/ CancelStop(n) \/ \E a \in Amounts : Issue(n, a)

Images == \E p \in Items :
  \/ UploadImage(p) \/ FailOcr(p) \/ LoseReevaluation(p)
  \/ \E payee \in Payees : ReprocessImage(p, payee) \/ CompleteOcr(p, payee)

Begin(s) == \E p \in Items :
  \/ LoadBackOut(s, p) \/ LoadLabel(s, p)
  \/ \E payee \in Payees : LoadReevaluate(s, p, payee)
  \/ \E n \in Numbers, a \in Amounts, stale \in BOOLEAN : LoadIngest(s, p, n, a, stale)

End(s) == \/ CommitIngest(s) \/ CommitReevaluate(s) \/ CommitBackOut(s)
          \/ CommitLabel(s) \/ Rollback(s)

Next == IssueFile \/ Images \/ \E s \in Sessions : Begin(s) \/ End(s)

Spec == Init /\ [][Next]_vars

-----------------------------------------------------------------------------
(* Properties that hold however requests overlap.                          *)

Stands(p) == paid[p].settlement = "paid"

\* Money only leaves for a check on file, at the amount on file: whatever was
\* voided, stopped, backed out or re-evaluated in the meantime.
PaidAsIssued == \A p \in Items : Stands(p) =>
  /\ paid[p].linked /\ ~paid[p].stale
  /\ issued[paid[p].number].status # "absent"
  /\ issued[paid[p].number].amount = paid[p].amount

\* An item in exception has an exception row, waiting, decided or withdrawn, and an item
\* with one is in exception: none that did not match escapes review.
ExceptionsAreQueued == \A p \in Items :
  paid[p].match = "exception" <=> exceptions[p] > 0

\* A payment that was returned or reversed is never reinstated.
UndoneIsFinal ==
  [][\A p \in Items : paid[p].settlement \in {"returned", "reversed"} =>
        paid'[p].settlement \in {"returned", "reversed"}]_vars

-----------------------------------------------------------------------------
(* Properties of the serial case.                                          *)

\* docs/ARCHITECTURE.md, rule 1: an item whose account, number and amount have
\* been paid before is not paid again.
NoDoublePayment == \A p, q \in Items :
  Stands(p) /\ Stands(q) /\ paid[p].number = paid[q].number => p = q

\* While a payment stands its check is not back among the outstanding ones.
PaidIsNotOutstanding == \A p \in Items :
  Stands(p) => issued[paid[p].number].status \in {"paid", "voided"}

\* One exception row per item, which every .one_or_none() lookup relies on.
OneExceptionPerItem == \A p \in Items : exceptions[p] <= 1

\* The issue file, the items and the queue tell the same story.
BooksAgree == PaidIsNotOutstanding /\ OneExceptionPerItem

\* A voided check is never paid or outstanding again.
VoidIsFinal ==
  [][\A n \in Numbers : issued[n].status = "voided" => issued'[n].status = "voided"]_vars

\* The abstract view: the payment that stands, and the items undone.
payerOf == [n \in Numbers |->
  IF \E p \in Items : Stands(p) /\ paid[p].number = n
  THEN CHOOSE p \in Items : Stands(p) /\ paid[p].number = n ELSE None]
undoneItems == {p \in Items : paid[p].settlement \in {"returned", "reversed"}}

Payments == INSTANCE CheckPayments WITH payer <- payerOf, undone <- undoneItems

\* Requests that never overlap pay each check at most once at a time.
ImplementsPayments == Payments!Spec
=============================================================================
