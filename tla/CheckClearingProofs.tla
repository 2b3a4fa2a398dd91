------------------------ MODULE CheckClearingProofs -------------------------
(***************************************************************************)
(* Theorems about CheckClearing.  The first part holds however requests    *)
(* overlap; the second is about requests that never do.                    *)
(***************************************************************************)
EXTENDS CheckClearing, TLAPS

(***************************************************************************)
(* The inductive invariant of the overlapping case.  A request acts on     *)
(* copies, so RequestInv says what each copy still guarantees of the rows  *)
(* it was taken from.                                                      *)
(***************************************************************************)
Present(p) == paid[p].match # "absent"

\* A row that is not written yet has nothing, and one that is has a number.
RowInv == \A p \in Items :
  /\ ~Present(p) => paid[p].settlement = "pending"
  /\ Present(p) => paid[p].number \in Numbers
  /\ paid[p].match = "matched" => paid[p].settlement # "pending"

\* Only a written row has images.
ImageInv == \A p \in Items :
  (reading[p] > 0 \/ pending[p] > 0 \/ \E payee \in Payees : ocr[p][payee] > 0) => Present(p)

\* An ingest found its row free and is alone with it; the row it will write is
\* paid only if it is on file as presented.
IngestInv(s) ==
  LET q == request[s] IN
  /\ ~Present(q.item)
  /\ \A t \in Sessions : request[t] # None /\ request[t].item = q.item => t = s
  /\ q.row.number \in Numbers
  /\ q.row.match = IF q.findings = {} THEN "matched" ELSE "exception"
  /\ q.row.settlement = IF q.findings = {} THEN "paid" ELSE "pending"
  /\ q.findings = {} =>
       /\ q.row.linked /\ ~q.row.stale
       /\ issued[q.row.number].status # "absent"
       /\ issued[q.row.number].amount = q.row.amount

\* The other requests found their row written, and it keeps its number.
RowRequestInv(s) ==
  LET q == request[s] IN
  /\ Present(q.item)
  /\ q.row.number = paid[q.item].number
  /\ q.row.match = "exception" => paid[q.item].match = "exception"

RequestInv == \A s \in Sessions : request[s] # None =>
  IF request[s].kind = "ingest" THEN IngestInv(s) ELSE RowRequestInv(s)

IInv == TypeOK /\ RowInv /\ ImageInv /\ RequestInv /\ PaidAsIssued /\ ExceptionsAreQueued

-----------------------------------------------------------------------------
(***************************************************************************)
(* The inductive invariant of the serial case: what a request has read is  *)
(* still so when it commits.                                               *)
(***************************************************************************)
FreshInv == \A s \in Sessions : request[s] # None =>
  LET q == request[s] IN
  /\ \A t \in Sessions : request[t] # None => t = s
  /\ q.issued = issued[q.row.number].status
  /\ q.rows = exceptions[q.item] + labels[q.item]
  /\ q.kind # "ingest" => q.row = paid[q.item]
  /\ q.kind = "back_out" => ~(q.row.settlement \in {"returned", "reversed"})
  /\ q.kind = "ingest" /\ q.findings = {} =>
       /\ \A p \in Items : Stands(p) => paid[p].number # q.row.number
       /\ issued[q.row.number].status # "voided"

SInv == IInv /\ FreshInv /\ NoDoublePayment /\ BooksAgree

-----------------------------------------------------------------------------
(* Type correctness.                                                       *)

\* What is wrong with an item is a set of the finding types.
LEMMA EvaluateType ==
  ASSUME NEW p, NEW n, NEW a, NEW stale, NEW payee
  PROVE  Evaluate(p, n, a, stale, payee) \in SUBSET FindingTypes
BY DEF Evaluate, Findings, When, FindingTypes

LEMMA RequestType ==
  ASSUME TypeOK, NEW s \in Sessions, request[s] # None
  PROVE  /\ request[s] \in Request
         /\ request[s].kind \in Kinds /\ request[s].item \in Items
         /\ request[s].row \in PaidRow /\ request[s].findings \in SUBSET FindingTypes
         /\ request[s].issued \in IssuedStatuses /\ request[s].rows \in Nat
<1>1. request[s] \in Request
  BY DEF TypeOK
<1> QED BY <1>1 DEF Request

LEMMA PaidType ==
  ASSUME NEW row \in PaidRow
  PROVE  /\ row.number \in Numbers \cup {None} /\ row.amount \in Amounts \cup {None}
         /\ row.stale \in BOOLEAN /\ row.match \in MatchStatuses
         /\ row.settlement \in Settlements /\ row.linked \in BOOLEAN
BY DEF PaidRow

\* A request takes typed copies with it.
LEMMA StartType ==
  ASSUME TypeOK, NEW s \in Sessions, NEW k \in Kinds, NEW p \in Items, NEW row \in PaidRow,
         NEW findings \in SUBSET FindingTypes, NEW n \in Numbers,
         Start(s, k, p, row, findings, n)
  PROVE  request' \in [Sessions -> Request \cup {None}]
<1>1. issued[n].status \in IssuedStatuses
  BY DEF TypeOK, IssuedRow
<1>2. exceptions[p] + labels[p] \in Nat
  BY DEF TypeOK
<1>3. [kind |-> k, item |-> p, row |-> row, findings |-> findings,
       issued |-> issued[n].status, rows |-> exceptions[p] + labels[p]] \in Request
  BY <1>1, <1>2 DEF Request
<1> QED BY <1>3 DEF Start, TypeOK

LEMMA FinishType ==
  ASSUME TypeOK, NEW s \in Sessions, Finish(s)
  PROVE  request' \in [Sessions -> Request \cup {None}]
BY DEF TypeOK, Finish

\* One more, or one less of what there is, is a number still.
LEMMA CountType ==
  ASSUME NEW S, NEW f \in [S -> Nat], NEW x \in S
  PROVE  /\ [f EXCEPT ![x] = @ + 1] \in [S -> Nat]
         /\ f[x] > 0 => [f EXCEPT ![x] = @ - 1] \in [S -> Nat]
OBVIOUS

LEMMA OcrType ==
  ASSUME TypeOK, NEW p \in Items, NEW payee \in Payees
  PROVE  /\ [ocr EXCEPT ![p][payee] = @ + 1] \in [Items -> [Payees -> Nat]]
         /\ ocr[p][payee] > 0 => [ocr EXCEPT ![p][payee] = @ - 1] \in [Items -> [Payees -> Nat]]
<1>1. ocr[p] \in [Payees -> Nat]
  BY DEF TypeOK
<1>2. [ocr[p] EXCEPT ![payee] = @ + 1] \in [Payees -> Nat]
  BY <1>1, CountType
<1>3. ocr[p][payee] > 0 => [ocr[p] EXCEPT ![payee] = @ - 1] \in [Payees -> Nat]
  BY <1>1, CountType
<1> QED BY <1>2, <1>3 DEF TypeOK

LEMMA StatusType ==
  ASSUME TypeOK, NEW n \in Numbers, NEW st \in IssuedStatuses
  PROVE  [issued EXCEPT ![n].status = st] \in [Numbers -> IssuedRow]
<1>1. issued[n] \in IssuedRow
  BY DEF TypeOK
<1>2. [issued[n] EXCEPT !.status = st] \in IssuedRow
  BY <1>1 DEF IssuedRow
<1> QED BY <1>2 DEF TypeOK

LEMMA ColumnType ==
  ASSUME TypeOK, NEW p \in Items
  PROVE  /\ \A m \in MatchStatuses : [paid EXCEPT ![p].match = m] \in [Items -> PaidRow]
         /\ \A t \in Settlements : [paid EXCEPT ![p].settlement = t] \in [Items -> PaidRow]
<1>1. paid[p] \in PaidRow
  BY DEF TypeOK
<1>2. \A m \in MatchStatuses : [paid[p] EXCEPT !.match = m] \in PaidRow
  BY <1>1 DEF PaidRow
<1>3. \A t \in Settlements : [paid[p] EXCEPT !.settlement = t] \in PaidRow
  BY <1>1 DEF PaidRow
<1> QED BY <1>2, <1>3 DEF TypeOK

LEMMA TypeInit == Init => TypeOK
<1> SUFFICES ASSUME Init PROVE TypeOK
  OBVIOUS
<1>1. NoPaidRow \in PaidRow
  BY DEF NoPaidRow, PaidRow, MatchStatuses, Settlements
<1>2. [status |-> "absent", amount |-> None] \in IssuedRow
  BY DEF IssuedRow, IssuedStatuses
<1> QED BY <1>1, <1>2, ConstantsAssumption DEF Init, TypeOK

LEMMA TypeStep == TypeOK /\ RowInv /\ ImageInv /\ [Next]_vars => TypeOK'
<1> SUFFICES ASSUME TypeOK, RowInv, ImageInv, [Next]_vars PROVE TypeOK'
  OBVIOUS
<1>1. ASSUME NEW n \in Numbers, NEW a \in Amounts, Issue(n, a) PROVE TypeOK'
  <2>1. [status |-> "outstanding", amount |-> a] \in IssuedRow
    BY DEF IssuedRow, IssuedStatuses
  <2> QED BY <1>1, <2>1 DEF Issue, TypeOK, imagery
<1>2. ASSUME NEW n \in Numbers, Void(n) PROVE TypeOK'
  <2>1. "voided" \in IssuedStatuses
    BY DEF IssuedStatuses
  <2> QED BY <1>2, <2>1, StatusType DEF Void, TypeOK, imagery
<1>3. ASSUME NEW n \in Numbers, CreateStop(n) PROVE TypeOK'
  <2>1. stops[n] + 1 \in 0..MaxStops
    BY <1>3, ConstantsAssumption DEF CreateStop, TypeOK
  <2> QED BY <1>3, <2>1 DEF CreateStop, Placed, TypeOK, imagery
<1>4. ASSUME NEW n \in Numbers, CancelStop(n) PROVE TypeOK'
  <2>1. stops[n] - 1 \in 0..MaxStops
    BY <1>4, ConstantsAssumption DEF CancelStop, TypeOK
  <2> QED BY <1>4, <2>1 DEF CancelStop, Cancelled, TypeOK, imagery
<1>5. ASSUME NEW p \in Items, Ask(p) PROVE asked' \in 0..MaxReadings /\ reading' \in [Items -> Nat]
  <2>1. asked + 1 \in 0..MaxReadings
    BY <1>5, ConstantsAssumption DEF Ask, TypeOK
  <2> QED BY <1>5, <2>1, CountType DEF Ask, TypeOK
<1>6. ASSUME NEW p \in Items, UploadImage(p) PROVE TypeOK'
  BY <1>5, <1>6 DEF UploadImage, Ask, TypeOK, imagery
<1>7. ASSUME NEW p \in Items, NEW payee \in Payees, ReprocessImage(p, payee) PROVE TypeOK'
  <2>1. ocr' \in [Items -> [Payees -> Nat]]
    BY <1>7, OcrType DEF ReprocessImage
  <2> QED BY <1>5, <1>7, <2>1 DEF ReprocessImage, Ask, TypeOK
<1>8. ASSUME NEW p \in Items, NEW payee \in Payees, CompleteOcr(p, payee) PROVE TypeOK'
  <2>1. ocr' \in [Items -> [Payees -> Nat]]
    BY <1>8, OcrType DEF CompleteOcr
  <2>2. reading' \in [Items -> Nat] /\ pending' \in [Items -> Nat]
    BY <1>8, CountType DEF CompleteOcr, TypeOK
  <2> QED BY <1>8, <2>1, <2>2 DEF CompleteOcr, TypeOK
<1>9. ASSUME NEW p \in Items, FailOcr(p) PROVE TypeOK'
  BY <1>9, CountType DEF FailOcr, TypeOK
<1>10. ASSUME NEW p \in Items, LoseReevaluation(p) PROVE TypeOK'
  BY <1>10, CountType DEF LoseReevaluation, TypeOK
<1>11. ASSUME NEW s \in Sessions, NEW p \in Items, LoadBackOut(s, p) PROVE TypeOK'
  <2>1. paid[p] \in PaidRow /\ paid[p].number \in Numbers /\ "back_out" \in Kinds
    BY <1>11 DEF LoadBackOut, TypeOK, RowInv, Present, Kinds
  <2>2. request' \in [Sessions -> Request \cup {None}]
    BY <1>11, <2>1, StartType DEF LoadBackOut
  <2> QED BY <1>11, <2>2 DEF LoadBackOut, TypeOK, imagery
<1>12. ASSUME NEW s \in Sessions, NEW p \in Items, LoadLabel(s, p) PROVE TypeOK'
  <2>1. paid[p] \in PaidRow /\ paid[p].number \in Numbers /\ "label" \in Kinds
    BY <1>12 DEF LoadLabel, TypeOK, RowInv, Present, Kinds
  <2>2. request' \in [Sessions -> Request \cup {None}]
    BY <1>12, <2>1, StartType DEF LoadLabel
  <2> QED BY <1>12, <2>2 DEF LoadLabel, TypeOK, imagery
<1>13. ASSUME NEW s \in Sessions, NEW p \in Items, NEW payee \in Payees,
              LoadReevaluate(s, p, payee)
       PROVE  TypeOK'
  <2>1. paid[p] \in PaidRow /\ "reevaluate" \in Kinds
    BY DEF TypeOK, Kinds
  <2>2. paid[p].number \in Numbers
    BY <1>13 DEF LoadReevaluate, RowInv, ImageInv
  <2>3. request' \in [Sessions -> Request \cup {None}]
    BY <1>13, <2>1, <2>2, StartType, EvaluateType DEF LoadReevaluate
  <2> QED BY <1>13, <2>3, CountType DEF LoadReevaluate, TypeOK
<1>14. ASSUME NEW s \in Sessions, NEW p \in Items, NEW n \in Numbers, NEW a \in Amounts,
              NEW stale \in BOOLEAN, LoadIngest(s, p, n, a, stale)
       PROVE  TypeOK'
  <2> DEFINE findings == Evaluate(p, n, a, stale, "same")
             row == [number |-> n, amount |-> a, stale |-> stale,
                     linked |-> issued[n].status # "absent",
                     match |-> IF findings = {} THEN "matched" ELSE "exception",
                     settlement |-> IF findings = {} THEN "paid" ELSE "pending"]
  <2>1. findings \in SUBSET FindingTypes
    BY EvaluateType
  <2>2. row \in PaidRow /\ "ingest" \in Kinds
    BY DEF PaidRow, MatchStatuses, Settlements, Kinds
  <2>3. Start(s, "ingest", p, row, findings, n)
    BY <1>14 DEF LoadIngest
  <2>4. request' \in [Sessions -> Request \cup {None}]
    BY <2>1, <2>2, <2>3, StartType
  <2> QED BY <1>14, <2>4 DEF LoadIngest, TypeOK, imagery
<1>15. ASSUME NEW s \in Sessions, CommitIngest(s) PROVE TypeOK'
  <2>1. request[s].row \in PaidRow /\ request[s].item \in Items
    BY <1>15, RequestType DEF CommitIngest
  <2>2. paid' \in [Items -> PaidRow]
    BY <1>15, <2>1 DEF CommitIngest, TypeOK
  <2>3. exceptions' \in [Items -> Nat]
    BY <1>15, <2>1, CountType DEF CommitIngest, TypeOK
  <2>4. issued' \in [Numbers -> IssuedRow]
    <3>1. "paid" \in IssuedStatuses
      BY DEF IssuedStatuses
    <3>2. CASE request[s].row.number \in Numbers
      BY <1>15, <3>1, <3>2, StatusType DEF CommitIngest, TypeOK
    <3>3. CASE request[s].row.number \notin Numbers
      BY <1>15, <3>3 DEF CommitIngest, TypeOK
    <3> QED BY <3>2, <3>3
  <2> QED BY <1>15, <2>2, <2>3, <2>4, FinishType DEF CommitIngest, TypeOK, imagery
<1>16. ASSUME NEW s \in Sessions, CommitReevaluate(s) PROVE TypeOK'
  <2>1. request[s].item \in Items /\ "exception" \in MatchStatuses
    BY <1>16, RequestType DEF CommitReevaluate, MatchStatuses
  <2>2. paid' \in [Items -> PaidRow]
    BY <1>16, <2>1, ColumnType DEF CommitReevaluate, TypeOK
  <2>3. exceptions' \in [Items -> Nat]
    BY <1>16, <2>1, CountType DEF CommitReevaluate, TypeOK
  <2> QED BY <1>16, <2>2, <2>3, FinishType DEF CommitReevaluate, TypeOK, imagery
<1>17. ASSUME NEW s \in Sessions, CommitBackOut(s) PROVE TypeOK'
  <2>1. request[s].item \in Items /\ "reversed" \in Settlements /\ "outstanding" \in IssuedStatuses
    BY <1>17, RequestType DEF CommitBackOut, Settlements, IssuedStatuses
  <2>2. paid' \in [Items -> PaidRow]
    BY <1>17, <2>1, ColumnType DEF CommitBackOut
  <2>3. issued' \in [Numbers -> IssuedRow]
    <3>1. CASE request[s].row.number \in Numbers
      BY <1>17, <2>1, <3>1, StatusType DEF CommitBackOut, TypeOK
    <3>2. CASE request[s].row.number \notin Numbers
      BY <1>17, <3>2 DEF CommitBackOut, TypeOK
    <3> QED BY <3>1, <3>2
  <2> QED BY <1>17, <2>2, <2>3, FinishType DEF CommitBackOut, TypeOK, imagery
<1>18. ASSUME NEW s \in Sessions, CommitLabel(s) PROVE TypeOK'
  <2>1. request[s].item \in Items /\ "returned" \in Settlements
    BY <1>18, RequestType DEF CommitLabel, Settlements
  <2>2. paid' \in [Items -> PaidRow]
    BY <1>18, <2>1, ColumnType DEF CommitLabel, TypeOK
  <2>3. labels' \in [Items -> Nat]
    BY <1>18, <2>1, CountType DEF CommitLabel, TypeOK
  <2> QED BY <1>18, <2>2, <2>3, FinishType DEF CommitLabel, TypeOK, imagery
<1>19. ASSUME NEW s \in Sessions, Rollback(s) PROVE TypeOK'
  BY <1>19, FinishType DEF Rollback, TypeOK, imagery
<1>20. CASE UNCHANGED vars
  BY <1>20 DEF vars, TypeOK, imagery
<1> QED BY <1>1, <1>2, <1>3, <1>4, <1>6, <1>7, <1>8, <1>9, <1>10, <1>11, <1>12, <1>13,
           <1>14, <1>15, <1>16, <1>17, <1>18, <1>19, <1>20
        DEF Next, IssueFile, Images, Begin, End

-----------------------------------------------------------------------------
(* What holds however requests overlap.                                    *)

Rest == RowInv /\ ImageInv /\ RequestInv /\ PaidAsIssued /\ ExceptionsAreQueued

LEMMA IInvInit == Init => IInv
<1> SUFFICES ASSUME Init PROVE IInv
  OBVIOUS
<1>1. Rest
  BY DEF Init, NoPaidRow, Rest, RowInv, ImageInv, RequestInv, PaidAsIssued, ExceptionsAreQueued,
         Stands, Present
<1> QED BY <1>1, TypeInit DEF IInv, Rest

\* An entry of the issue file that exists keeps its amount: nothing else about
\* it matters to what was paid and to what a request is about to pay.
LEMMA IssueFileStep ==
  ASSUME IInv, UNCHANGED <<paid, exceptions, imagery, request>>,
         \A n \in Numbers : issued[n].status # "absent" =>
           issued'[n].status # "absent" /\ issued'[n].amount = issued[n].amount
  PROVE  Rest'
<1>1. \A p \in Items : Stands(p) => paid[p].number \in Numbers
  BY DEF IInv, RowInv, Stands, Present
<1>2. PaidAsIssued'
  BY <1>1 DEF IInv, PaidAsIssued, Stands
<1>3. RequestInv'
  BY DEF IInv, RequestInv, IngestInv, RowRequestInv, Present
<1> QED BY <1>2, <1>3 DEF IInv, Rest, RowInv, ImageInv, ExceptionsAreQueued, Present, imagery

\* Images come and go with rows that are written.
LEMMA ImageStep ==
  ASSUME IInv, UNCHANGED <<issued, paid, exceptions, request>>, ImageInv' PROVE Rest'
BY DEF IInv, Rest, RowInv, RequestInv, IngestInv, RowRequestInv, PaidAsIssued, ExceptionsAreQueued,
       Stands, Present

\* A request that ends takes nothing from the others.
LEMMA FinishStep ==
  ASSUME IInv, NEW s \in Sessions, Finish(s), NEW t \in Sessions, request'[t] # None
  PROVE  request'[t] = request[t] /\ t # s
BY DEF IInv, TypeOK, Finish

\* An ingest is alone with its item.
LEMMA IngestAlone ==
  ASSUME IInv, NEW s \in Sessions, NEW t \in Sessions, request[s] # None, request[t] # None,
         s # t, request[s].kind = "ingest" \/ request[t].kind = "ingest"
  PROVE  request[s].item # request[t].item
BY DEF IInv, RequestInv, IngestInv

LEMMA LoadStep ==
  ASSUME IInv, NEW s \in Sessions, NEW k \in {"reevaluate", "back_out", "label"},
         NEW p \in Items, Present(p), NEW findings,
         Start(s, k, p, paid[p], findings, paid[p].number),
         UNCHANGED <<issued, paid, exceptions, ocr, reading>>,
         \A q \in Items : pending'[q] > 0 => pending[q] > 0
  PROVE  Rest'
<1>0. /\ request[s] = None
      /\ request'[s].kind = k /\ request'[s].item = p /\ request'[s].row = paid[p]
      /\ \A t \in Sessions \ {s} : request'[t] = request[t]
  BY DEF Start, IInv, TypeOK
<1>1. RowRequestInv(s)'
  BY <1>0 DEF RowRequestInv, Present
<1>2. request'[s].kind # "ingest"
  BY <1>0
<1>3. ASSUME NEW t \in Sessions \ {s}, request'[t] # None
      PROVE IF request'[t].kind = "ingest" THEN IngestInv(t)' ELSE RowRequestInv(t)'
  <2>1. request'[t] = request[t] /\ request[s] = None /\ request'[s].item = p
    BY <1>0, <1>3
  <2>2. CASE request[t].kind = "ingest"
    <3>1. IngestInv(t) /\ request[t].item # p
      BY <1>3, <2>1, <2>2 DEF IInv, RequestInv, IngestInv
    <3>2. \A u \in Sessions : request'[u] # None /\ request'[u].item = request[t].item => u = t
      BY <1>0, <2>1, <3>1 DEF IngestInv
    <3> QED BY <2>1, <2>2, <3>1, <3>2 DEF IngestInv, Present
  <2>3. CASE request[t].kind # "ingest"
    BY <1>3, <2>1, <2>3 DEF IInv, RequestInv, RowRequestInv, Present
  <2> QED BY <2>2, <2>3
<1>4. RequestInv'
  BY <1>1, <1>2, <1>3 DEF RequestInv
<1> QED BY <1>4 DEF IInv, Rest, RowInv, ImageInv, PaidAsIssued, ExceptionsAreQueued, Stands, Present

LEMMA LoadIngestStep ==
  ASSUME IInv, NEW s \in Sessions, NEW p \in Items, NEW n \in Numbers, NEW a \in Amounts,
         NEW stale \in BOOLEAN, LoadIngest(s, p, n, a, stale)
  PROVE  Rest'
<1> DEFINE findings == Evaluate(p, n, a, stale, "same")
           row == [number |-> n, amount |-> a, stale |-> stale,
                   linked |-> issued[n].status # "absent",
                   match |-> IF findings = {} THEN "matched" ELSE "exception",
                   settlement |-> IF findings = {} THEN "paid" ELSE "pending"]
<1>1. Start(s, "ingest", p, row, findings, n)
  BY DEF LoadIngest
<1>2. findings = {} => /\ issued[n].status # "absent" /\ issued[n].amount = a /\ stale = FALSE
  BY DEF Evaluate, Findings, When, Candidate
<1> HIDE DEF findings
<1>3. /\ request[s] = None
      /\ request'[s].kind = "ingest" /\ request'[s].item = p
      /\ request'[s].row = row /\ request'[s].findings = findings
      /\ \A t \in Sessions \ {s} : request'[t] = request[t]
  BY <1>1 DEF Start, IInv, TypeOK
<1>4. IngestInv(s)'
  <2>1. \A t \in Sessions : request'[t] # None /\ request'[t].item = p => t = s
    BY <1>3 DEF LoadIngest
  <2>2. paid'[p].match = "absent" /\ issued' = issued
    BY DEF LoadIngest
  <2>3. row.number = n /\ row.amount = a /\ row.stale = stale
        /\ row.linked = (issued[n].status # "absent")
        /\ row.match = (IF findings = {} THEN "matched" ELSE "exception")
        /\ row.settlement = (IF findings = {} THEN "paid" ELSE "pending")
    OBVIOUS
  <2> HIDE DEF row
  <2> QED BY <1>2, <1>3, <2>1, <2>2, <2>3 DEF IngestInv, Present
<1>5. ASSUME NEW t \in Sessions \ {s}, request'[t] # None
      PROVE IF request'[t].kind = "ingest" THEN IngestInv(t)' ELSE RowRequestInv(t)'
  <2>1. request'[t] = request[t] /\ request[t].item # p
    BY <1>3, <1>5 DEF LoadIngest
  <2>2. CASE request[t].kind = "ingest"
    <3>1. IngestInv(t)
      BY <1>5, <2>1, <2>2 DEF IInv, RequestInv
    <3>2. \A u \in Sessions : request'[u] # None /\ request'[u].item = request[t].item => u = t
      BY <1>3, <2>1, <3>1 DEF IngestInv
    <3> QED BY <2>1, <2>2, <3>1, <3>2 DEF IngestInv, Present, LoadIngest
  <2>3. CASE request[t].kind # "ingest"
    BY <1>5, <2>1, <2>3 DEF IInv, RequestInv, RowRequestInv, Present, LoadIngest
  <2> QED BY <2>2, <2>3
<1>6. RequestInv'
  BY <1>3, <1>4, <1>5 DEF RequestInv
<1> QED BY <1>6 DEF LoadIngest, IInv, Rest, RowInv, ImageInv, PaidAsIssued, ExceptionsAreQueued,
                    Stands, Present, imagery

\* What a request that ended leaves to the others, when the rows they found
\* written stay written, with their numbers and their exceptions.
LEMMA OthersStep ==
  ASSUME IInv, NEW s \in Sessions, Finish(s), request[s] # None,
         \A p \in Items \ {request[s].item} : paid'[p] = paid[p],
         request[s].kind # "ingest" =>
           /\ paid'[request[s].item].match # "absent"
           /\ paid'[request[s].item].number = paid[request[s].item].number
           /\ paid[request[s].item].match = "exception" =>
                paid'[request[s].item].match = "exception",
         \A n \in Numbers : issued[n].status # "absent" =>
           issued'[n].status # "absent" /\ issued'[n].amount = issued[n].amount
  PROVE  RequestInv'
<1> SUFFICES ASSUME NEW t \in Sessions, request'[t] # None
             PROVE IF request'[t].kind = "ingest" THEN IngestInv(t)' ELSE RowRequestInv(t)'
  BY DEF RequestInv
<1>1. request'[t] = request[t] /\ t # s
  BY FinishStep
<1>2. request[t].item \in Items
  BY <1>1, RequestType DEF IInv
<1>3. CASE request[t].kind = "ingest"
  <2>1. IngestInv(t) /\ request[t].item # request[s].item
    BY <1>1, <1>3, IngestAlone DEF IInv, RequestInv
  <2>2. \A u \in Sessions : request'[u] # None /\ request'[u].item = request[t].item => u = t
    BY <1>1, <2>1, FinishStep DEF IngestInv
  <2> QED BY <1>1, <1>2, <1>3, <2>1, <2>2 DEF IngestInv, Present
<1>4. CASE request[t].kind # "ingest"
  <2>1. RowRequestInv(t)
    BY <1>1, <1>4 DEF IInv, RequestInv
  <2>2. CASE request[t].item = request[s].item
    <3>1. request[s].kind # "ingest"
      BY <1>1, <2>2, IngestAlone
    <3> QED BY <1>1, <1>4, <2>1, <2>2, <3>1 DEF RowRequestInv, Present
  <2>3. CASE request[t].item # request[s].item
    BY <1>1, <1>2, <1>4, <2>1, <2>3 DEF RowRequestInv, Present
  <2> QED BY <2>2, <2>3
<1> QED BY <1>3, <1>4

LEMMA CommitIngestStep == ASSUME IInv, NEW s \in Sessions, CommitIngest(s) PROVE Rest'
<1> DEFINE q == request[s]
<1>1. /\ q.item \in Items /\ q.row \in PaidRow /\ IngestInv(s)
  BY RequestType DEF CommitIngest, IInv, RequestInv
<1>2. /\ paid'[q.item] = q.row
      /\ \A p \in Items \ {q.item} : paid'[p] = paid[p]
  BY <1>1 DEF CommitIngest, IInv, TypeOK
<1>3. \A n \in Numbers : issued[n].status # "absent" =>
        issued'[n].status # "absent" /\ issued'[n].amount = issued[n].amount
  <2>1. issued \in [Numbers -> [status: IssuedStatuses, amount: Amounts \cup {None}]]
    BY DEF IInv, TypeOK, IssuedRow
  <2>2. issued' = issued \/ issued' = [issued EXCEPT ![q.row.number].status = "paid"]
    BY DEF CommitIngest
  <2> HIDE DEF q
  <2> QED BY <2>1, <2>2
<1>4. RequestInv'
  BY <1>2, <1>3, OthersStep DEF CommitIngest
<1>5. RowInv' /\ ImageInv'
  BY <1>1, <1>2 DEF IInv, RowInv, ImageInv, IngestInv, Present, CommitIngest, imagery
<1>6. PaidAsIssued'
  <2> SUFFICES ASSUME NEW p \in Items, Stands(p)'
               PROVE  /\ paid'[p].linked /\ ~paid'[p].stale
                      /\ issued'[paid'[p].number].status # "absent"
                      /\ issued'[paid'[p].number].amount = paid'[p].amount
    BY DEF PaidAsIssued
  <2>1. CASE p = q.item
    BY <1>1, <1>2, <1>3, <2>1 DEF Stands, IngestInv
  <2>2. CASE p # q.item
    <3>1. Stands(p) /\ paid[p].number \in Numbers /\ paid'[p] = paid[p]
      BY <1>2, <2>2 DEF Stands, IInv, RowInv, Present
    <3> QED BY <1>3, <3>1 DEF IInv, PaidAsIssued
  <2> QED BY <2>1, <2>2
<1>7. ExceptionsAreQueued'
  BY <1>1, <1>2 DEF CommitIngest, IngestInv, IInv, ExceptionsAreQueued, Present, TypeOK
<1> QED BY <1>4, <1>5, <1>6, <1>7 DEF Rest

\* A request that only writes the columns of a row that is written: what stands
\* afterwards stood before, with its entry in the issue file.
LEMMA WriteStep ==
  ASSUME IInv, NEW s \in Sessions, request[s] # None, request[s].kind # "ingest", Finish(s),
         NEW p \in Items, p = request[s].item,
         \A x \in Items \ {p} : paid'[x] = paid[x] /\ exceptions'[x] = exceptions[x],
         /\ paid'[p].number = paid[p].number /\ paid'[p].amount = paid[p].amount
         /\ paid'[p].linked = paid[p].linked /\ paid'[p].stale = paid[p].stale,
         paid'[p].settlement # paid[p].settlement => paid'[p].settlement \in {"returned", "reversed"},
         \/ paid'[p].match = paid[p].match /\ exceptions'[p] = exceptions[p]
         \/ paid'[p].match = "exception" /\ exceptions'[p] = exceptions[p] + 1,
         \A n \in Numbers : issued[n].status # "absent" =>
           issued'[n].status # "absent" /\ issued'[n].amount = issued[n].amount,
         UNCHANGED imagery
  PROVE  Rest'
<1>1. RowRequestInv(s)
  BY DEF IInv, RequestInv
<1>2. paid[p].match # "absent" /\ paid'[p].match # "absent"
  BY <1>1 DEF RowRequestInv, Present
<1>3. RequestInv'
  BY <1>2, OthersStep
<1>4. RowInv' /\ ImageInv'
  BY <1>2 DEF IInv, RowInv, ImageInv, Present, imagery
<1>5. PaidAsIssued'
  <2> SUFFICES ASSUME NEW x \in Items, Stands(x)'
               PROVE  /\ paid'[x].linked /\ ~paid'[x].stale
                      /\ issued'[paid'[x].number].status # "absent"
                      /\ issued'[paid'[x].number].amount = paid'[x].amount
    BY DEF PaidAsIssued
  <2>1. /\ Stands(x) /\ paid'[x].number = paid[x].number /\ paid'[x].amount = paid[x].amount
        /\ paid'[x].linked = paid[x].linked /\ paid'[x].stale = paid[x].stale
    BY DEF Stands
  <2>2. paid[x].number \in Numbers
    BY <2>1 DEF Stands, IInv, RowInv, Present
  <2> QED BY <2>1, <2>2 DEF IInv, PaidAsIssued
<1>6. ExceptionsAreQueued'
  BY DEF IInv, ExceptionsAreQueued, TypeOK
<1> QED BY <1>3, <1>4, <1>5, <1>6 DEF Rest

LEMMA CommitReevaluateStep == ASSUME IInv, NEW s \in Sessions, CommitReevaluate(s) PROVE Rest'
<1> DEFINE q == request[s]
<1>1. q.item \in Items /\ RowRequestInv(s)
  BY RequestType DEF CommitReevaluate, IInv, RequestInv
<1>2. CASE q.findings # {} /\ q.rows = 0
  <2>1. /\ exceptions' = [exceptions EXCEPT ![q.item] = @ + 1]
        /\ paid' = IF q.row.match = "exception" THEN paid
                   ELSE [paid EXCEPT ![q.item].match = "exception"]
    BY <1>2 DEF CommitReevaluate
  <2>2. paid'[q.item].match = "exception" /\ exceptions'[q.item] = exceptions[q.item] + 1
    BY <1>1, <2>1 DEF RowRequestInv, IInv, TypeOK, PaidRow
  <2>3. /\ \A x \in Items \ {q.item} : paid'[x] = paid[x] /\ exceptions'[x] = exceptions[x]
        /\ paid'[q.item].number = paid[q.item].number /\ paid'[q.item].amount = paid[q.item].amount
        /\ paid'[q.item].linked = paid[q.item].linked /\ paid'[q.item].stale = paid[q.item].stale
        /\ paid'[q.item].settlement = paid[q.item].settlement
    BY <1>1, <2>1 DEF IInv, TypeOK, PaidRow
  <2> QED BY <1>1, <2>2, <2>3, WriteStep DEF CommitReevaluate
<1>3. CASE ~(q.findings # {} /\ q.rows = 0)
  BY <1>1, <1>3, WriteStep DEF CommitReevaluate
<1> QED BY <1>2, <1>3

LEMMA CommitBackOutStep == ASSUME IInv, NEW s \in Sessions, CommitBackOut(s) PROVE Rest'
<1> DEFINE q == request[s]
<1>1. q.item \in Items /\ RowRequestInv(s)
  BY RequestType DEF CommitBackOut, IInv, RequestInv
<1>2. /\ \A x \in Items \ {q.item} : paid'[x] = paid[x]
      /\ paid'[q.item] = [paid[q.item] EXCEPT !.settlement = "reversed"]
  BY <1>1 DEF CommitBackOut, IInv, TypeOK
<1>3. /\ paid'[q.item].number = paid[q.item].number /\ paid'[q.item].amount = paid[q.item].amount
      /\ paid'[q.item].linked = paid[q.item].linked /\ paid'[q.item].stale = paid[q.item].stale
      /\ paid'[q.item].settlement = "reversed" /\ paid'[q.item].match = paid[q.item].match
  BY <1>1, <1>2 DEF IInv, TypeOK, PaidRow
<1>4. \A n \in Numbers : issued[n].status # "absent" =>
        issued'[n].status # "absent" /\ issued'[n].amount = issued[n].amount
  BY DEF CommitBackOut, IInv, TypeOK, IssuedRow
<1> QED BY <1>1, <1>2, <1>3, <1>4, WriteStep DEF CommitBackOut

LEMMA CommitLabelStep == ASSUME IInv, NEW s \in Sessions, CommitLabel(s) PROVE Rest'
<1> DEFINE q == request[s]
<1>1. q.item \in Items /\ RowRequestInv(s)
  BY RequestType DEF CommitLabel, IInv, RequestInv
<1>2. /\ \A x \in Items \ {q.item} : paid'[x] = paid[x]
      /\ \/ paid'[q.item] = paid[q.item]
         \/ paid'[q.item] = [paid[q.item] EXCEPT !.settlement = "returned"]
  BY <1>1 DEF CommitLabel, IInv, TypeOK
<1>3. /\ paid'[q.item].number = paid[q.item].number /\ paid'[q.item].amount = paid[q.item].amount
      /\ paid'[q.item].linked = paid[q.item].linked /\ paid'[q.item].stale = paid[q.item].stale
      /\ paid'[q.item].settlement # paid[q.item].settlement => paid'[q.item].settlement = "returned"
      /\ paid'[q.item].match = paid[q.item].match
  BY <1>1, <1>2 DEF IInv, TypeOK, PaidRow
<1> QED BY <1>1, <1>2, <1>3, WriteStep DEF CommitLabel

LEMMA RestStep == IInv /\ [Next]_vars => Rest'
<1> SUFFICES ASSUME IInv, [Next]_vars PROVE Rest'
  OBVIOUS
<1>1. ASSUME NEW n \in Numbers, NEW a \in Amounts, Issue(n, a) PROVE Rest'
  BY <1>1, IssueFileStep DEF Issue, IInv, TypeOK
<1>2. ASSUME NEW n \in Numbers, Void(n) PROVE Rest'
  <2>1. \A m \in Numbers : issued[m] \in IssuedRow
    BY DEF IInv, TypeOK
  <2>2. \A m \in Numbers : issued[m].status # "absent" =>
          issued'[m].status # "absent" /\ issued'[m].amount = issued[m].amount
    BY <1>2, <2>1 DEF Void, IInv, TypeOK, IssuedRow
  <2> QED BY <1>2, <2>2, IssueFileStep DEF Void
<1>3. ASSUME NEW n \in Numbers, CreateStop(n) \/ CancelStop(n) PROVE Rest'
  BY <1>3, IssueFileStep DEF CreateStop, CancelStop
<1>4. ASSUME NEW p \in Items, UploadImage(p) PROVE Rest'
  <2>1. ImageInv'
    BY <1>4 DEF UploadImage, Ask, ImageInv, Present, IInv, TypeOK
  <2> QED BY <1>4, <2>1, ImageStep DEF UploadImage, Ask
<1>5. ASSUME NEW p \in Items, NEW payee \in Payees, ReprocessImage(p, payee) PROVE Rest'
  <2>1. Present(p)
    BY <1>5 DEF ReprocessImage, IInv, ImageInv
  <2>2. \A x \in Items \ {p} : ocr'[x] = ocr[x] /\ reading'[x] = reading[x]
    BY <1>5 DEF ReprocessImage, Ask, IInv, TypeOK
  <2>3. ImageInv'
    BY <1>5, <2>1, <2>2 DEF ReprocessImage, Ask, ImageInv, Present, IInv
  <2> QED BY <1>5, <2>3, ImageStep DEF ReprocessImage, Ask
<1>6. ASSUME NEW p \in Items, NEW payee \in Payees, CompleteOcr(p, payee) PROVE Rest'
  <2>1. Present(p)
    BY <1>6 DEF CompleteOcr, IInv, ImageInv
  <2>2. \A x \in Items \ {p} :
          ocr'[x] = ocr[x] /\ reading'[x] = reading[x] /\ pending'[x] = pending[x]
    BY <1>6 DEF CompleteOcr, IInv, TypeOK
  <2>3. ImageInv'
    BY <1>6, <2>1, <2>2 DEF CompleteOcr, ImageInv, Present, IInv
  <2> QED BY <1>6, <2>3, ImageStep DEF CompleteOcr
<1>7. ASSUME NEW p \in Items, FailOcr(p) \/ LoseReevaluation(p) PROVE Rest'
  <2>1. Present(p)
    BY <1>7 DEF FailOcr, LoseReevaluation, IInv, ImageInv
  <2>2. \A x \in Items \ {p} : reading'[x] = reading[x] /\ pending'[x] = pending[x]
    BY <1>7 DEF FailOcr, LoseReevaluation, IInv, TypeOK
  <2>3. ImageInv'
    BY <1>7, <2>1, <2>2 DEF FailOcr, LoseReevaluation, ImageInv, Present, IInv
  <2> QED BY <1>7, <2>3, ImageStep DEF FailOcr, LoseReevaluation
<1>8. ASSUME NEW s \in Sessions, NEW p \in Items, LoadBackOut(s, p) \/ LoadLabel(s, p) PROVE Rest'
  BY <1>8, LoadStep DEF LoadBackOut, LoadLabel, Present, imagery
<1>9. ASSUME NEW s \in Sessions, NEW p \in Items, NEW payee \in Payees,
             LoadReevaluate(s, p, payee)
      PROVE  Rest'
  <2>1. Present(p)
    BY <1>9 DEF LoadReevaluate, IInv, ImageInv
  <2>2. \A x \in Items : pending'[x] > 0 => pending[x] > 0
    BY <1>9 DEF LoadReevaluate, IInv, TypeOK
  <2> QED BY <1>9, <2>1, <2>2, LoadStep DEF LoadReevaluate
<1>10. ASSUME NEW s \in Sessions, NEW p \in Items, NEW n \in Numbers, NEW a \in Amounts,
              NEW stale \in BOOLEAN, LoadIngest(s, p, n, a, stale)
       PROVE  Rest'
  BY <1>10, LoadIngestStep
<1>11. ASSUME NEW s \in Sessions, Rollback(s) PROVE Rest'
  <2>1. RequestInv'
    <3>1. CASE request[s].kind = "ingest"
      BY <1>11, <3>1, OthersStep DEF Rollback
    <3>2. CASE request[s].kind # "ingest"
      <4>1. RowRequestInv(s)
        BY <1>11, <3>2 DEF Rollback, IInv, RequestInv
      <4> QED BY <1>11, <4>1, OthersStep DEF Rollback, RowRequestInv, Present
    <3> QED BY <3>1, <3>2
  <2> QED BY <1>11, <2>1 DEF Rollback, IInv, Rest, RowInv, ImageInv, PaidAsIssued,
                             ExceptionsAreQueued, Stands, Present, imagery
<1>12. CASE UNCHANGED vars
  BY <1>12, ImageStep DEF vars, imagery, IInv, ImageInv, Present
<1> QED BY <1>1, <1>2, <1>3, <1>4, <1>5, <1>6, <1>7, <1>8, <1>9, <1>10, <1>11, <1>12,
           CommitIngestStep, CommitReevaluateStep, CommitBackOutStep, CommitLabelStep
        DEF Next, IssueFile, Images, Begin, End

LEMMA IInvStep == IInv /\ [Next]_vars => IInv'
BY TypeStep, RestStep DEF IInv, Rest

LEMMA Invariance == Spec => []IInv
BY IInvInit, IInvStep, PTL DEF Spec

\* Every table keeps its type, however requests, images and the issue file
\* interleave: in particular no row is ever read before it is written
\* (networks/check/ingestion.py, services/ocr_processing.py).
THEOREM Typed == Spec => []TypeOK
<1>1. IInv => TypeOK
  BY DEF IInv
<1> QED BY Invariance, <1>1, PTL

\* Money only leaves for a check on file, at the amount on file, whatever was
\* voided, stopped, backed out or re-evaluated while the item was matched.
THEOREM MoneyLeavesAsIssued == Spec => []PaidAsIssued
<1>1. IInv => PaidAsIssued
  BY DEF IInv
<1> QED BY Invariance, <1>1, PTL

\* An item is in exception exactly when it has an exception row, handled or not: no
\* overlap of ingestion, OCR and back-outs loses one or leaves one behind.
THEOREM QueueHasTheExceptions == Spec => []ExceptionsAreQueued
<1>1. IInv => ExceptionsAreQueued
  BY DEF IInv
<1> QED BY Invariance, <1>1, PTL

\* A settlement that was undone is never paid or pending again: only an ingest
\* settles an item, and its row is not written yet.
LEMMA UndoneStep ==
  IInv /\ [Next]_vars =>
    [\A p \in Items : paid[p].settlement \in {"returned", "reversed"} =>
       paid'[p].settlement \in {"returned", "reversed"}]_vars
<1> SUFFICES ASSUME IInv, [Next]_vars, NEW p \in Items,
                    paid[p].settlement \in {"returned", "reversed"}
             PROVE  paid'[p].settlement \in {"returned", "reversed"}
  OBVIOUS
<1>1. paid[p] \in PaidRow
  BY DEF IInv, TypeOK
<1>2. ASSUME NEW s \in Sessions, CommitIngest(s) PROVE paid'[p] = paid[p]
  <2>1. request[s].item # p
    BY <1>2 DEF CommitIngest, IInv, RequestInv, IngestInv, RowInv, Present
  <2> QED BY <1>2, <2>1 DEF CommitIngest, IInv, TypeOK
<1>3. ASSUME NEW s \in Sessions, CommitReevaluate(s)
      PROVE  paid'[p].settlement = paid[p].settlement
  <2>1. paid' = paid \/ paid' = [paid EXCEPT ![request[s].item].match = "exception"]
    BY <1>3 DEF CommitReevaluate
  <2> QED BY <1>1, <2>1 DEF IInv, TypeOK, PaidRow
<1>4. ASSUME NEW s \in Sessions, CommitBackOut(s) \/ CommitLabel(s)
      PROVE  paid'[p].settlement \in {paid[p].settlement, "reversed", "returned"}
  <2>1. \/ paid' = paid
        \/ paid' = [paid EXCEPT ![request[s].item].settlement = "reversed"]
        \/ paid' = [paid EXCEPT ![request[s].item].settlement = "returned"]
    BY <1>4 DEF CommitBackOut, CommitLabel
  <2> QED BY <1>1, <2>1 DEF IInv, TypeOK, PaidRow
<1>5. IssueFile \/ Images => paid' = paid
  BY DEF IssueFile, Images, Issue, Void, CreateStop, CancelStop, UploadImage, ReprocessImage, Ask,
         CompleteOcr, FailOcr, LoseReevaluation
<1>6. ASSUME NEW s \in Sessions, Begin(s) \/ Rollback(s) PROVE paid' = paid
  BY <1>6 DEF Begin, LoadBackOut, LoadLabel, LoadReevaluate, LoadIngest, Rollback
<1>7. UNCHANGED vars => paid' = paid
  BY DEF vars
<1> QED BY <1>2, <1>3, <1>4, <1>5, <1>6, <1>7 DEF Next, End

\* A payment that was returned or reversed is never reinstated, however many
\* requests that had read it before were still under way.
THEOREM UndoneStays == Spec => UndoneIsFinal
<1>1. IInv /\ [Next]_vars =>
        [\A p \in Items : paid[p].settlement \in {"returned", "reversed"} =>
           paid'[p].settlement \in {"returned", "reversed"}]_vars
  BY UndoneStep
<1> QED BY Invariance, <1>1, PTL DEF Spec, UndoneIsFinal

-----------------------------------------------------------------------------
(* Requests that never overlap.                                            *)

Books == NoDoublePayment /\ BooksAgree

LEMMA SInvInit == Init => SInv
<1> SUFFICES ASSUME Init PROVE SInv
  OBVIOUS
<1>1. FreshInv /\ NoDoublePayment /\ BooksAgree
  BY DEF Init, NoPaidRow, FreshInv, NoDoublePayment, BooksAgree, PaidIsNotOutstanding,
         OneExceptionPerItem, Stands
<1> QED BY <1>1, IInvInit DEF SInv

\* Nothing is under way when a row is written outside a request, and a request
\* that ends was the only one.
LEMMA QuietFresh ==
  ASSUME SInv, (request' = request /\ Quiet) \/ \E s \in Sessions : request[s] # None /\ Finish(s)
  PROVE  FreshInv'
<1>1. \A t \in Sessions : request'[t] = None
  BY DEF SInv, IInv, TypeOK, FreshInv, Finish, Quiet
<1> QED BY <1>1 DEF FreshInv

\* A request that begins is the only one, and what it has read is current.
LEMMA StartFresh ==
  ASSUME SInv, Serial, NEW s \in Sessions, NEW k \in Kinds, NEW p \in Items,
         NEW row, NEW findings, NEW n, row.number = n, Start(s, k, p, row, findings, n),
         UNCHANGED <<issued, paid, exceptions, labels>>,
         k # "ingest" => row = paid[p],
         k = "back_out" => ~(row.settlement \in {"returned", "reversed"}),
         k = "ingest" /\ findings = {} =>
           /\ \A x \in Items : Stands(x) => paid[x].number # n
           /\ issued[n].status # "voided"
  PROVE  FreshInv'
<1>1. \A t \in Sessions : request[t] = None
  BY DEF Start, Calm, Quiet
<1>2. /\ request'[s].kind = k /\ request'[s].item = p /\ request'[s].row = row
      /\ request'[s].findings = findings /\ request'[s].issued = issued[n].status
      /\ request'[s].rows = exceptions[p] + labels[p]
      /\ \A t \in Sessions : request'[t] # None => t = s
  BY <1>1 DEF Start, SInv, IInv, TypeOK
<1> QED BY <1>2 DEF FreshInv, Stands

\* An item found clean is the first payment of its check: one that stands was
\* paid as issued, so it would have been found at the same amount.
LEMMA CleanIsFirst ==
  ASSUME SInv, NEW p \in Items, ~Present(p), NEW n \in Numbers, NEW a, NEW stale,
         Evaluate(p, n, a, stale, "same") = {}
  PROVE  /\ \A x \in Items : Stands(x) => paid[x].number # n
         /\ issued[n].status # "voided"
<1>1. /\ ~DuplicatePaid(p, n, a) /\ issued[n].status # "voided" /\ issued[n].amount = a
  BY DEF Evaluate, Findings, When, Candidate
<1>2. ASSUME NEW x \in Items, Stands(x), paid[x].number = n PROVE FALSE
  <2>1. paid[x].amount = a
    BY <1>1, <1>2 DEF SInv, IInv, PaidAsIssued
  <2>2. x # p
    BY <1>2 DEF SInv, IInv, RowInv, Stands
  <2> QED BY <1>1, <1>2, <2>1, <2>2 DEF DuplicatePaid, Stands
<1> QED BY <1>1, <1>2

LEMMA FreshStep == ASSUME Serial PROVE SInv /\ [Next]_vars => FreshInv'
<1> SUFFICES ASSUME SInv, [Next]_vars PROVE FreshInv'
  OBVIOUS
<1>1. ASSUME NEW n \in Numbers, NEW a \in Amounts, Issue(n, a) PROVE FreshInv'
  BY <1>1, QuietFresh DEF Issue, Calm
<1>2. ASSUME NEW n \in Numbers, Void(n) \/ CreateStop(n) \/ CancelStop(n) PROVE FreshInv'
  BY <1>2, QuietFresh DEF Void, CreateStop, CancelStop, Calm
<1>3. ASSUME NEW p \in Items, UploadImage(p) PROVE FreshInv'
  BY <1>3, QuietFresh DEF UploadImage, Ask, Calm
<1>4. ASSUME NEW p \in Items, NEW payee \in Payees, ReprocessImage(p, payee) \/ CompleteOcr(p, payee)
      PROVE  FreshInv'
  BY <1>4, QuietFresh DEF ReprocessImage, CompleteOcr, Ask, Calm
<1>5. ASSUME NEW p \in Items, FailOcr(p) \/ LoseReevaluation(p) PROVE FreshInv'
  BY <1>5 DEF FailOcr, LoseReevaluation, SInv, FreshInv, Stands
<1>6. ASSUME NEW s \in Sessions, NEW p \in Items, LoadBackOut(s, p) PROVE FreshInv'
  <2>1. /\ Start(s, "back_out", p, paid[p], {}, paid[p].number)
        /\ paid[p].settlement \notin {"returned", "reversed"}
        /\ UNCHANGED <<issued, paid, exceptions, labels>>
    BY <1>6 DEF LoadBackOut
  <2> QED BY <2>1, StartFresh DEF Kinds
<1>7. ASSUME NEW s \in Sessions, NEW p \in Items, LoadLabel(s, p) PROVE FreshInv'
  <2>1. /\ Start(s, "label", p, paid[p], {}, paid[p].number)
        /\ UNCHANGED <<issued, paid, exceptions, labels>>
    BY <1>7 DEF LoadLabel
  <2> QED BY <2>1, StartFresh DEF Kinds
<1>8. ASSUME NEW s \in Sessions, NEW p \in Items, NEW payee \in Payees,
             LoadReevaluate(s, p, payee)
      PROVE  FreshInv'
  <2>1. /\ Start(s, "reevaluate", p, paid[p],
                 Evaluate(p, paid[p].number, paid[p].amount, paid[p].stale, payee), paid[p].number)
        /\ UNCHANGED <<issued, paid, exceptions, labels>>
    BY <1>8 DEF LoadReevaluate
  <2> QED BY <2>1, StartFresh DEF Kinds
<1>9. ASSUME NEW s \in Sessions, NEW p \in Items, NEW n \in Numbers, NEW a \in Amounts,
             NEW stale \in BOOLEAN, LoadIngest(s, p, n, a, stale)
      PROVE  FreshInv'
  <2> DEFINE findings == Evaluate(p, n, a, stale, "same")
             row == [number |-> n, amount |-> a, stale |-> stale,
                     linked |-> issued[n].status # "absent",
                     match |-> IF findings = {} THEN "matched" ELSE "exception",
                     settlement |-> IF findings = {} THEN "paid" ELSE "pending"]
  <2>1. /\ Start(s, "ingest", p, row, findings, n) /\ ~Present(p)
        /\ UNCHANGED <<issued, paid, exceptions, labels>>
    BY <1>9 DEF LoadIngest, Present
  <2>2. findings = {} => /\ \A x \in Items : Stands(x) => paid[x].number # n
                         /\ issued[n].status # "voided"
    BY <2>1, CleanIsFirst
  <2>3. row.number = n /\ "ingest" \in Kinds
    BY DEF Kinds
  <2> HIDE DEF row, findings
  <2> QED BY <2>1, <2>2, <2>3, StartFresh
<1>10. ASSUME NEW s \in Sessions, End(s) PROVE FreshInv'
  BY <1>10, QuietFresh
     DEF End, CommitIngest, CommitReevaluate, CommitBackOut, CommitLabel, Rollback
<1>11. CASE UNCHANGED vars
  BY <1>11 DEF vars, SInv, FreshInv, Stands
<1> QED BY <1>1, <1>2, <1>3, <1>4, <1>5, <1>6, <1>7, <1>8, <1>9, <1>10, <1>11
        DEF Next, IssueFile, Images, Begin

\* What a request wrote on one item changes nothing for the items that stand
\* beside it, unless it took their check's entry from them.
LEMMA BooksWrite ==
  ASSUME SInv, NEW p \in Items,
         \A x \in Items \ {p} : paid'[x] = paid[x] /\ exceptions'[x] = exceptions[x],
         exceptions'[p] <= 1,
         \A x \in Items \ {p} : Stands(x) =>
           issued'[paid[x].number].status \in {"paid", "voided"},
         Stands(p)' => /\ issued'[paid'[p].number].status \in {"paid", "voided"}
                       /\ \A x \in Items \ {p} : Stands(x) => paid[x].number # paid'[p].number
  PROVE  Books'
<1>1. NoDoublePayment'
  BY DEF SInv, NoDoublePayment, Stands
<1>2. PaidIsNotOutstanding'
  BY DEF SInv, BooksAgree, PaidIsNotOutstanding, Stands
<1>3. OneExceptionPerItem'
  BY DEF SInv, BooksAgree, OneExceptionPerItem
<1> QED BY <1>1, <1>2, <1>3 DEF Books, BooksAgree

LEMMA BooksCommitIngest == ASSUME SInv, NEW s \in Sessions, CommitIngest(s) PROVE Books'
<1> DEFINE q == request[s]
<1>1. /\ q.item \in Items /\ q.row.number \in Numbers /\ ~Present(q.item)
      /\ q.row.settlement = IF q.findings = {} THEN "paid" ELSE "pending"
      /\ q.issued = issued[q.row.number].status
  BY RequestType DEF CommitIngest, SInv, IInv, RequestInv, IngestInv, FreshInv
<1>2. q.findings = {} => \A x \in Items : Stands(x) => paid[x].number # q.row.number
  BY DEF CommitIngest, SInv, FreshInv
<1>3. /\ paid'[q.item] = q.row
      /\ \A x \in Items \ {q.item} : paid'[x] = paid[x]
  BY <1>1 DEF CommitIngest, SInv, IInv, TypeOK
<1>4. /\ \A x \in Items \ {q.item} : exceptions'[x] = exceptions[x]
      /\ exceptions'[q.item] <= 1
  BY <1>1 DEF CommitIngest, SInv, IInv, TypeOK, ExceptionsAreQueued, Present
<1>5. /\ q.findings = {} => issued'[q.row.number].status = "paid"
      /\ \A n \in Numbers : n # q.row.number => issued'[n] = issued[n]
      /\ q.findings # {} => issued' = issued
  <2>1. issued \in [Numbers -> [status: IssuedStatuses, amount: Amounts \cup {None}]]
    BY DEF SInv, IInv, TypeOK, IssuedRow
  <2>2. \/ q.findings # {} /\ issued' = issued
        \/ q.findings = {} /\ q.issued = "paid" /\ issued' = issued
        \/ q.findings = {} /\ issued' = [issued EXCEPT ![q.row.number].status = "paid"]
    BY DEF CommitIngest
  <2> HIDE DEF q
  <2> QED BY <1>1, <2>1, <2>2
<1>6. ASSUME NEW x \in Items \ {q.item}, Stands(x)
      PROVE  issued'[paid[x].number].status \in {"paid", "voided"}
  <2>1. /\ paid[x].number \in Numbers
        /\ issued[paid[x].number].status \in {"paid", "voided"}
    BY <1>6 DEF SInv, IInv, RowInv, Present, BooksAgree, PaidIsNotOutstanding, Stands
  <2> QED BY <1>2, <1>5, <1>6, <2>1
<1>7. PICK p \in Items : p = q.item
  BY <1>1
<1>8. Stands(p)' => q.findings = {}
  BY <1>1, <1>3, <1>7 DEF Stands
<1> HIDE DEF q
<1> QED BY <1>1, <1>2, <1>3, <1>4, <1>5, <1>6, <1>7, <1>8, BooksWrite

LEMMA BooksCommitReevaluate == ASSUME SInv, NEW s \in Sessions, CommitReevaluate(s) PROVE Books'
<1> DEFINE q == request[s]
<1>1. q.item \in Items /\ q.rows = exceptions[q.item] + labels[q.item]
  BY RequestType DEF CommitReevaluate, SInv, IInv, FreshInv
<1>2. /\ \A x \in Items \ {q.item} : exceptions'[x] = exceptions[x]
      /\ exceptions'[q.item] <= 1
  <2>1. exceptions[q.item] \in Nat /\ labels[q.item] \in Nat /\ exceptions[q.item] <= 1
    BY <1>1 DEF SInv, IInv, TypeOK, BooksAgree, OneExceptionPerItem
  <2>2. \/ exceptions' = exceptions
        \/ q.rows = 0 /\ exceptions' = [exceptions EXCEPT ![q.item] = @ + 1]
    BY DEF CommitReevaluate
  <2> HIDE DEF q
  <2> QED BY <1>1, <2>1, <2>2 DEF SInv, IInv, TypeOK
<1>3. issued' = issued /\ \A x \in Items :
        paid'[x].settlement = paid[x].settlement /\ paid'[x].number = paid[x].number
  <2>1. paid' = paid \/ paid' = [paid EXCEPT ![q.item].match = "exception"]
    BY DEF CommitReevaluate
  <2>2. paid \in [Items -> PaidRow] /\ issued' = issued
    BY DEF SInv, IInv, TypeOK, CommitReevaluate
  <2> HIDE DEF q
  <2> QED BY <2>1, <2>2 DEF PaidRow
<1>4. NoDoublePayment' /\ PaidIsNotOutstanding'
  BY <1>3 DEF SInv, NoDoublePayment, BooksAgree, PaidIsNotOutstanding, Stands
<1>5. OneExceptionPerItem'
  BY <1>1, <1>2 DEF SInv, BooksAgree, OneExceptionPerItem
<1> QED BY <1>4, <1>5 DEF Books, BooksAgree

LEMMA BooksCommitBackOut == ASSUME SInv, NEW s \in Sessions, CommitBackOut(s) PROVE Books'
<1> DEFINE q == request[s]
<1>1. /\ q.item \in Items /\ q.row = paid[q.item] /\ Present(q.item)
      /\ q.issued = issued[q.row.number].status
      /\ ~(q.row.settlement \in {"returned", "reversed"})
  BY RequestType DEF CommitBackOut, SInv, IInv, FreshInv, RequestInv, RowRequestInv
<1>2. /\ \A x \in Items \ {q.item} : paid'[x] = paid[x]
      /\ paid'[q.item].settlement = "reversed"
  <2>1. paid \in [Items -> PaidRow]
    BY DEF SInv, IInv, TypeOK
  <2> QED BY <1>1, <2>1 DEF CommitBackOut, PaidRow
<1>3. exceptions' = exceptions /\ exceptions[q.item] <= 1
  BY <1>1 DEF CommitBackOut, SInv, BooksAgree, OneExceptionPerItem
<1>4. ASSUME NEW x \in Items \ {q.item}, Stands(x)
      PROVE  issued'[paid[x].number].status \in {"paid", "voided"}
  <2>1. /\ paid[x].number \in Numbers
        /\ issued[paid[x].number].status \in {"paid", "voided"}
    BY <1>4 DEF SInv, IInv, RowInv, Present, BooksAgree, PaidIsNotOutstanding, Stands
  <2>2. CASE q.row.match = "matched"
    <3>1. Stands(q.item)
      BY <1>1, <2>2 DEF SInv, IInv, RowInv, TypeOK, PaidRow, Settlements, Stands
    <3>2. paid[x].number # q.row.number
      BY <1>1, <1>4, <3>1 DEF SInv, NoDoublePayment
    <3>3. issued'[paid[x].number] = issued[paid[x].number]
      BY <2>1, <3>2 DEF CommitBackOut, SInv, IInv, TypeOK
    <3> QED BY <2>1, <3>3
  <2>3. CASE q.row.match # "matched"
    BY <2>1, <2>3 DEF CommitBackOut
  <2> QED BY <2>2, <2>3
<1>5. PICK p \in Items : p = q.item
  BY <1>1
<1>6. ~Stands(p)'
  BY <1>1, <1>2, <1>5 DEF Stands
<1> HIDE DEF q
<1> QED BY <1>1, <1>2, <1>3, <1>4, <1>5, <1>6, BooksWrite

LEMMA BooksCommitLabel == ASSUME SInv, NEW s \in Sessions, CommitLabel(s) PROVE Books'
<1> DEFINE q == request[s]
<1>1. q.item \in Items /\ q.row = paid[q.item]
  BY RequestType DEF CommitLabel, SInv, IInv, FreshInv
<1>2. /\ \A x \in Items \ {q.item} : paid'[x] = paid[x]
      /\ paid'[q.item].settlement = "returned"
  <2>1. paid \in [Items -> PaidRow]
    BY DEF SInv, IInv, TypeOK
  <2> QED BY <1>1, <2>1 DEF CommitLabel, PaidRow
<1>3. UNCHANGED <<issued, exceptions>>
  BY DEF CommitLabel
<1>4. PICK p \in Items : p = q.item
  BY <1>1
<1>5. ~Stands(p)'
  BY <1>1, <1>2, <1>4 DEF Stands
<1> HIDE DEF q
<1> QED BY <1>1, <1>2, <1>3, <1>4, <1>5, BooksWrite
        DEF SInv, BooksAgree, PaidIsNotOutstanding, OneExceptionPerItem

LEMMA BooksStep == SInv /\ [Next]_vars => Books'
<1> SUFFICES ASSUME SInv, [Next]_vars PROVE Books'
  OBVIOUS
<1>1. ASSUME UNCHANGED <<paid, exceptions>>,
             \A n \in Numbers : \/ issued'[n] = issued[n]
                                \/ issued[n].status = "absent" \/ issued'[n].status = "voided"
      PROVE  Books'
  <2>1. \A p \in Items : Stands(p) =>
          paid[p].number \in Numbers /\ issued[paid[p].number].status # "absent"
    BY DEF SInv, IInv, RowInv, PaidAsIssued, Present, Stands
  <2>2. PaidIsNotOutstanding'
    BY <1>1, <2>1 DEF SInv, BooksAgree, PaidIsNotOutstanding, Stands
  <2> QED BY <1>1, <2>2 DEF SInv, Books, NoDoublePayment, BooksAgree, OneExceptionPerItem, Stands
<1>2. ASSUME NEW n \in Numbers, NEW a \in Amounts, Issue(n, a) PROVE Books'
  BY <1>1, <1>2 DEF Issue, SInv, IInv, TypeOK
<1>3. ASSUME NEW n \in Numbers, Void(n) PROVE Books'
  <2>1. issued \in [Numbers -> [status: IssuedStatuses, amount: Amounts \cup {None}]]
    BY DEF SInv, IInv, TypeOK, IssuedRow
  <2> QED BY <1>1, <1>3, <2>1 DEF Void
<1>4. UNCHANGED <<paid, exceptions, issued>> => Books'
  BY <1>1
<1>5. ASSUME NEW n \in Numbers, CreateStop(n) \/ CancelStop(n) PROVE Books'
  BY <1>4, <1>5 DEF CreateStop, CancelStop
<1>6. Images => Books'
  BY <1>4 DEF Images, UploadImage, ReprocessImage, Ask, CompleteOcr, FailOcr, LoseReevaluation
<1>7. ASSUME NEW s \in Sessions, Begin(s) \/ Rollback(s)
      PROVE  UNCHANGED <<paid, exceptions, issued>>
  BY <1>7 DEF Begin, LoadBackOut, LoadLabel, LoadReevaluate, LoadIngest, Rollback
<1>8. UNCHANGED vars => Books'
  BY <1>4 DEF vars
<1> QED BY <1>2, <1>3, <1>4, <1>5, <1>6, <1>7, <1>8, BooksCommitIngest, BooksCommitReevaluate,
           BooksCommitBackOut, BooksCommitLabel
        DEF Next, IssueFile, End

LEMMA SInvStep == ASSUME Serial PROVE SInv /\ [Next]_vars => SInv'
BY IInvStep, FreshStep, BooksStep DEF SInv, Books

LEMMA SerialInvariance == ASSUME Serial PROVE Spec => []SInv
<1>1. SInv /\ [Next]_vars => SInv'
  BY SInvStep
<1> QED BY SInvInit, <1>1, PTL DEF Spec

\* An account's check number is never paid twice at a time, for any number of
\* items, amounts and readings, when requests do not overlap: an item found
\* clean is the first, and a payment that was undone no longer counts
\* (networks/check/adapter.py, docs/ARCHITECTURE.md rule 1).
THEOREM NotPaidTwice == ASSUME Serial PROVE Spec => []NoDoublePayment
<1>1. SInv => NoDoublePayment
  BY DEF SInv
<1> QED BY SerialInvariance, <1>1, PTL

\* When requests do not overlap, a payment that stands has its check paid or
\* voided in the issue file, and an item never has two exception rows.
THEOREM BooksTellOneStory == ASSUME Serial PROVE Spec => []BooksAgree
<1>1. SInv => BooksAgree
  BY DEF SInv
<1> QED BY SerialInvariance, <1>1, PTL

LEMMA VoidStep ==
  SInv /\ [Next]_vars =>
    [\A n \in Numbers : issued[n].status = "voided" => issued'[n].status = "voided"]_vars
<1> SUFFICES ASSUME SInv, [Next]_vars, NEW n \in Numbers, issued[n].status = "voided"
             PROVE  issued'[n].status = "voided"
  OBVIOUS
<1>1. issued \in [Numbers -> [status: IssuedStatuses, amount: Amounts \cup {None}]]
  BY DEF SInv, IInv, TypeOK, IssuedRow
<1>2. ASSUME NEW m \in Numbers, NEW a \in Amounts, Issue(m, a) PROVE issued'[n].status = "voided"
  BY <1>1, <1>2 DEF Issue
<1>3. ASSUME NEW m \in Numbers, Void(m) PROVE issued'[n].status = "voided"
  BY <1>1, <1>3 DEF Void
<1>4. ASSUME NEW s \in Sessions, CommitIngest(s) PROVE issued'[n] = issued[n]
  <2>1. request[s].findings = {} => issued[request[s].row.number].status # "voided"
    BY <1>4 DEF CommitIngest, SInv, FreshInv
  <2> QED BY <1>1, <1>4, <2>1 DEF CommitIngest
<1>5. ASSUME NEW s \in Sessions, CommitBackOut(s) PROVE issued'[n] = issued[n]
  <2>1. request[s].issued = issued[request[s].row.number].status
    BY <1>5 DEF CommitBackOut, SInv, FreshInv
  <2> QED BY <1>1, <1>5, <2>1 DEF CommitBackOut
<1>6. ASSUME NEW m \in Numbers, CreateStop(m) \/ CancelStop(m) PROVE issued' = issued
  BY <1>6 DEF CreateStop, CancelStop
<1>7. Images => issued' = issued
  BY DEF Images, UploadImage, ReprocessImage, Ask, CompleteOcr, FailOcr, LoseReevaluation
<1>8. ASSUME NEW s \in Sessions, Begin(s) \/ CommitReevaluate(s) \/ CommitLabel(s) \/ Rollback(s)
      PROVE  issued' = issued
  BY <1>8 DEF Begin, LoadBackOut, LoadLabel, LoadReevaluate, LoadIngest, CommitReevaluate,
              CommitLabel, Rollback
<1>9. UNCHANGED vars => issued' = issued
  BY DEF vars
<1> QED BY <1>2, <1>3, <1>4, <1>5, <1>6, <1>7, <1>8, <1>9 DEF Next, IssueFile, End

\* A check the customer voided is never paid and never outstanding again: a
\* request pays or gives back only a check it has read as it still is.
THEOREM VoidStays == ASSUME Serial PROVE Spec => VoidIsFinal
<1>1. SInv /\ [Next]_vars =>
        [\A n \in Numbers : issued[n].status = "voided" => issued'[n].status = "voided"]_vars
  BY VoidStep
<1> QED BY SerialInvariance, <1>1, PTL DEF Spec, VoidIsFinal

-----------------------------------------------------------------------------
(* The refinement: serial requests implement CheckPayments.                *)

\* What the mapping picks for a number is an item that stands as its payment,
\* and it picks one if there is one.
PayerInv == \A n \in Numbers :
  \/ payerOf[n] = None /\ \A p \in Items : ~(Stands(p) /\ paid[p].number = n)
  \/ payerOf[n] \in Items /\ Stands(payerOf[n]) /\ paid[payerOf[n]].number = n

LEMMA PayerFact == PayerInv
<1> SUFFICES ASSUME NEW n \in Numbers
             PROVE  \/ payerOf[n] = None /\ \A p \in Items : ~(Stands(p) /\ paid[p].number = n)
                    \/ payerOf[n] \in Items /\ Stands(payerOf[n]) /\ paid[payerOf[n]].number = n
  BY DEF PayerInv
<1>1. CASE \E p \in Items : Stands(p) /\ paid[p].number = n
  <2>1. payerOf[n] = CHOOSE p \in Items : Stands(p) /\ paid[p].number = n
    BY <1>1 DEF payerOf
  <2> QED BY <1>1, <2>1
<1>2. CASE ~ \E p \in Items : Stands(p) /\ paid[p].number = n
  BY <1>2 DEF payerOf
<1> QED BY <1>1, <1>2

LEMMA PayerFactNext == PayerInv'
BY PayerFact, PTL

\* The books give a number's payment in the next state.
LEMMA PayerNext ==
  ASSUME NoDoublePayment', NEW n \in Numbers
  PROVE  /\ \A p \in Items : Stands(p)' /\ paid'[p].number = n => payerOf'[n] = p
         /\ (\A p \in Items : ~(Stands(p)' /\ paid'[p].number = n)) => payerOf'[n] = None
<1>1. \/ payerOf'[n] = None /\ \A p \in Items : ~(Stands(p)' /\ paid'[p].number = n)
      \/ payerOf'[n] \in Items /\ paid'[payerOf'[n]].settlement = "paid"
         /\ paid'[payerOf'[n]].number = n
  BY PayerFactNext DEF PayerInv, Stands
<1> QED BY <1>1 DEF NoDoublePayment, Stands

LEMMA PayerNow ==
  ASSUME SInv, NEW n \in Numbers
  PROVE  /\ \A p \in Items : Stands(p) /\ paid[p].number = n => payerOf[n] = p
         /\ (\A p \in Items : ~(Stands(p) /\ paid[p].number = n)) => payerOf[n] = None
BY PayerFact DEF PayerInv, SInv, NoDoublePayment

\* A step that leaves settlements and numbers alone is a stutter.
LEMMA StutterStep ==
  ASSUME SInv, NoDoublePayment',
         \A p \in Items : /\ paid'[p].settlement = paid[p].settlement
                          /\ Stands(p) => paid'[p].number = paid[p].number
  PROVE  UNCHANGED Payments!vars
<1>1. ASSUME NEW n \in Numbers PROVE payerOf'[n] = payerOf[n]
  <2>1. CASE \E p \in Items : Stands(p) /\ paid[p].number = n
    <3>1. PICK p \in Items : Stands(p) /\ paid[p].number = n
      BY <2>1
    <3>2. Stands(p)' /\ paid'[p].number = n
      BY <3>1 DEF Stands
    <3> QED BY <3>1, <3>2, PayerNow, PayerNext
  <2>2. CASE \A p \in Items : ~(Stands(p) /\ paid[p].number = n)
    <3>1. \A p \in Items : ~(Stands(p)' /\ paid'[p].number = n)
      BY <2>2 DEF Stands
    <3> QED BY <2>2, <3>1, PayerNow, PayerNext
  <2> QED BY <2>1, <2>2
<1>2. payerOf' = payerOf
  <2>1. payerOf = [n \in Numbers |-> payerOf[n]] /\ payerOf' = [n \in Numbers |-> payerOf'[n]]
    BY DEF payerOf
  <2> QED BY <1>1, <2>1
<1>3. undoneItems' = undoneItems
  BY DEF undoneItems
<1> QED BY <1>2, <1>3 DEF Payments!vars

\* An item that comes to stand is the payment of its number.
LEMMA PayStep ==
  ASSUME SInv, NoDoublePayment', NEW p \in Items, NEW n \in Numbers,
         ~Present(p), paid'[p].settlement = "paid", paid'[p].number = n,
         \A x \in Items \ {p} : paid'[x] = paid[x]
  PROVE  Payments!Pay(n, p)
<1>1. ~Stands(p) /\ p \notin undoneItems
  BY DEF SInv, IInv, RowInv, Stands, undoneItems
<1>2. \A x \in Items : ~(Stands(x) /\ paid[x].number = n)
  BY <1>1 DEF NoDoublePayment, Stands
<1>3. payerOf[n] = None /\ payerOf'[n] = p
  BY <1>2, PayerNow, PayerNext DEF Stands
<1>4. ASSUME NEW m \in Numbers, m # n PROVE payerOf'[m] = payerOf[m]
  <2>1. CASE \E x \in Items : Stands(x) /\ paid[x].number = m
    <3>1. PICK x \in Items : Stands(x) /\ paid[x].number = m
      BY <2>1
    <3>2. Stands(x)' /\ paid'[x].number = m
      BY <1>1, <3>1 DEF Stands
    <3> QED BY <3>1, <3>2, PayerNow, PayerNext
  <2>2. CASE \A x \in Items : ~(Stands(x) /\ paid[x].number = m)
    <3>1. \A x \in Items : ~(Stands(x)' /\ paid'[x].number = m)
      BY <1>4, <2>2 DEF Stands
    <3> QED BY <2>2, <3>1, PayerNow, PayerNext
  <2> QED BY <2>1, <2>2
<1>5. payerOf' = [payerOf EXCEPT ![n] = p]
  <2>1. payerOf = [m \in Numbers |-> payerOf[m]] /\ payerOf' = [m \in Numbers |-> payerOf'[m]]
    BY DEF payerOf
  <2> QED BY <1>3, <1>4, <2>1
<1>6. undoneItems' = undoneItems
  BY <1>1 DEF undoneItems
<1> QED BY <1>1, <1>3, <1>5, <1>6 DEF Payments!Pay

\* An item that is undone leaves its number without a payment if it was the one
\* that stood, and otherwise changes no payment.
LEMMA UndoStep ==
  ASSUME SInv, NoDoublePayment', NEW p \in Items,
         paid'[p].settlement \in {"returned", "reversed"}, Present(p),
         \A x \in Items \ {p} : paid'[x] = paid[x]
  PROVE  Payments!Next
<1>0. undoneItems' = undoneItems \cup {p}
  BY DEF undoneItems
<1>1. ASSUME NEW m \in Numbers, ~(Stands(p) /\ paid[p].number = m) PROVE payerOf'[m] = payerOf[m]
  <2>1. CASE \E x \in Items : Stands(x) /\ paid[x].number = m
    <3>1. PICK x \in Items : Stands(x) /\ paid[x].number = m
      BY <2>1
    <3>2. Stands(x)' /\ paid'[x].number = m
      BY <1>1, <3>1 DEF Stands
    <3> QED BY <3>1, <3>2, PayerNow, PayerNext
  <2>2. CASE \A x \in Items : ~(Stands(x) /\ paid[x].number = m)
    <3>1. \A x \in Items : ~(Stands(x)' /\ paid'[x].number = m)
      BY <2>2 DEF Stands
    <3> QED BY <2>2, <3>1, PayerNow, PayerNext
  <2> QED BY <2>1, <2>2
<1>2. payerOf = [m \in Numbers |-> payerOf[m]] /\ payerOf' = [m \in Numbers |-> payerOf'[m]]
  BY DEF payerOf
<1>3. CASE Stands(p)
  <2>1. PICK n \in Numbers : n = paid[p].number
    BY DEF SInv, IInv, RowInv
  <2>2. payerOf[n] = p
    BY <1>3, <2>1, PayerNow
  <2>3. \A x \in Items : ~(Stands(x)' /\ paid'[x].number = n)
    BY <1>3, <2>1 DEF SInv, NoDoublePayment, Stands
  <2>4. payerOf'[n] = None
    BY <2>3, PayerNext
  <2>5. payerOf' = [payerOf EXCEPT ![n] = None]
    BY <1>1, <1>2, <2>1, <2>4
  <2>6. Payments!Undo(n)
    BY <1>0, <2>2, <2>5, ConstantsAssumption DEF Payments!Undo
  <2> QED BY <2>6 DEF Payments!Next
<1>4. CASE ~Stands(p)
  <2>1. payerOf' = payerOf
    BY <1>1, <1>2, <1>4
  <2>2. \A n \in Numbers : payerOf[n] # p
    BY <1>4, PayerFact, ConstantsAssumption DEF PayerInv
  <2>3. Payments!Discard(p)
    BY <1>0, <2>1, <2>2 DEF Payments!Discard
  <2> QED BY <2>3 DEF Payments!Next
<1> QED BY <1>3, <1>4

LEMMA ImplementsInit == Init => Payments!Init
<1> SUFFICES ASSUME Init PROVE Payments!Init
  OBVIOUS
<1>1. \A p \in Items : paid[p].settlement = "pending"
  BY DEF Init, NoPaidRow
<1>2. payerOf = [n \in Numbers |-> None]
  BY <1>1 DEF payerOf, Stands
<1>3. undoneItems = {}
  BY <1>1 DEF undoneItems
<1> QED BY <1>2, <1>3 DEF Payments!Init

LEMMA ImplementsStep ==
  SInv /\ [Next]_vars /\ NoDoublePayment' => [Payments!Next]_(Payments!vars)
<1> SUFFICES ASSUME SInv, [Next]_vars, NoDoublePayment'
             PROVE  Payments!Next \/ UNCHANGED Payments!vars
  OBVIOUS
<1>0. paid \in [Items -> PaidRow]
  BY DEF SInv, IInv, TypeOK
<1>1. paid' = paid => UNCHANGED Payments!vars
  BY StutterStep
<1>2. ASSUME NEW s \in Sessions, CommitIngest(s) PROVE Payments!Next \/ UNCHANGED Payments!vars
  <2>1. /\ request[s].item \in Items /\ request[s].row.number \in Numbers
        /\ ~Present(request[s].item)
        /\ request[s].row.settlement \in {"paid", "pending"}
    BY <1>2, RequestType DEF CommitIngest, SInv, IInv, RequestInv, IngestInv
  <2>2. PICK p \in Items, n \in Numbers : p = request[s].item /\ n = request[s].row.number
    BY <2>1
  <2>3. paid'[p] = request[s].row /\ \A x \in Items \ {p} : paid'[x] = paid[x]
    BY <1>0, <1>2, <2>2 DEF CommitIngest
  <2>4. CASE request[s].row.settlement = "paid"
    <3>1. Payments!Pay(n, p)
      BY <2>1, <2>2, <2>3, <2>4, PayStep
    <3> QED BY <3>1 DEF Payments!Next
  <2>5. CASE request[s].row.settlement = "pending"
    <3>1. paid[p].settlement = "pending"
      BY <2>1, <2>2 DEF SInv, IInv, RowInv
    <3>2. \A x \in Items : /\ paid'[x].settlement = paid[x].settlement
                           /\ Stands(x) => paid'[x].number = paid[x].number
      BY <2>3, <2>5, <3>1 DEF Stands
    <3> QED BY <3>2, StutterStep
  <2> QED BY <2>1, <2>4, <2>5
<1>3. ASSUME NEW s \in Sessions, CommitReevaluate(s) PROVE UNCHANGED Payments!vars
  <2>1. paid' = paid \/ paid' = [paid EXCEPT ![request[s].item].match = "exception"]
    BY <1>3 DEF CommitReevaluate
  <2>2. \A x \in Items : /\ paid'[x].settlement = paid[x].settlement
                         /\ paid'[x].number = paid[x].number
    BY <1>0, <2>1 DEF PaidRow
  <2> QED BY <2>2, StutterStep
<1>4. ASSUME NEW s \in Sessions, CommitBackOut(s) \/ CommitLabel(s) PROVE Payments!Next
  <2>1. request[s].item \in Items /\ Present(request[s].item) /\ request[s].row = paid[request[s].item]
    BY <1>4, RequestType
       DEF CommitBackOut, CommitLabel, SInv, IInv, FreshInv, RequestInv, RowRequestInv
  <2>2. PICK p \in Items : p = request[s].item
    BY <2>1
  <2>3. \A x \in Items \ {p} : paid'[x] = paid[x]
    BY <1>0, <1>4, <2>2 DEF CommitBackOut, CommitLabel
  <2>4. paid'[p].settlement \in {"returned", "reversed"}
    <3>1. \/ paid' = [paid EXCEPT ![p].settlement = "reversed"]
          \/ paid' = [paid EXCEPT ![p].settlement = "returned"]
          \/ paid' = paid /\ paid[p].settlement = "returned"
      BY <1>4, <2>1, <2>2 DEF CommitBackOut, CommitLabel
    <3> QED BY <1>0, <3>1 DEF PaidRow
  <2> QED BY <2>1, <2>2, <2>3, <2>4, UndoStep
<1>5. IssueFile \/ Images => paid' = paid
  BY DEF IssueFile, Images, Issue, Void, CreateStop, CancelStop, UploadImage, ReprocessImage, Ask,
         CompleteOcr, FailOcr, LoseReevaluation
<1>6. ASSUME NEW s \in Sessions, Begin(s) \/ Rollback(s) PROVE paid' = paid
  BY <1>6 DEF Begin, LoadBackOut, LoadLabel, LoadReevaluate, LoadIngest, Rollback
<1>7. UNCHANGED vars => paid' = paid
  BY DEF vars
<1> QED BY <1>1, <1>2, <1>3, <1>4, <1>5, <1>6, <1>7 DEF Next, End

\* Serial requests implement what positive pay promises: at most one presented
\* item stands as a check's payment, and one that was undone is never paid
\* again.  Ingestion pays, a back-out and a fraud label undo, and everything
\* else, matching run again included, leaves the payments alone.
THEOREM Implementation == ASSUME Serial PROVE Spec => ImplementsPayments
<1>1. SInv => NoDoublePayment
  BY DEF SInv
<1>2. []SInv /\ [][Next]_vars => [][Payments!Next]_(Payments!vars)
  BY <1>1, ImplementsStep, PTL
<1> QED BY SerialInvariance, ImplementsInit, <1>2, PTL DEF Spec, ImplementsPayments, Payments!Spec
=============================================================================
