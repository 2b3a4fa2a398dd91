------------------------------ MODULE Uploads -------------------------------
(***************************************************************************)
(* Bulk files submitted by hand: the handlers that take them in (the       *)
(* web routers of issued items, paid items, check images, ACH, accounts,   *)
(* users and fraud-training examples, and the API's, which take batches),  *)
(* the rows they create, the account a row's reference means               *)
(* (services/account_service.py), the records kept of what was created,    *)
(* and backing an upload out (services/bulk_upload_reversal_service.py).   *)
(*                                                                         *)
(* A handler commits the file, then each row, then the records of the rows *)
(* and the counts; a back-out commits row by row and marks the upload at   *)
(* the end.  A row is one step here (what may happen inside one is the     *)
(* subject of CheckClearing), a row of a back-out a read and a commit.     *)
(***************************************************************************)
EXTENDS Integers, Sequences, FiniteSets, SequencesExt

CONSTANTS
  Files,
  KindsOf,    \* the kinds a file may be submitted as
  Lines,      \* of a file: what each row refers to, an account (or person) and a check
  Scope,      \* customer the uploader belongs to, None for the bank's own staff
  CreateMissing, \* create_missing_accounts as ticked for a file
  References, \* what may be written as an account: numbers and customers' own ids
  OnFile,     \* accounts there from the start: reference -> whose, or Absent
  Workers,
  MaxFaults,  \* bound on crashes and rows of a back-out that raise
  MaxByHand,  \* bound on what is typed in or sent in batches, and on changes of what was created
  None, Absent

Kinds == {"issued_items", "paid_items", "check_images", "ach_transactions", "accounts", "users",
          "fraud_training_examples"}

Owners == {None} \cup {Scope[f] : f \in Files}
Rows == UNION {{<<f, i>> : i \in 1..Len(Lines[f])} : f \in Files}

\* A file without rows is refused.
ASSUME UploadsAssumption ==
  /\ IsFiniteSet(Files)
  /\ \A f \in Files : /\ Lines[f] \in Seq([ref : References, check : Nat, alias : References \cup {None}])
                      /\ Lines[f] # <<>>
  /\ CreateMissing \in [Files -> BOOLEAN] /\ KindsOf \in [Files -> SUBSET Kinds]
  /\ OnFile \in [References -> Owners \cup {Absent}]
  /\ None \notin References \cup Rows /\ Absent \notin Owners \cup Kinds
  /\ MaxFaults \in Nat /\ MaxByHand \in Nat

\* What a row created: its status, the account it is on, and of a paid item the
\* issued item it was matched with, whether it waits in the exception queue, and
\* the status it had when an image of it put it there although it was matched.
Created == [status: {"absent", "outstanding", "paid", "voided", "pending", "returned", "reversed",
                     "active", "inactive", "kept"},
            on: References \cup {None}, issued: Rows \cup {None}, open: BOOLEAN,
            escalated: {"no", "paid", "reversed"}]

VARIABLES
  kind,     \* of a recorded upload, Absent before
  owner,    \* account number -> its customer
  alias,    \* account number -> external_account_id
  created,
  counted,  \* uploads whose counts are set
  tracked,  \* rows with a bulk_upload_created_record
  reversed, \* rows whose records have reversed_at, an image's with its item's
  undone,   \* uploads with backed_out_at
  work,
  passed,   \* history: rows a back-out passed over: final when it came to them, or failing
  overlap, faults, byHand \* history

vars == <<kind, owner, alias, created, counted, tracked, reversed, undone, work, passed, overlap, faults, byHand>>
accounts == <<owner, alias>>
records == <<counted, tracked, reversed, undone>>
history == <<passed, overlap, faults, byHand>>

Idle == [at |-> "idle", file |-> None, next |-> 0, todo |-> <<>>, check |-> "absent"]
NoRow == [status |-> "absent", on |-> None, issued |-> None, open |-> FALSE, escalated |-> "no"]

TypeOK ==
  /\ kind \in [Files -> Kinds \cup {Absent}]
  /\ owner \in [References -> Owners \cup {Absent}]
  /\ alias \in [References -> References \cup {None}]
  /\ created \in [Rows -> Created]
  /\ counted \subseteq Files /\ undone \subseteq counted
  /\ tracked \subseteq Rows
  /\ reversed \subseteq tracked /\ passed \subseteq Rows
  /\ \A w \in Workers : work[w].at \in {"idle", "rows", "batch", "undoing", "decided"}
  /\ overlap \in BOOLEAN /\ faults \in 0..MaxFaults /\ byHand \in 0..MaxByHand

Init ==
  /\ kind = [f \in Files |-> Absent]
  /\ owner = OnFile
  /\ alias = [n \in References |-> None]
  /\ created = [r \in Rows |-> NoRow]
  /\ counted = {} /\ tracked = {} /\ reversed = {} /\ undone = {} /\ passed = {}
  /\ work = [w \in Workers |-> Idle]
  /\ overlap = FALSE /\ faults = 0 /\ byHand = 0

-----------------------------------------------------------------------------
(* Accounts.                                                               *)

\* What a query narrowed to a customer finds: a customer's own, all for the bank's staff.
Visible(n, scope) == owner[n] # Absent /\ (scope = None \/ owner[n] = scope)

\* A mutant: the external id is looked up first.
AccountByNumber_AliasFirst(ref, scope) ==
  LET aliased == {n \in References : Visible(n, scope) /\ alias[n] = ref} IN
  IF aliased # {} THEN aliased ELSE {n \in {ref} : Visible(n, scope)}

\* The account a reference means to an uploader, as a set of at most one: the one of
\* that number, or else the one with that external id.
AccountByNumber(ref, scope) ==
  IF Visible(ref, scope) THEN {ref}
  ELSE {n \in References : Visible(n, scope) /\ alias[n] = ref}

\* Whose an account may be that an uploader's row names: the bank's staff say whose.
Names(f) == IF Scope[f] = None THEN Owners ELSE {Scope[f]}

\* The account of a row, opened on the way when that was asked for; a number that
\* another customer has breaks the unique constraint, and the row fails.
OnAccount(f, ref, may, n) ==
  LET found == AccountByNumber(ref, Scope[f]) IN
  \/ /\ n \in found
     /\ UNCHANGED owner
  \/ /\ found = {} /\ may /\ CreateMissing[f] /\ n = ref /\ owner[n] = Absent
     /\ owner' = [owner EXCEPT ![n] = Scope[f]]

Unresolved(f, ref, may) ==
  /\ AccountByNumber(ref, Scope[f]) = {}
  /\ may /\ CreateMissing[f] => owner[ref] # Absent

-----------------------------------------------------------------------------
(* The rows of a file.                                                     *)

Busy == {w \in Workers : work[w].at # "idle"}
Meets(w) == overlap' = (overlap \/ Busy \ {w} # {})
Here(w) == <<work[w].file, work[w].next>>
Line(w) == Lines[work[w].file][work[w].next]
AtRow(w, k) == work[w].at = "rows" /\ kind[work[w].file] = k /\ work[w].next <= Len(Lines[work[w].file])
Onward(w) == work' = [work EXCEPT ![w].next = @ + 1]

\* A row that fails is rolled back, whatever it had opened with it.
RowFails(w) ==
  /\ Onward(w)
  /\ UNCHANGED <<kind, accounts, created, records, history>>

RowCreates(w, row) ==
  /\ created' = [created EXCEPT ![Here(w)] = row]
  /\ Onward(w)
  /\ UNCHANGED <<kind, alias, records, history>>

Issues(n, c) == {r \in Rows : kind[r[1]] = "issued_items" /\ created[r].status # "absent"
                              /\ created[r].on = n /\ Lines[r[1]][r[2]].check = c}

IssuedItemRow(w) ==
  /\ AtRow(w, "issued_items")
  /\ \/ \E n \in References :
          /\ OnAccount(work[w].file, Line(w).ref, TRUE, n)
          /\ Issues(n, Line(w).check) = {}
          /\ RowCreates(w, [NoRow EXCEPT !.status = "outstanding", !.on = n])
     \/ /\ \/ Unresolved(work[w].file, Line(w).ref, TRUE)
           \/ \E n \in AccountByNumber(Line(w).ref, Scope[work[w].file]) : Issues(n, Line(w).check) # {}
        /\ RowFails(w)

Payments(n, c) == {r \in Rows : kind[r[1]] \in {"paid_items", "check_images"} /\ created[r].on = n
                                /\ Lines[r[1]][r[2]].check = c}

\* A presented item is matched with an issue of its number and amount that is not void,
\* unless it has been paid already; whether the amounts agree is left open.
Presented(q, c, n) ==
  \/ \E r \in Issues(n, c) :
       /\ created[r].status # "voided"
       /\ \A p \in Payments(n, c) : created[p].status # "paid"
       /\ created' = [created EXCEPT ![r].status = "paid",
            ![q] = [NoRow EXCEPT !.status = "paid", !.on = n, !.issued = r]]
  \/ created' = [created EXCEPT ![q] = [NoRow EXCEPT !.status = "pending", !.on = n, !.open = TRUE]]

PresentedRow(w, may) ==
  \/ \E n \in References :
       /\ OnAccount(work[w].file, Line(w).ref, may, n)
       /\ Presented(Here(w), Line(w).check, n)
       /\ Onward(w)
       /\ UNCHANGED <<kind, alias, records, history>>
  \/ Unresolved(work[w].file, Line(w).ref, may) /\ RowFails(w)

PaidItemRow(w) == AtRow(w, "paid_items") /\ PresentedRow(w, TRUE)

\* Neither format with images opens accounts; an image may be missing or unreadable.
CheckImageRow(w) == AtRow(w, "check_images") /\ (PresentedRow(w, FALSE) \/ RowFails(w))

AchRow(w) ==
  /\ AtRow(w, "ach_transactions")
  /\ \/ \E n \in References :
          /\ OnAccount(work[w].file, Line(w).ref, TRUE, n)
          /\ RowCreates(w, [NoRow EXCEPT !.status = "kept", !.on = n])
     \/ Unresolved(work[w].file, Line(w).ref, TRUE) /\ RowFails(w)

\* An example is a transaction of its own, on an account that is there.
ExampleRow(w) ==
  /\ AtRow(w, "fraud_training_examples")
  /\ \/ \E n \in AccountByNumber(Line(w).ref, Scope[work[w].file]) :
          /\ RowCreates(w, [NoRow EXCEPT !.status = "kept", !.on = n])
          /\ UNCHANGED owner
     \/ Unresolved(work[w].file, Line(w).ref, FALSE) /\ RowFails(w)

\* Number and external id are unique in a bank, each among its own kind.
Free(n, a) == owner[n] = Absent /\ (a # None => \A m \in References : alias[m] # a)

\* A row may fail besides, by naming a customer that is not there, or another than the
\* uploader's own.
AccountRow(w) ==
  /\ AtRow(w, "accounts")
  /\ LET n == Line(w).ref
     IN \/ /\ Free(n, Line(w).alias)
           /\ \E c \in Names(work[w].file) : owner' = [owner EXCEPT ![n] = c]
           /\ alias' = [alias EXCEPT ![n] = Line(w).alias]
           /\ created' = [created EXCEPT ![Here(w)] = [NoRow EXCEPT !.status = "kept", !.on = n]]
           /\ Onward(w)
           /\ UNCHANGED <<kind, records, history>>
        \/ RowFails(w)

\* A person who is a member already stays one, and the row has created nothing.
UserRow(w) ==
  /\ AtRow(w, "users")
  /\ LET members == {r \in Rows : created[r].status \in {"active", "inactive"}
                                  /\ Lines[r[1]][r[2]].check = Line(w).check}
     IN \/ members = {} /\ RowCreates(w, [NoRow EXCEPT !.status = "active"]) /\ UNCHANGED owner
        \/ members # {} /\ RowFails(w)

-----------------------------------------------------------------------------
(* A handler.                                                              *)

\* The file is recorded and committed before it is parsed.
RecordUploadedFile(w, f, k) ==
  /\ work[w].at = "idle" /\ kind[f] = Absent /\ k \in KindsOf[f]
  /\ kind' = [kind EXCEPT ![f] = k]
  /\ Meets(w)
  /\ UNCHANGED <<accounts, created, records, passed, faults, byHand>>

Receive(w, k) == \E f \in Files :
  /\ RecordUploadedFile(w, f, k)
  /\ work' = [work EXCEPT ![w] = [Idle EXCEPT !.at = "rows", !.file = f, !.next = 1]]

\* A file that cannot be parsed, or has no rows, is kept as evidence only.
Refuse(w, k) == \E f \in Files :
  /\ RecordUploadedFile(w, f, k)
  /\ UNCHANGED work

Made(f) == {r \in Rows : r[1] = f /\ created[r].status # "absent"}

\* A mutant: the rows of a file are tracked by their labels, failed ones included.
TrackCreatedRecords_ByLabel(w) ==
  tracked' = tracked \cup {r \in Rows : r[1] = work[w].file}

TrackCreatedRecords(w) ==
  tracked' = tracked \cup
    IF kind[work[w].file] = "fraud_training_examples" THEN {} ELSE Made(work[w].file)

\* Records of the created rows and the counts, in one transaction after the last row.
Finish(w, k) ==
  /\ work[w].at = "rows" /\ kind[work[w].file] = k /\ work[w].next > Len(Lines[work[w].file])
  /\ TrackCreatedRecords(w)
  /\ counted' = counted \cup {work[w].file}
  /\ work' = [work EXCEPT ![w] = Idle]
  /\ UNCHANGED <<kind, accounts, created, reversed, undone, history>>

UploadIssuedItems(w) == Receive(w, "issued_items") \/ IssuedItemRow(w) \/ Finish(w, "issued_items")
UploadPaidItems(w) == Receive(w, "paid_items") \/ PaidItemRow(w) \/ Finish(w, "paid_items")
UploadCheckImages(w) == Receive(w, "check_images") \/ CheckImageRow(w) \/ Finish(w, "check_images")
UploadTransactions(w) == Receive(w, "ach_transactions") \/ AchRow(w) \/ Finish(w, "ach_transactions")
UploadAccounts(w) == Receive(w, "accounts") \/ AccountRow(w) \/ Finish(w, "accounts")
UploadUsers(w) == Receive(w, "users") \/ UserRow(w) \/ Finish(w, "users")
UploadExamples(w) ==
  Receive(w, "fraud_training_examples") \/ ExampleRow(w) \/ Finish(w, "fraud_training_examples")

-----------------------------------------------------------------------------
(* Backing an upload out.                                                  *)

\* The kinds _PERMISSION_BY_KIND names; the handler raises for the others.
Permitted == Kinds \ {"paid_items", "fraud_training_examples"}

OfFile(f) == {r \in tracked : r[1] = f}

\* Row by row, in whatever order the query finds them.
BackOutUpload(w, f) ==
  /\ work[w].at = "idle"
  /\ kind[f] \in Permitted /\ f \notin undone /\ OfFile(f) # {}
  /\ \E rows \in SetToSeqs(OfFile(f)) :
       work' = [work EXCEPT ![w] = [Idle EXCEPT !.at = "undoing", !.file = f, !.next = 1, !.todo = rows]]
  /\ Meets(w)
  /\ UNCHANGED <<kind, accounts, created, records, passed, faults, byHand>>

\* What is void, inactive or reversed already stays so, and so does a check that was
\* paid and a payment that was returned.
Final(r) ==
  \/ created[r].status \in {"voided", "inactive", "reversed", "returned"}
  \/ kind[r[1]] = "issued_items" /\ created[r].status = "paid"

Undoing(w, r) == work[w].at = "undoing" /\ work[w].next <= Len(work[w].todo) /\ r = work[w].todo[work[w].next]

PassedOver(r) == passed' = passed \cup {r} /\ UNCHANGED <<overlap, faults, byHand>>

\* A mutant: a row that is refused ends the loop.
RefuseRow_Ends(w, r) ==
  /\ Undoing(w, r) /\ Final(r)
  /\ work' = [work EXCEPT ![w].next = Len(work[w].todo) + 1]
  /\ PassedOver(r)
  /\ UNCHANGED <<kind, accounts, created, records>>

RefuseRow(w, r) ==
  /\ Undoing(w, r) /\ Final(r)
  /\ Onward(w)
  /\ PassedOver(r)
  /\ UNCHANGED <<kind, accounts, created, records>>

\* An item in exception, escalated ones included, does not look at its check.
Matched(r) == created[r].issued # None /\ created[r].escalated = "no"

ReadRow(w, r) ==
  /\ Undoing(w, r) /\ ~Final(r)
  /\ work' = [work EXCEPT ![w].at = "decided",
       ![w].check = IF Matched(r) THEN created[created[r].issued].status ELSE "absent"]
  /\ UNCHANGED <<kind, accounts, created, records, history>>

\* A mutant: the payment is reversed and its check stays paid.
Undone_KeepsCheck(r, check) ==
  [created EXCEPT ![r].open = @ /\ check # "absent",
     ![r].status = CASE kind[r[1]] = "issued_items" -> "voided"
                     [] kind[r[1]] = "users" -> "inactive"
                     [] kind[r[1]] = "check_images" -> "reversed"
                     [] OTHER -> @]

\* What undoing a row leaves behind: a payment that was matched when it was read gives
\* its check back, if that was paid then, another withdraws its exception (a decided one
\* stays, and the payment is reversed all the same); accounts and ACH transactions stay.
Undone(r, check) ==
  [q \in Rows |->
     IF q = r
     THEN [created[r] EXCEPT !.open = @ /\ check # "absent",
            !.status = CASE kind[r[1]] = "issued_items" -> "voided"
                         [] kind[r[1]] = "users" -> "inactive"
                         [] kind[r[1]] = "check_images" -> "reversed"
                         [] OTHER -> @]
     ELSE IF check = "paid" /\ q = created[r].issued THEN [created[q] EXCEPT !.status = "outstanding"]
     ELSE created[q]]

CommitRow(w, r) ==
  /\ work[w].at = "decided" /\ r = work[w].todo[work[w].next]
  /\ created' = Undone(r, work[w].check)
  /\ reversed' = reversed \cup {r}
  /\ work' = [work EXCEPT ![w].at = "undoing", ![w].next = @ + 1, ![w].check = "absent"]
  /\ UNCHANGED <<kind, accounts, counted, tracked, undone, history>>

EndBackOut(w) ==
  /\ work[w].at = "undoing" /\ work[w].next > Len(work[w].todo)
  /\ undone' = undone \cup {work[w].file}
  /\ work' = [work EXCEPT ![w] = Idle]
  /\ UNCHANGED <<kind, accounts, created, counted, tracked, reversed, history>>

\* A row that raises is rolled back and the loop goes on.
RowRaises(w) ==
  /\ work[w].at = "decided" /\ faults < MaxFaults
  /\ faults' = faults + 1
  /\ passed' = passed \cup {work[w].todo[work[w].next]}
  /\ work' = [work EXCEPT ![w].at = "undoing", ![w].next = @ + 1, ![w].check = "absent"]
  /\ UNCHANGED <<kind, accounts, created, records, overlap, byHand>>

BackOut(w) ==
  \/ \E f \in Files : BackOutUpload(w, f)
  \/ \E r \in Rows : RefuseRow(w, r) \/ ReadRow(w, r) \/ CommitRow(w, r)
  \/ EndBackOut(w)

-----------------------------------------------------------------------------
(* One item at a time: what a file never submitted says in its first line, *)
(* typed into a form instead.  The account is chosen from a list, and no   *)
(* upload record is kept, so nothing of it can be backed out.              *)

Typed(f, k) ==
  /\ kind[f] = Absent /\ k \in KindsOf[f]
  /\ kind' = [kind EXCEPT ![f] = k]
  /\ byHand < MaxByHand /\ byHand' = byHand + 1
  /\ overlap' = (overlap \/ Busy # {})
  /\ UNCHANGED <<records, work, passed, faults>>

Listed(f) == {n \in References : Visible(n, Scope[f])}
Keeps(f, n) == created' = [created EXCEPT ![<<f, 1>>] = [NoRow EXCEPT !.status = "kept", !.on = n]]

CreateIssuedItem(f) ==
  /\ Typed(f, "issued_items")
  /\ \E n \in Listed(f) :
       /\ Issues(n, Lines[f][1].check) = {}
       /\ created' = [created EXCEPT ![<<f, 1>>] = [NoRow EXCEPT !.status = "outstanding", !.on = n]]
  /\ UNCHANGED accounts

CreatePaidItem(f) ==
  /\ Typed(f, "paid_items")
  /\ \E n \in Listed(f) : Presented(<<f, 1>>, Lines[f][1].check, n)
  /\ UNCHANGED accounts

CreateTransaction(f) ==
  /\ Typed(f, "ach_transactions")
  /\ \E n \in Listed(f) : Keeps(f, n)
  /\ UNCHANGED accounts

\* A customer's user opens accounts of that customer, the bank's staff anybody's.
CreateAccount(f) ==
  /\ Typed(f, "accounts")
  /\ LET line == Lines[f][1] IN
     /\ Free(line.ref, line.alias)
     /\ \E c \in Names(f) : owner' = [owner EXCEPT ![line.ref] = c]
     /\ alias' = [alias EXCEPT ![line.ref] = line.alias]
     /\ Keeps(f, line.ref)

\* An example that is not about an item already there.
SubmitExample(f) ==
  /\ Typed(f, "fraud_training_examples")
  /\ \E n \in Listed(f) : Keeps(f, n)
  /\ UNCHANGED accounts

ByForm == \E f \in Files :
  \/ CreateIssuedItem(f) \/ CreatePaidItem(f) \/ CreateTransaction(f)
  \/ CreateAccount(f) \/ SubmitExample(f)

-----------------------------------------------------------------------------
(* Batches of the API: rows as those of a file, which name their account by *)
(* its id, each its own transaction, and again no upload record.            *)

Submit(w, k) == \E f \in Files :
  /\ work[w].at = "idle" /\ kind[f] = Absent /\ k \in KindsOf[f]
  /\ kind' = [kind EXCEPT ![f] = k]
  /\ byHand < MaxByHand /\ byHand' = byHand + 1
  /\ work' = [work EXCEPT ![w] = [Idle EXCEPT !.at = "batch", !.file = f, !.next = 1]]
  /\ Meets(w)
  /\ UNCHANGED <<accounts, created, records, passed, faults>>

\* Row of a batch on account n; one whose account is another's, or not there, fails.
InBatch(w, k, n) ==
  /\ work[w].at = "batch" /\ kind[work[w].file] = k /\ work[w].next <= Len(Lines[work[w].file])
  /\ n \in Listed(work[w].file)

BatchRowFails(w) == work[w].at = "batch" /\ work[w].next <= Len(Lines[work[w].file]) /\ RowFails(w)

EndBatch(w) ==
  /\ work[w].at = "batch" /\ work[w].next > Len(Lines[work[w].file])
  /\ work' = [work EXCEPT ![w] = Idle]
  /\ UNCHANGED <<kind, accounts, created, records, history>>

CreateIssuedItemsBulk(w) ==
  \/ Submit(w, "issued_items")
  \/ \E n \in References :
       /\ InBatch(w, "issued_items", n) /\ Issues(n, Line(w).check) = {}
       /\ RowCreates(w, [NoRow EXCEPT !.status = "outstanding", !.on = n])
       /\ UNCHANGED owner

CreatePaidItemsBulk(w) ==
  \/ Submit(w, "paid_items")
  \/ \E n \in References :
       /\ InBatch(w, "paid_items", n) /\ Presented(Here(w), Line(w).check, n)
       /\ Onward(w)
       /\ UNCHANGED <<kind, accounts, records, history>>

CreateTransactionsBulk(w) ==
  \/ Submit(w, "ach_transactions")
  \/ \E n \in References :
       /\ InBatch(w, "ach_transactions", n)
       /\ RowCreates(w, [NoRow EXCEPT !.status = "kept", !.on = n])
       /\ UNCHANGED owner

\* Those about an item already there are LabelAsFraud's.
CreateExamplesBulk(w) ==
  \/ Submit(w, "fraud_training_examples")
  \/ \E n \in References :
       /\ InBatch(w, "fraud_training_examples", n)
       /\ RowCreates(w, [NoRow EXCEPT !.status = "kept", !.on = n])
       /\ UNCHANGED owner

ByApi(w) ==
  \/ CreateIssuedItemsBulk(w) \/ CreatePaidItemsBulk(w)
  \/ CreateTransactionsBulk(w) \/ CreateExamplesBulk(w)
  \/ BatchRowFails(w) \/ EndBatch(w)

-----------------------------------------------------------------------------
(* The surroundings.                                                       *)

\* The process stops: the records of rows committed so far are never made.
Crash(w) ==
  /\ work[w].at # "idle" /\ faults < MaxFaults
  /\ faults' = faults + 1
  /\ work' = [work EXCEPT ![w] = Idle]
  /\ UNCHANGED <<kind, accounts, created, records, passed, overlap, byHand>>

\* One row changed by a request or a task of its own.
ByHand(r, row) ==
  /\ byHand < MaxByHand /\ byHand' = byHand + 1
  /\ created' = [created EXCEPT ![r] = row]
  /\ overlap' = (overlap \/ Busy # {})
  /\ UNCHANGED <<kind, accounts, records, work, passed, faults>>

\* An image of a matched item has been read, in a task of the background that its upload
\* or a request to read it again has started, and matching, run again, finds something
\* (what, is left open).  An item that has an exception, a label's included, keeps it.
EscalateAfterOcr(r) ==
  /\ Matched(r) /\ created[r].status # "returned"
  /\ ByHand(r, [created[r] EXCEPT !.open = TRUE, !.escalated = created[r].status])

\* Whatever the status.
VoidIssuedItem(r) ==
  /\ kind[r[1]] = "issued_items" /\ created[r].status # "absent"
  /\ ByHand(r, [created[r] EXCEPT !.status = "voided"])

\* Whatever the settlement.
LabelAsFraud(r) ==
  /\ created[r].status # "absent" /\ kind[r[1]] \in {"paid_items", "check_images"}
  /\ ByHand(r, [created[r] EXCEPT !.status = "returned"])

DecideException(r) ==
  /\ created[r].open
  /\ ByHand(r, [created[r] EXCEPT !.open = FALSE])

SetMembership(r) ==
  /\ created[r].status \in {"active", "inactive"}
  /\ ByHand(r, [created[r] EXCEPT !.status = IF @ = "active" THEN "inactive" ELSE "active"])

Next ==
  \/ \E w \in Workers :
       \/ UploadIssuedItems(w) \/ UploadPaidItems(w) \/ UploadCheckImages(w) \/ UploadTransactions(w)
       \/ UploadAccounts(w) \/ UploadUsers(w) \/ UploadExamples(w)
       \/ \E k \in Kinds : Refuse(w, k)
       \/ BackOut(w) \/ RowRaises(w) \/ ByApi(w) \/ Crash(w)
  \/ ByForm
  \/ \E r \in Rows : VoidIssuedItem(r) \/ LabelAsFraud(r) \/ DecideException(r) \/ SetMembership(r)
                     \/ EscalateAfterOcr(r)

Spec == Init /\ [][Next]_vars

-----------------------------------------------------------------------------
(* Properties.                                                             *)

\* Once the counts of an upload are there, so is a record of every row it created and of
\* no other: what can be backed out is what was loaded (the routers' last commit).
RowsAreTracked ==
  \A f \in counted : kind[f] # "fraud_training_examples" => OfFile(f) = Made(f)

\* What a customer's file loads is on the customer's own accounts, whatever it refers to
\* and whatever it opens on the way.
ScopeIsKept ==
  \A r \in Rows : Scope[r[1]] # None /\ created[r].on # None => owner[created[r].on] = Scope[r[1]]

\* Types, what an upload's records say, and whose accounts its rows are on.
UploadsAgree == TypeOK /\ RowsAreTracked /\ ScopeIsKept

\* A payment for which its check stays paid: it stands, was returned, or was backed out
\* after OCR had escalated it, when the back-out no longer looks at the check.
Covers(q) ==
  \/ created[q].status \in {"paid", "returned"}
  \/ created[q].status = "reversed" /\ created[q].escalated = "paid"

\* A payment that was backed out never stands again.  And as long as requests and tasks
\* do not overlap, however files of issued and of presented checks are loaded and backed
\* out: a check is paid only if a payment of it stands or was returned, or OCR had put
\* it in exception before it was backed out; a payment that stands is of a check that is
\* paid or was voided by hand; there is one at most; and nothing reversed waits for a
\* decision, but what OCR has escalated since.
PaidAsPresented ==
  /\ \A q \in reversed : kind[q[1]] = "check_images" => created[q].status \in {"reversed", "returned"}
  /\ ~overlap =>
       /\ \A r \in Rows : kind[r[1]] = "issued_items" /\ created[r].status = "paid" =>
            \E q \in Rows : created[q].issued = r /\ Covers(q)
       /\ \A q \in Rows : created[q].issued # None /\ created[q].status = "paid" =>
            /\ created[created[q].issued].status \in {"paid", "voided"}
            /\ \A p \in Rows \ {q} : created[p].issued = created[q].issued => created[p].status # "paid"
       /\ \A q \in Rows : created[q].status = "reversed" /\ created[q].open =>
            created[q].escalated = "reversed"

\* Whatever interrupts a back-out, overlaps it or has been changed since: an upload is
\* marked as backed out only when each of its records has been undone or was looked at
\* and could not be (it was final then, or failed).
BackOutIsThorough ==
  [][\A f \in undone' \ undone : OfFile(f) \subseteq reversed \cup passed]_vars

\* An account number that has a meaning to an uploader keeps it: no external id that is
\* given out later takes its place (the docstring of get_account_by_number).
NumberWins ==
  [][\A n \in References, f \in Files :
       Visible(n, Scope[f]) => AccountByNumber(n, Scope[f])' = AccountByNumber(n, Scope[f])]_vars
=============================================================================
