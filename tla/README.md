# PosPay in TLA+

PosPay is positive pay for banks: it matches presented checks and ACH
transactions against what the account holder issued or authorised, puts what
does not match in a review queue, lets people (or a deadline) decide PAY or
RETURN, and learns from those decisions. It is a Python web application over
one SQL database, with a scheduler thread that runs periodic jobs. This
directory models its logic, checks it with TLC and proves its safety properties with
TLAPS.

Paths below are relative to `src/src/pospay/` unless they start with `src/`.

## How the system runs, and what that means for a model

* A web or API request has a session of its own (`db/session.py`), reads rows,
  checks its guards **on those copies**, assigns attributes and commits once.
  A bulk job commits once per row.
* No row has a version column, nothing is read `FOR UPDATE`, and the databases
  run at READ COMMITTED or its like. So between a request's reads and its
  commit any other request may commit. The ORM then writes only the attributes
  whose value differs from the one it loaded; the others keep whatever the other
  request left there.
* A few unique constraints do hold: one decision per exception, one issued item
  per account and check number.
* The scheduler's jobs run in process, one holder at a time on PostgreSQL
  (`workers/leader_lock.py`), and may be cut off by a restart between any two
  commits.

How finely a module cuts a request depends on what it is about:

* where two requests race for one row (`ExceptionReview`, `CheckClearing`,
  `AchDebits`, training in `Models`), a request is two actions: `Load…` or
  `Evaluate` (the reads and every guard) and `Commit…` or `Ingest` (the writes,
  in one database transaction), with `Rollback` or `Reject` for one that fails;
* where a handler commits several times (`Uploads`, the bulk loads of
  `Entitlements`, everything in `ScheduledJobs`), each commit is a step and the
  handler may be broken off between any two;
* where single requests run to their end before the next one (`SignIn`, the pages
  of `Entitlements`), a request is one action. What that leaves out is under
  *Abstractions*.

In `ExceptionReview` and `CheckClearing` the constant `Serial` closes the gap
between the two halves: with `Serial = TRUE` nothing starts while something is in
flight, which is the behaviour the handlers are written for.

## Inventory

| Component | State it keeps | Operations | What is hard | What makes it correct | Module |
|---|---|---|---|---|---|
| Exception review queue (`services/decision_service.py`) | `exception_item`, `decision` | recommend, decide | stale copies, partial column writes, dual control | four eyes, a status backed by a decision, decisions final | `ExceptionReview` |
| Deadline sweep (`workers/tasks.py`, `services/auto_disposition_service.py`) | deadlines, disposition settings | set setting, sweep | one commit per row, its own failure path, restarts, liveness | only due exceptions are decided; every due one leaves the queue | `ExceptionReview` |
| ACH return reasons, fraud labels (`services/fraud_training_service.py`) | catalog, training exceptions | (de)activate, label, retract | check-then-insert, settlement written by labels too | an ACH return is settled; one active label | `ExceptionReview`, `CheckClearing` |
| Issue file, stop payments | `issued_item`, `stop_payment` | issue, void, stop, cancel | written by matching and back-out too | a void is final, paid is not outstanding | `CheckClearing` |
| Check matching (`networks/check/`) | `paid_item` | ingest (single, bulk) | duplicate test before commit | paid once, as issued | `CheckClearing` |
| Check images and OCR (`networks/check/ocr_processing.py`) | `check_image`, `paid_item`, exceptions | upload, reprocess, complete, fail, match again | second transaction, loss in between, two results at once | an exception row exactly when in exception | `CheckClearing` |
| Bulk uploads (`web/routers/*`, `services/bulk_upload_*`, `services/account_service.py`) | uploads, records of what they created, accounts | upload of seven kinds, typed items, API batches, back out | one commit per row and one for the records, undo of what others, OCR among them, changed since, references that resolve by scope | records agree with rows, a back-out leaves no record unseen | `Uploads` |
| ACH matching and WSUD (`networks/ach/`, `services/wsud_service.py`) | authorizations, transactions, statements | authorise, revoke, block, submit, decide, label, sign | choice among authorizations, trailing counts, overlap, labels on what was paid | limits hold, settlements are explained, statements stay true | `AchDebits` |
| Bulk file parsers (`bulk_import/`) | totals, the open batch, the current check | NACHA and X9.37 records | control totals per level, images that follow their check | accepted files agree with their controls | `BulkFiles` |
| Notifications, scheduler, drop-box, exports, demo bank (`workers/`, `services/`) | queue rows, advisory lock, files, job rows, the demo's tables | dispatch, scan, build, reset | crash between send and commit, lost lock, half a reset | no row twice, everything ends | `ScheduledJobs` |
| Models (`ml/`, `services/tenant_ml_service.py`) | `ml_model`, the bank's choice | label, train, promote, activate, switch, score | minutes between read and commit, banks that leave meanwhile | one active model per slot, data only as pooled when it was read | `Models` |
| Sessions and login (`auth/`, `services/session_service.py`) | token versions, revocations, counters | sign in, renew, switch, sign out, change | pruning, settings that move, tokens that outlive things | signed out is for good, ending everything ends all | `SignIn` |
| Users, groups, SSO (`services/user_service.py`, `sso_service.py`) | memberships, groups, connections | add, confirm, move, load, federate | NULLs in a unique key, bulk loads overlapped by requests | one membership per scope, foreigners confirmed | `Entitlements` |
| Tenants, customers, provisioning | settings | edit | - | read by the components above | parts in `ExceptionReview`, `SignIn`, `Entitlements` |
| Audit log | hash chain | append, verify | concurrent appends | chain verifies | not modelled |
| OCR and delivery providers, UI, API plumbing | - | - | - | - | surroundings, or not modelled |

Interactions: matching, OCR and labelling create exceptions; the queue, the
sweep and labels settle ACH transactions; matching, voids and back-outs write
the issue file; back-outs withdraw exceptions; decisions and labels feed
training; nearly every handler appends to the audit log and queues notifications
in its own transaction.

`PROJECT.json` lists every component with its status and every hazard at its
line, with the property that covers it or the reason none does.

## Modules

| Module | What it is |
|---|---|
| `ExceptionLifecycle` | abstract: one item's life in the queue - raised once, closed exactly once |
| `ExceptionReview` | the queue, its four kinds of writer and the sweep |
| `ExceptionReviewProofs` | theorems about `ExceptionReview` |
| `CheckPayments` | abstract: at most one payment of a check stands, an undone one stays undone |
| `CheckClearing` | issue file, stops, matching, images and OCR, back-out and labels of checks |
| `AchDebits` | authorizations, matching of ACH entries, statements over what was returned |
| `Uploads` | files, typed items and batches, the accounts they name, back-out |
| `BulkFiles` | the two record formats a file may have, read record by record |
| `ScheduledJobs` | what several instances do behind the requests |
| `Models` | registry, training, activation and scoring of fraud models |
| `SignIn` | one person's sessions over several organizations |
| `Entitlements` | who may do what in one bank |
| `CheckClearingProofs`, `UploadsProofs`, `ScheduledJobsProofs`, `ModelsProofs`, `SignInProofs`, `EntitlementsProofs` | theorems about the module each is named for |
| `IncomingProofs` | theorems about what comes in, files and ACH entries: `BulkFiles` and `AchDebits` |
| `MC…` | instances of these for TLC: values for the constants and symmetry, no definition of the system |

Definitions with an underscore (`Close_Twice`) are faulty variants of the
definition before the underscore. Nothing in a specification uses them; they
show, put in its place, that a property notices the fault.

### ExceptionReview and the code

| Variable | Code |
|---|---|
| `exc` | `exception_item.status`, `recommended_by_user_id`, `recommended_outcome` |
| `deadline` | `decision_deadline` against the clock: none, still running, passed |
| `decision` | the `decision` row of an exception, or `None` |
| `settlement` | `settlement_status` of the check or ACH transaction |
| `labels` | training-backfill exceptions of the item: all, and not retracted |
| `dualControl`, `disposition`, `activeReasons` | the tenant's flag, the customer's setting per network, the catalog |
| `request` | per session, the request in flight and the copies it loaded |
| `sweep`, `restarts` | rows the running sweep still has to handle; worker restarts |
| `proposed` | history only: who recommended what |

| Action | Code |
|---|---|
| `Ingest`, `EscalateAfterOcr` | exceptions raised by matching, and by OCR on an item already settled (no deadline) |
| `LoadRecommend` / `CommitRecommend` | `submit_recommendation` |
| `LoadDecide` / `CommitDecide` | `decide`; `Close` is what it shares with the sweep: insert the decision, set the status, settle an ACH return. The unique constraint is `Close`'s first conjunct; a violation is `Rollback` |
| `LoadBackOut` / `CommitBackOut` | `_back_out_paid_item`, `_withdraw_exception_if_open` |
| `LoadLabel` / `CommitLabel`, `RetractLabel` | `submit_…_fraud_example`, `retract_fraud_example` |
| `BeginSweep` | the sweep's query |
| `SweepDecide`, `SweepSkip`, `SweepAbort` | one row of the sweep: decided and committed; left for the next time; the insert fails and the error path ends the pass |
| `RestartWorker` | the process stops between two commits |
| `SetDualControl`, `SetDisposition`, `SetReasonActive` | administration |

`Flush(stored, loaded, edited)` is the ORM's rule: an attribute is written only
where the edited copy differs from the loaded one.

`SweepAbort` deserves a word. When the insert of a decision fails, SQLAlchemy
marks the transaction inactive and expires the session's rows. The handler's
first statement logs `exception_item.id`, which has to reload an expired
row on that session and raises again, out of the `except` block, before
`session.rollback()` on the next line is reached.

### CheckClearing and the code

| Variable | Code |
|---|---|
| `issued`, `stops` | `issued_item`: status and amount per check number; active stop payments |
| `paid` | `paid_item`: number, amount, match and settlement status, link to the issued item; `stale` is the outcome of the date comparison |
| `exceptions`, `labels` | live and training exception rows per item |
| `ocr`, `reading`, `pending` | images that were read, by the payee they show; OCR under way; read and not matched again yet |
| `asked` | history, bounds the readings |
| `request` | per session, the findings and copies a request read |

`Issue`, `Void`, `CreateStop` and `CancelStop` test nothing another request could
change in between and are one action each. `LoadIngest`/`CommitIngest` are
`ingest_paid_item`; `Findings` is `evaluate_check_rules` with its order and its
two short-circuits over `Candidate` and `Stopped`, the adapter's queries.
`UploadImage` and `ReprocessImage` are the two handlers of
`api/v1/check_images.py`; `CompleteOcr` and `FailOcr` the background task's first
transaction, `LoadReevaluate`/`CommitReevaluate` its second,
`LoseReevaluation` the process stopping in between. Back-out and label are the
same handlers as in `ExceptionReview`, seen from the check's side: there what
happens to an exception once it is raised, here the money.

### Uploads and the code

`kind`, `counted`, `undone` are the columns of `bulk_upload_file`; `tracked` and
`reversed` the `bulk_upload_created_record` rows; `owner` and `alias` the
accounts; `created` what each row of a file made, seen through the few columns a
back-out reads. `work` is where a handler is in its loop. `passed`, the rows a
back-out passed over, is history.

`UploadIssuedItems` … `UploadExamples` are the routers' handlers: the file committed
first (`RecordUploadedFile`, or `Refuse` when it cannot be parsed), then row after
row (`IssuedItemRow` … `UserRow`), then records and counts in one commit
(`Finish`). `CreateIssuedItem` … `SubmitExample` are the single-item forms and
`CreateIssuedItemsBulk` … `CreateExamplesBulk` the API's batches: rows the same,
but on accounts chosen by id and without a record. `BackOutUpload`, `ReadRow`,
`CommitRow`, `RefuseRow`, `RowRaises`, `EndBackOut` are the loop of
`back_out_upload`, whose query has no order, so the rows come in any. `AccountByNumber` and `OnAccount` are
`services/account_service.py`. `Crash` breaks any of it off.

What else changes a row: `VoidIssuedItem`, `LabelAsFraud` (whatever the settlement),
`DecideException`, `SetMembership`, and `EscalateAfterOcr`, the second matching after an
image has been read, which an upload of images schedules itself
(`web/routers/check_images.py:208-213`). That one puts a matched and paid item in
exception and keeps its payment; from then on a back-out takes the branch that looks
at the exception instead of the check (`Matched`), so the field `escalated` says what
the settlement was then.

### AchDebits and the code

`status` is each authorization's, `blocked` the account's debit block mode,
`txns` the transactions with their settlement and exception, `pending` the
submissions between evaluation and commit. `Outcomes` is `evaluate_ach_rules`
over `Candidates`, `Selected` and `Exceeds`; where a query has no order, any row
may come first. `rule`, `seen` and `read` in a transaction are history.
`LabelTransaction` and `LabelRaw` are the two branches of `submit_ach_fraud_example`:
whatever is on file, paid or a credit, becomes RETURNED, and what never came in gets a
row of its own that no matching has seen; `RetractFraudExample` gives nothing back.
`Eligible` is the statement's query, which asks for a returned consumer entry and not
for a debit.

### BulkFiles and the code

A state machine per format, one action per record type, with the readers' own
variables: running totals per level, the open batch, the check whose images are
being collected. Any file of up to `MaxLines` records is read; `Shown` is how a
total is compared (an entry hash up to `Modulus`, the width of its field).

### ScheduledJobs and the code

One of four jobs per behaviour (`job`), since each has its own lock and they
share no data. `holder` is the instance whose connection holds the advisory
lock; `at`, `todo`, `row` say where each instance is in its job. Every commit,
every message handed over and every move of a file is a step:
`SendOneNotification` then `RecordSent` or `RecordRefused`; `LookUpFile`,
`RecordUploadedFile`, `IngestRow`, `SetResultCounts`, `MoveFile`; `BeginExport`,
`BuildArchive`, `EndExport`; `WipeTenantChildren` and the commits of the seeding.
What an instance takes on when it begins is `Batch`: of the dispatch the oldest
`BatchSize` of `Pending`, of the import the files in the directory, in its order.
`Crash`, `LoseLock` (the job runs on without its lock) and `CommitFails` are the
faults, the last also a database error while an export is built; `RunImport`, the page
that imports outside the lock, and `UploadByHand` are the rivals.
`barred` is which kinds of rows outside the demo bank's tables name one of its users:
a `revoked_session`, which is dropped some time after it expires (`VisitorSignsOut`,
`SomebodySignsOut`), or one that is kept for ever (`UserIsNamed`: a notification
without a tenant, a `notification_preference`, another bank's membership). While
there is one, `WipeTenantChildren` breaks a foreign key.

### Models and the code

A model is the set of labels it was fitted on. `models` is the table in order of
creation, `source` and `changed` the bank's choice and when it was made,
`work` what each worker is at: fitting (labels read), activating (active model
read), then the commit. `RetrainJob` is one slot's turn in `retrain_job`;
`RetrainSharedModel`, `RetrainNow`, `RetrainCustomerModel` and the three
`Activate…` are the pages. Which of two models wins is left open where the code
compares statistics, and fixed where it does not (`MayPromote`, `MayNotPromote`).
`read` and `pool` of a model are history: when its labels were read and which banks
were on the shared model then. The job's list of private banks is read once, at its
start (`workers/tasks.py:132-134`), so a bank's slot may be retrained after the bank
has gone back, as long as it once had one.

### SignIn and the code

`user` is the row with its counters and token version, `length` each
organization's session length, `tokens` the newest pair of each session,
`revoked` the `revoked_session` rows, `pending` the `mfa_pending` token. A token
is signed, so what it claims is fixed; `Accepted` and `Refreshable` are what the
server asks of it. Sign-in with a password is `Login`, with its five outcomes;
`CompleteCeremony` and `SsoSignIn` start a session too; `ContinueSession` and
`ApiRefresh` renew one; `SwitchTenant` moves to another organization. A signed-out
session's row is kept for as long as a session that begins now `MayLast`. `left`,
`ended`, `shortened`, `guesses` and `vouched` are history: `left` is every session that
was signed out, `ended` what one of the four handlers that end everything found, the
sign-in that waits for its key (`None`) included.

### Entitlements and the code

`members` is `tenant_membership`, `grants` the groups' permissions, `connection`
the bank's `sso_connection`, `passwords` where passwords are still taken,
`bulk` a load in progress. Each page is an action that names the scope its session
came from; `May` reads group and membership again, as the code does per request.
`SsoLogin` grants, moves and takes memberships. `from`, `foreign` and `agreed`
are history.

## Runs

| Run | What it shows | Instance |
|---|---|---|
| `ReviewOverlap` | dual control, statuses, ACH settlements and the system's own decisions stay right when everything overlaps, and no decision is replaced | a check or an ACH item, 2 users, 2 requests and the sweep, one return reason that comes and goes |
| `ReviewSerial` | handlers that do not overlap implement `ExceptionLifecycle`, keep the rows in agreement, and a due exception leaves the queue | 1 check, 2 users, every mode, 2 labels, a restart |
| `ClearOverlap` | money leaves only as issued and never comes back to life; in exception exactly with an exception row | 2 items of 1 check, 2 amounts, 2 requests, an image |
| `ClearSerial` | requests that do not overlap implement `CheckPayments`; the issue file agrees | the same with a stop, one request, 2 readings |
| `AchDebits` | limits bind, every settlement is explained by matching or by a person, what a statement covers stays returned | 2 authorizations, 5 kinds of entry, 2 traces, 2 submissions at once, labels on anything |
| `BulkFiles` | accepted files agree with their controls and yield every item once | every file of 5 records, both formats |
| `Uploads` | rows and records agree, payments and checks agree, a back-out leaves no record unseen, a number keeps its meaning | 3 files, 2 accounts, a customer and the bank, 2 workers, one fault, one typed item, batch or change of a row (OCR, label, decision, void) |
| `ScheduledJobs` | one runner per job, nothing loaded twice, second deliveries only after a fault, and what ends in spite of them | 2 instances, 2 notices, 2 files of the same bytes with 2 rows, one fault |
| `Models` | one active model per slot, a slot stays filled, other banks' labels only as pooled when they were read | 2 banks, a customer, 2 labels, 2 workers, 3 models, 2 switches |
| `SignIn` | signed out is for good, ending everything ends all but the session at hand, guessing is throttled, a key is asked where one is required | 2 organizations, one of which raises and lowers its session length, 2 sessions, clock to 2, 4 attempts |
| `Entitlements` | one membership per scope, foreigners confirmed, all access from the bank or federation | 2 people, 2 scopes, 2 groups, 3 changes of settings |
| `DemoNeverReset` | violated: the documented reset of the demo bank (see *Findings*) | 2 instances, one demo bank |

Bounds. A race needs two writers: hence two requests, workers or instances
(and the sweep, which is a third), two users for maker and checker, two files or
items where they meet on one check, one account or the same bytes. What counts up
for ever is bounded: `MaxLabels`, `MaxRestarts`, `MaxStops`, `MaxReadings`,
`MaxFaults`, `MaxByHand`, `MaxModels`, `MaxSwitches`, `MaxChanges`, `MaxLines`,
`MaxTime`, `MaxVersion`, `MaxTries`. Each is at least as large as the case its
properties are about: a second label after a retraction, a restart in the middle
of a sweep, a second reading of an image, a third model beside the active one of a
bank and the shared one, one lockout and the attempts around it, a batch closed
twice in a file. `ClearOverlap` leaves out stops and second readings and
`ReviewOverlap` restarts. `OneCase` splits `ReviewOverlap` into cases (an ACH
item with two people; a labelled one, or one whose reason comes and goes, with
one; a check with one) instead of their product; the theorems cover what it leaves
out, for every bound. `OneConcern` does the same in `SignIn`: two sessions, or
wrong passwords being tried beside one.

In `Uploads` file f, of one row, comes in as issued items or accounts and g, of two rows
on different accounts, as check images, ACH transactions, issued items or users, both the
customer's; h, of one row, as paid items or fraud examples, the bank's. An accounts file of the bank's own staff, whose customer column names the owner
(`Names`), is not among TLC's files; the theorems cover it. Typed items, batches,
readings by OCR, labels, decisions and voids share the bound `MaxByHand`.

Deadlock is not checked: an instance whose items are all settled and whose
bounds are used up may stop.

Symmetry is used on users, sessions, items, workers and traces, never with a
liveness property.

### Fairness

`ExceptionReview!FairSpec` assumes that the worker keeps polling and handles what
it polled, which is what the scheduler's interval trigger and the loop do, and
that a request that has started ends. Nothing is assumed of people. `BeginSweep`
is strongly fair because in the serial case it must find the queue quiet, which
requests can keep interrupting. `DeadlineIsBackstop` asks for a setting that stays
a fixed PAY: with NONE, with a model without a score or with no usable return
reason the code leaves the exception in the queue by design.

`ScheduledJobs!Fairness` assumes that the interval triggers keep firing on some
instance and that what is under way goes on, one weak fairness condition per
instance. Users, recipients and faults are free: a destination may refuse for
ever, which is why `EveryNoticeSettles` allows `failed`. `InboxDrains` and
`ExportEnds` are promised only without a fault, since the code has no recovery
there: a file on record before a crash is taken for a duplicate, and a `running`
export is never picked up again, whether a crash or a database error left it so.
`DemoComesBack` has the demo whole or absent again and again, and every touched demo
reset, unless a row elsewhere names one of its users (`barred`): a reset requested then
fails for as long as the row is there, and a half-seeded demo can be left behind only if
a fault or an overlapping reset had a hand in it as well.

## Findings

One run shows a disagreement with the documentation:

* `DemoNeverReset`. `src/src/pospay/templates/docs/admin/demo-tenant.html:11`
  says the demo resets on a fixed schedule. The wipe deletes the demo's users
  while a `revoked_session` row may still refer to one of them
  (`domain/revoked_session.py:30`; that table has no `tenant_id` and is not
  wiped), so on PostgreSQL every reset fails once a visitor has signed out, until
  somebody signs out after that row has expired. Three other kinds of rows have the same
  effect and no end: a notification without a tenant, queued when a demo user is locked,
  unlocked or changes the password (`services/notification_service.py:233`,
  `domain/notification.py:57`), a preference (`domain/notification.py:101`), and a
  membership the user has in another bank. Nothing removes those.

Met while modelling, and not a property of any run. The first six need two
requests that overlap, or a request and the sweep:

1. `services/bulk_upload_reversal_service.py:117` - a back-out withdraws an
   exception a person has just decided.
2. `services/decision_service.py:107` - a recommendation that commits after a
   decision puts the exception back to PENDING_APPROVAL; nobody can decide it any
   more, and every sweep fails on it.
3. `workers/tasks.py:238` - such a row ends each sweep before the due rows
   behind it: a failed insert expires the session's rows, and the handler's first
   statement reloads one before it rolls back.
4. `networks/check/adapter.py:86` - two presentments of one check matched at the
   same time are both paid.
5. `networks/check/ocr_processing.py:99` - two OCR results of one item raise two
   exceptions.
6. `services/fraud_training_service.py` - two labels of one transaction may both
   stay active.

The others a single user can meet:

7. `services/bulk_upload_reversal_service.py:148` - an item paid, escalated by OCR
   and then backed out leaves its issued item PAID, with requests one after another: the
   back-out looks at the exception and no longer at the check. `Uploads` has the whole
   path, and `Covers` of `PaidAsPresented` names the payments this is about; of any other
   payment the check is given back.
8. `networks/ach/adapter.py:85` - a frequency limit counts settled debits of
   earlier days only, and those still PAID: labelling a paid debit as fraud
   (`services/fraud_training_service.py:216`) makes room for another.
   `LimitCountsEarlierDays` says just what is left. The label asks neither for a debit
   nor for an exception, and a statement's query does not ask for a debit either
   (`services/wsud_service.py:116`): a credit labelled as fraud can be attested as an
   unauthorized debit.
9. `workers/tasks.py:45` - the retrain job counts a customer's retracted labels,
   which training then leaves out.
10. `web/routers/bulk_uploads.py:24` - `_PERMISSION_BY_KIND` lacks paid items and
    fraud-training examples, so viewing or backing out such an upload raises
    `KeyError`, where `templates/docs/end_user/bulk-uploads.html:15` says that every
    upload can be backed out. `Permitted` models it.
11. `web/routers/check_images.py:69` - `paid_item_id` is declared without `Form`,
    so the page's form field is not read and the image is linked to nothing,
    where `templates/check_images/upload.html:6` says that it is attached to an
    item. `CheckClearing` therefore takes the API's handler.
12. `bulk_import/x937.py:183` - a check takes the date of the cash letter header
    read last when the check is handed on, and that is at the next check or the
    end: in a file of several letters the last check of a letter gets the date of
    the one after it. `EntriesEnclosed` says of X9.37 dates nothing for that reason.
13. `services/session_service.py:59` - the row of a signed-out session is kept for
    the longest a session may last by the lengths set now, where the docstring
    above asks for the longest any session could still be valid: one that began
    before its organization's maximum was lowered may be valid for longer.
    `SignedOutIsForGood` is about the others; the set `shortened` tells them apart.
14. `web/routers/tenant_switch.py:87` - switching the organization passes neither
    `session_id` nor `session_expires_at`, so it begins a session of full length, where
    `auth/security.py:130` says that a switch continues the session to its original end,
    and line 110 that only signing in again starts a new one. Switching to and fro keeps
    a session alive for ever. `SwitchTenant` does what the code does, and no property
    bounds a session across switches.
15. `services/data_export_service.py:264` - what fails while an export is built is
    recorded on the session it failed on, without a rollback. After a database error
    that commit raises too and the job stays RUNNING, where the docstring at line 247
    says that any failure marks it FAILED rather than leaving it stuck.
16. `workers/tasks.py:64` - a bank counts as having left if it did so after the active
    model was activated, not after its labels were read. One that leaves while the
    shared model is being retrained, or after training and before somebody activates the
    model by hand, is not seen, and the model with its labels stays active until a
    retrain for another reason, where `services/tenant_ml_service.py:12` says that they
    stop feeding the shared model from its next retrain because the job retrains it after
    any bank leaves. `SharingIsAgreed` is about when labels were read, and so leaves room
    for this.
17. `services/bulk_upload_reversal_service.py:123` - a decided exception is left as it
    is, but its item is reversed all the same (line 158), where
    `templates/docs/end_user/bulk-uploads.html:15` says that an item already decided
    cannot be un-created. Reading its image again may also put an item that was already
    reversed in the review queue.

What holds in spite of the first six is the content of the overlap runs.

## Proofs

Every safety invariant and action property of the runs is a theorem, and so are
both refinements. A theorem holds for every value of the constants: any number of
items, users, sessions, workers or attempts, files of any length. It
rests on the assumptions of its module, on `ASSUME Serial` where the table says so,
and on nothing else. What the assumptions say is what the code's types say (a number
is one, a customer has one bank, a limit is a number), that `None` is none of the
things it stands beside, and that what is configured to be different is.

| Theorem | States | Of |
|---|---|---|
| `ExceptionReviewProofs` | | |
| `TypeCorrect` | `TypeOK` | any overlap |
| `FourEyesHolds`, `StatusIsBacked`, `AchReturnIsSettled`, `AutoDecisionsAreDue` | `FourEyes`, `StatusBacked`, `AchReturnSettled`, `AutoOnlyWhenDue` | any overlap |
| `DecisionsAreFinal` | `DecisionIsFinal` | any overlap |
| `RowsTellOneStory` | `RowsAgree` | `Serial` |
| `ImplementsTheLife` | `ExceptionReview` implements `ExceptionLifecycle` | `Serial` |
| `CheckClearingProofs` | | |
| `Typed` | `TypeOK` | any overlap |
| `MoneyLeavesAsIssued`, `QueueHasTheExceptions` | `PaidAsIssued`, `ExceptionsAreQueued` | any overlap |
| `UndoneStays` | `UndoneIsFinal` | any overlap |
| `NotPaidTwice`, `BooksTellOneStory`, `VoidStays` | `NoDoublePayment`, `BooksAgree`, `VoidIsFinal` | `Serial` |
| `Implementation` | `CheckClearing` implements `CheckPayments` | `Serial` |
| `IncomingProofs` | | |
| `SettlementsAreExplained`, `AttestedStaysTrue`, `LimitsAreKept` | `EntriesAgree`, `StatementsStand`, `LimitsHold` | any overlap |
| `FilesAgreeWithTheirControls`, `ItemsAreThoseOfTheFile` | `RecordsAgree`, `ItemsAreTheFiles` | any file |
| `UploadsProofs` | | |
| `RecordsAreTrue` | `UploadsAgree` | any overlap and crash |
| `PaymentsAreOfIssues` | `PaidAsPresented` | that what is backed out stays so: any overlap; payments and checks: as long as nothing overlaps |
| `NumbersStay`, `WhatCanIsUndone` | `NumberWins`, `BackOutIsThorough` | any overlap and crash |
| `ScheduledJobsProofs` | | |
| `RunsApart`, `MessagesAccountedFor` | `RunsAgree`, `DeliveryIsTrue` | any faults, with and without a lock |
| `ModelsProofs` | | |
| `DataIsUsedAsAgreed` | `SharingIsAgreed` | any overlap |
| `OneModelAtATime`, `NeverWithoutAModel` | `RegistryAgrees`, `SlotStaysFilled` | as long as no work overlapped |
| `SignInProofs` | | |
| `KeysAreAskedFor`, `SignedOutStaysOut`, `GuessingIsSlow`, `EndingAllEndsAll` | `SessionsAgree`, `SignedOutIsForGood`, `GuessesAreThrottled`, `EverywhereMeansAll` | one request at a time |
| `EntitlementsProofs` | | |
| `ScopesAreKeys`, `NoSilentAttachment`, `TheBankGrants` | `MembershipsAgree`, `ForeignersAreConfirmed`, `GrantedByTheBank` | bulk loads overlapped |

Each module has an inductive invariant (`IInv`, of `BulkFiles` `RecordsInv`), and a
lemma per action (or per group of actions that touch the same part) that the action
keeps it; PTL closes the induction. TLC checked each of them and every `SInv`, as an
invariant of that component's runs, before it was proved. None of the invariants
above is inductive alone, because a step writes what an earlier one read. What has
to be added is, in each module, what a copy or a half-done piece of work still
guarantees:

* **`ExceptionReview`.** `MakerInv`: the maker in a row did recommend that item, and
  a row awaiting approval has one. `LoadedMakerInv`: the same of a request's copy, and
  once a copy names a maker the stored row keeps one, for no handler clears the
  column. `LoadedGuardInv`: the guards a request has passed. `DecidedInv`: a stale
  writer may put a decided exception back, but never to OPEN. `DeadlineInv`,
  `SweepInv`: whatever a sweep holds has passed its deadline. In the serial case
  `SInv` adds that one request or one sweep is under way, that a request's copy is the
  stored row (`FreshInv`) and that what the sweep still has to do is undecided
  (`SweptInv`). The refinement maps each change of a row to the step of
  `ExceptionLifecycle` that `Life` names and the other steps to stutters.
* **`CheckClearing`.** `RequestInv`: an ingest found its row free and is alone
  with it (the primary key), and what it will write as paid is on file as presented -
  the amount on file does not change; another request's copy has the row's
  number and, if it is in exception, so is the row. `RowInv`, `ImageInv`: nothing
  happens to a row before it is written. `SInv` adds `FreshInv`: copies are current,
  and what an ingest found payable has nobody else's payment and is not voided.
  For `CheckPayments`, `PayerInv` ties the payment that stands to its check.
* **`AchDebits`.** `Judged`: what the verdict of a submission means for the
  authorization it used and the clearings it had read, the same for one under way
  and one on file; so a limit holds however submissions overlap, over the debits that
  were there to be read. `TransactionInv`: matching paid exactly what it found nothing
  against, and only a debit of those it did find something against can be decided on.
  That sets stay finite is part of the invariant, since a count is a cardinality.
* **`BulkFiles`.** The properties speak of an accepted file's records, the reader only of
  its running totals, its open batch and the check it collects images for.
  `RecordsInv` ties the two at every record: `Running` (a total is the sum over the
  items since the last header of its level), `Declaring` (the controls so far agreed),
  `BatchInv` (the open batch is the one whose header came last with no control after
  it), `ItemsInv` and `ImagesInv` (what was handed on, with the check still being
  collected, are the items so far with the images so far). `Handed` counts that last
  check in, so handing it on at the next check or at the end changes nothing. Of a
  rejected file nothing but the types is kept. It needs what a record
  more does to a sum and to the lines between two records: `SumAdd`, `SumSame` and
  `SumOfNone` say it of `Sum`, the lemmas about `LinesOf` and `LastBefore` of the lines.
* **`Uploads`.** `LoadInv`, `BackInv`: who loads a file is alone with it and the rest of
  its rows are not there; a back-out is over exactly the file's records. `RowInv`: what
  a payment was matched with is an issue of its account and number.
  `ThoroughInv`, `ReversedInv`, whatever overlaps: each record a back-out has behind it is
  reversed or was passed over, and a reversed payment has no way back. `SerialInv`,
  `CheckInv`, `PaidInv`: as long as nothing overlapped, what a back-out has read of the
  next row is still so, and payments and checks agree.
* **`ScheduledJobs`.** Four parts: `Control` (who works holds the lock, so without
  a lost lock runs do not overlap), `Mail` (what an instance still has to send is
  pending, each message once; one handed over and not on record is in flight),
  `Dropbox` (the upload is on record before any row, and rows not reached are not
  loaded) and `Others`.
* **`Models`.** `WorkInv`, `ModelsInv`: the labels a worker holds, and those in a
  model, are what their slot may use (`DataOf`): of the banks that pooled when they were
  read, so a bank that is not on the shared model now has left it since then. This holds
  of a model for good, since neither what it was fitted on nor when changes.
  `SerialInv`: without overlap what a worker read as active is active, and a slot has one
  active model.
* **`SignIn`.** `LastInv`: a session ends within the time one beginning now may
  last, unless its organization lowered its maximum. With it, a row kept for the
  longest session outlasts the session, which is the third disjunct of `LeftInv`.
  `LockInv`: from the threshold on, the lock was set by the last failure, so each
  guess beyond it has a lock period of its own. `EndedInv`: what was found by a handler
  that ends everything has a token version of before, which no later handler gives it
  back.
* **`Entitlements`.** `BulkInv`: a load was begun from a session of the whole bank.
  `KnownInv`: who is known from elsewhere is known. The rest of the work is in the
  lemma that nobody scoped to a customer has a permission that only the bank grants.

The induction theorems of the library take an operator as a parameter, which the
provers cannot instantiate. Where a proof needs induction it is over sets:
`NumberInduction` says that a set of numbers that has 0 and with each its successor
has all of them, and follows from the library's theorem that `<` on Nat is well founded;
`SubsetInduction` carries it to finite sets of numbers, `SumAdd` and `SumSame` to sums.

Only model-checked: the liveness properties (`DeadlineIsBackstop`,
`EveryNoticeSettles`, `JobsEnd`) and the finding (`DemoResetsOnSchedule`), which need
fairness and ENABLED, beyond the prover. No module uses a RECURSIVE operator.

## Abstractions

* Amounts, names, reasons and people are model values or small numbers; dates
  are the outcome of a comparison in `CheckClearing` and numbers in `AchDebits`;
  a payee read by OCR is the same as the issued one or another; a model's score
  is either outcome or none.
* A response window is an action, `DeadlinePasses`, that may happen at any time.
* In `CheckClearing` the back-out of an upload is one row at a time, and a row
  may be tried again; `Uploads` has the whole loop, with matching inside one step
  (amounts that agree or not are left open there).
* A label on an item without an exception is in `CheckClearing`, `AchDebits` and
  `Uploads`; `ExceptionReview` is about items that have one. In `AchDebits` a label is one
  step, without the catalog of return reasons and the overlap of two labels, which are
  `ExceptionReview`'s.
* A setting read twice in one sweep is read from the database each time; the
  session's identity map, which holds rows weakly, may return an older copy.
* `SignIn` handles one request at a time: two that overlap on the failure counter
  are not modelled, nor is an older token pair of a session, which may do a part
  of what the newest may.
* `Entitlements` lets only a bulk load be overlapped. `MembershipsAgree` is
  about requests that commit one after another: for the whole bank's scope two
  overlapping ones could both insert, as the database does not help there.
* `Models` leaves out what only delays (the ninety days, the time between two
  runs) and the rows that say a training failed; `OneActivePerSlot` is claimed as
  long as no work overlapped, and no work starts once some did.
* `ScheduledJobs` checks one job per behaviour; the seeded transactions of the
  demo are one part.
* In `BulkFiles` a record is its kind and what the readers take from it.
* Audit entries and notifications written by other modules' handlers are left out.

## Not modelled

* The audit log: it appends a hash-chained row per action and nothing reads it
  back to decide anything. Two requests that read the same latest entry fork the
  chain; a module for that alone is planned.
* OCR, mail and message providers, the OIDC exchange, WebAuthn's cryptography and
  JWT signatures: external, either outcome is taken.
* Rendering, routing, pagination, rate limiting (a per-process counter), usage
  metrics, branding, the set-up wizard: no state the rest depends on.
* CSV, XLSX and ZIP parsing: one row at a time, without state between rows.
* Dates at their boundaries in the check rules.
* Creation and rewording of catalog entries, tenants' and customers' other
  settings: single-row writes of data.

## Plan

1. `AuditChain`: concurrent appends and `verify_chain`.
2. `CheckRules`: rules and stop dates over real dates at their boundaries, against a
   reference definition.
