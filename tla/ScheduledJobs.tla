---------------------------- MODULE ScheduledJobs ----------------------------
(***************************************************************************)
(* Work that goes on behind the requests, on several instances of the      *)
(* application over one database: the scheduler with its lock              *)
(* (workers/scheduler.py, leader_lock.py), the notification queue, the     *)
(* import of files dropped in a directory, data exports and the reset of   *)
(* the demo bank (workers/tasks.py, services/notification_service.py,      *)
(* dropbox_import_service.py, data_export_service.py,                      *)
(* demo_tenant_service.py).                                                *)
(*                                                                         *)
(* Each job has a lock of its own and they share no data, so a behaviour   *)
(* is about one of them: job.  Every commit, every message handed over and *)
(* every move of a file is a step; the process may stop between any two.   *)
(***************************************************************************)
EXTENDS Integers, Sequences, FiniteSets

CONSTANTS
  Instances,
  Notices,     \* how many notifications get queued; they are numbered in order
  BatchSize,   \* notification_dispatch_batch_size
  MaxAttempts, \* _MAX_SEND_ATTEMPTS
  Files,       \* how many files get dropped; the scan takes them in order
  Content,     \* what each holds
  Rows,        \* rows in a file
  Locking,     \* PostgreSQL: advisory locks, and foreign keys are enforced
  MaxFaults,   \* bound on crashes, lost connections, failed commits, false alarms
  None

ASSUME ConstantsAssumption ==
  /\ Notices \in Nat /\ Files \in Nat /\ Rows \in Nat \ {0}
  /\ BatchSize \in Nat \ {0} /\ MaxAttempts \in Nat \ {0} /\ MaxFaults \in Nat
  /\ Locking \in BOOLEAN
  /\ Content \in [1..Files -> 1..Files]
  /\ None \notin Instances

Jobs == {"notification_dispatch_job", "dropbox_import_job", "data_export", "demo_reset_job"}

\* notification: queued by a request, sent or given up by the job.
Notice == [status: {"absent", "pending", "sent", "failed"}, tries: 0..MaxAttempts]

\* What an instance does: at \in idle, next, then the steps of an item; todo is
\* what it read when it began, of a notification the tries included.
Steps == {"idle", "next", "delivered", "refused", "looked", "loading", "counted", "broken",
          "requested", "running", "built", "unbuilt", "wiped", "administered", "peopled", "opened", "presented"}

\* What the demo bank consists of, in the order it is seeded.
DemoParts == {"tenant", "admin", "users", "accounts", "checks", "rest"}

\* Rows outside the tables of the demo tenant that name one of its users: the first kind
\* is dropped in the end, a message that an account was locked, a choice of messages, or
\* a membership given by another bank never.
Outside == {"revoked_session", "kept"}

\* Of a data_export_job: it never goes back.
ExportStatuses == {"pending", "running", "completed", "failed"}

VARIABLES
  job,
  holder,    \* instance whose connection holds the job's lock, or None
  at, todo, row,
  notice,    \* notification rows
  place,     \* where a file is: absent, inbox, processed, failed
  upload,    \* content -> bulk_upload_file rows of it, and whether counts are set
  loaded,    \* history: how often a row of a content was loaded
  received,  \* history: how often a notification reached its recipient
  export,    \* data_export_job.status
  demo,      \* part of the demo bank -> the instance whose seeding put it there, or None
  touched,   \* a visitor changed something in it since it was last wiped
  barred,    \* which kinds of rows outside its tables name one of its users
  faults, overlap, unlocked \* history: faults so far; two at work at once; one without the lock

vars == <<job, holder, at, todo, row, notice, place, upload, loaded, received, export, demo, touched, barred, faults, overlap, unlocked>>
worker == <<holder, at, todo, row, overlap>>
mail == <<notice, received>>
dropbox == <<place, upload, loaded>>
bank == <<demo, touched, barred>>
others == <<export, bank>>
history == <<faults, unlocked>>

Working(i) == at[i] # "idle"

TypeOK ==
  /\ job \in Jobs
  /\ holder \in Instances \cup {None}
  /\ at \in [Instances -> Steps]
  /\ \A i \in Instances : \A k \in 1..Len(todo[i]) : todo[i][k].n \in Nat /\ todo[i][k].tries \in 0..MaxAttempts
  /\ row \in [Instances -> 0..Rows]
  /\ notice \in [1..Notices -> Notice]
  /\ received \in [1..Notices -> Nat]
  /\ place \in [1..Files -> {"absent", "inbox", "processed", "failed"}]
  /\ upload \in [1..Files -> [records: Nat, counted: BOOLEAN, byHand: BOOLEAN]]
  /\ loaded \in [1..Files -> [1..Rows -> Nat]]
  /\ export \in ExportStatuses \cup {"absent"}
  /\ demo \in [DemoParts -> Instances \cup {None}] /\ touched \in BOOLEAN /\ barred \subseteq Outside
  /\ faults \in 0..MaxFaults /\ overlap \in BOOLEAN /\ unlocked \in BOOLEAN

Init ==
  /\ job \in Jobs
  /\ holder = None
  /\ at = [i \in Instances |-> "idle"]
  /\ todo = [i \in Instances |-> <<>>]
  /\ row = [i \in Instances |-> 0]
  /\ notice = [n \in 1..Notices |-> [status |-> "absent", tries |-> 0]]
  /\ received = [n \in 1..Notices |-> 0]
  /\ place = [f \in 1..Files |-> "absent"]
  /\ upload = [c \in 1..Files |-> [records |-> 0, counted |-> FALSE, byHand |-> FALSE]]
  /\ loaded = [c \in 1..Files |-> [r \in 1..Rows |-> 0]]
  /\ export = "absent"
  /\ demo \in {[part \in DemoParts |-> i] : i \in IF job = "demo_reset_job" THEN Instances \cup {None} ELSE {None}}
  /\ touched = FALSE /\ barred = {}
  /\ faults = 0 /\ overlap = FALSE /\ unlocked = FALSE

-----------------------------------------------------------------------------
(* A run of a scheduled job.                                               *)

\* A mutant: the query takes every notification, its status not looked at.
Pending_AnyStatus == {n \in 1..Notices : notice[n].status # "absent"}

Pending == {n \in 1..Notices : notice[n].status = "pending"}

Inbox == {f \in 1..Files : place[f] = "inbox"}

\* The first k of a set of numbers, in order: one sequence.
FirstOf(S, k) ==
  {s \in [1..k -> S] : /\ \A x, y \in 1..k : x < y => s[x] < s[y]
                       /\ \A n \in S : n \in {s[x] : x \in 1..k} \/ \A x \in 1..k : s[x] < n}

\* The rows a run starts from, of a notification the oldest: they are not read again.
Batch ==
  IF job = "notification_dispatch_job"
    THEN LET waiting == Cardinality(Pending)
             size == IF waiting < BatchSize THEN waiting ELSE BatchSize
         IN  {[k \in 1..size |-> [n |-> s[k], tries |-> notice[s[k]].tries]] : s \in FirstOf(Pending, size)}
    ELSE LET size == Cardinality(Inbox)
         IN  {[k \in 1..size |-> [n |-> s[k], tries |-> 0]] : s \in FirstOf(Inbox, size)}

Begin(i) ==
  /\ at[i] = "idle"
  /\ at' = [at EXCEPT ![i] = "next"]
  /\ \E batch \in Batch : todo' = [todo EXCEPT ![i] = batch]
  /\ overlap' = (overlap \/ \E j \in Instances \ {i} : Working(j))
  /\ UNCHANGED <<job, row, mail, dropbox, others>>

Start(i) == Begin(i) /\ UNCHANGED history

\* A tick of the scheduler: with locks the job runs on one instance, and another
\* one skips its turn.
RunExclusively(i) ==
  /\ job # "data_export"
  /\ Locking => holder = None
  /\ Start(i)
  /\ holder' = IF Locking THEN i ELSE holder

\* The API's scan, in the request itself.
RunImport(i) ==
  /\ job = "dropbox_import_job"
  /\ Begin(i)
  /\ unlocked' = TRUE
  /\ UNCHANGED <<holder, faults>>

Unlocked(i) == IF holder = i THEN None ELSE holder

Stop(i) ==
  /\ at' = [at EXCEPT ![i] = "idle"]
  /\ todo' = [todo EXCEPT ![i] = <<>>]
  /\ row' = [row EXCEPT ![i] = 0]
  /\ holder' = Unlocked(i)
  /\ UNCHANGED overlap

Finish(i) ==
  /\ at[i] = "next" /\ todo[i] = <<>>
  /\ job = "demo_reset_job" => demo["tenant"] = None
  /\ Stop(i)
  /\ UNCHANGED <<job, mail, dropbox, others, history>>

Fault == faults < MaxFaults /\ faults' = faults + 1

\* The process stops, and with its connection the lock goes.
Crash(i) ==
  /\ Working(i)
  /\ Stop(i) /\ Fault
  /\ UNCHANGED <<job, mail, dropbox, others, unlocked>>

\* The lock's own connection dies; the job goes on.
LoseLock(i) ==
  /\ holder = i
  /\ holder' = None
  /\ unlocked' = TRUE /\ Fault
  /\ UNCHANGED <<job, at, todo, row, overlap, mail, dropbox, others>>

Item(i) == Head(todo[i]).n

Step(i, from, to) ==
  /\ at[i] = from /\ todo[i] # <<>>
  /\ at' = [at EXCEPT ![i] = to]
  /\ UNCHANGED <<job, holder, todo, overlap>>

\* The item is done with.
Leave(i) ==
  /\ at' = [at EXCEPT ![i] = "next"]
  /\ todo' = [todo EXCEPT ![i] = Tail(@)]
  /\ row' = [row EXCEPT ![i] = 0]
  /\ UNCHANGED <<job, holder, overlap>>

-----------------------------------------------------------------------------
(* Notifications.                                                          *)

\* A request that has something to tell queues it in its own transaction.
Queue(n) ==
  /\ job = "notification_dispatch_job"
  /\ notice[n].status = "absent" /\ (n > 1 => notice[n - 1].status # "absent")
  /\ notice' = [notice EXCEPT ![n].status = "pending"]
  /\ UNCHANGED <<job, worker, received, dropbox, others, history>>

Delivered(i) == received' = [received EXCEPT ![Item(i)] = @ + 1]

SendOneNotification(i) ==
  /\ job = "notification_dispatch_job"
  /\ \/ Step(i, "next", "delivered") /\ Delivered(i) /\ UNCHANGED faults
     \/ Step(i, "next", "refused") /\ UNCHANGED <<received, faults>>
     \/ Step(i, "next", "refused") /\ Delivered(i) /\ Fault \* it got there, the answer did not
  /\ UNCHANGED <<row, notice, dropbox, others, unlocked>>

\* A mutant: a failure is not counted.
Tries_Uncounted(i) == Head(todo[i]).tries

Tries(i) == Head(todo[i]).tries + 1

\* One commit a row.  Of a refused one the status is written only when it is
\* given up.
RecordSent(i) ==
  /\ at[i] = "delivered"
  /\ notice' = [notice EXCEPT ![Item(i)].status = "sent"]
  /\ Leave(i)
  /\ UNCHANGED <<received, dropbox, others, history>>

RecordRefused(i) ==
  /\ at[i] = "refused"
  /\ notice' = [notice EXCEPT ![Item(i)] =
       [status |-> IF Tries(i) >= MaxAttempts THEN "failed" ELSE @.status, tries |-> Tries(i)]]
  /\ Leave(i)
  /\ UNCHANGED <<received, dropbox, others, history>>

\* A commit that fails ends the run; the row is as it was.  Of an export so does an error
\* of the database while the archive is built: nothing rolls back what that error broke
\* off, and the job cannot be marked failed.
CommitFails(i) ==
  /\ at[i] \in {"delivered", "refused", "requested", "running", "built", "unbuilt"}
  /\ Stop(i) /\ Fault
  /\ UNCHANGED <<job, mail, dropbox, others, unlocked>>

-----------------------------------------------------------------------------
(* Dropped files.                                                          *)

Drop(f) ==
  /\ job = "dropbox_import_job"
  /\ place[f] = "absent"
  /\ place' = [place EXCEPT ![f] = "inbox"]
  /\ UNCHANGED <<job, worker, upload, loaded, mail, others, history>>

\* The same bytes uploaded by hand count as known too.
UploadByHand(c) ==
  /\ job = "dropbox_import_job"
  /\ c \in {Content[f] : f \in 1..Files} /\ upload[c].records = 0
  /\ \A i \in Instances : ~Working(i)
  /\ upload' = [upload EXCEPT ![c] = [records |-> 1, counted |-> TRUE, byHand |-> TRUE]]
  /\ UNCHANGED <<job, worker, place, loaded, mail, others, history>>

Importing(i, step) == job = "dropbox_import_job" /\ at[i] = step /\ todo[i] # <<>>

\* Gone, or its bytes already on file: it stays where it is.
SkipFile(i) ==
  /\ Importing(i, "next")
  /\ place[Item(i)] # "inbox" \/ upload[Content[Item(i)]].records > 0
  /\ Leave(i)
  /\ UNCHANGED <<mail, dropbox, others, history>>

\* Too large to be read.
RefuseFile(i) ==
  /\ Importing(i, "next")
  /\ place[Item(i)] = "inbox"
  /\ place' = [place EXCEPT ![Item(i)] = "failed"]
  /\ Leave(i)
  /\ UNCHANGED <<upload, loaded, mail, others, history>>

LookUpFile(i) ==
  /\ job = "dropbox_import_job"
  /\ Step(i, "next", "looked")
  /\ place[Item(i)] = "inbox" /\ upload[Content[Item(i)]].records = 0
  /\ UNCHANGED <<row, dropbox, mail, others, history>>

Recorded(i) == upload' = [upload EXCEPT ![Content[Item(i)]].records = @ + 1]

\* A mutant: the record is written with the counts, when the rows are in.
RecordUploadedFile_Last(i) ==
  /\ job = "dropbox_import_job"
  /\ Step(i, "looked", "loading")
  /\ UNCHANGED <<row, dropbox, mail, others, history>>

\* Committed before anything of the file is looked at.
RecordUploadedFile(i) ==
  /\ job = "dropbox_import_job"
  /\ Step(i, "looked", "loading")
  /\ Recorded(i)
  /\ UNCHANGED <<row, place, loaded, mail, others, history>>

\* A row is loaded and committed, or it fails and is counted.
IngestRow(i) ==
  /\ Importing(i, "loading") /\ row[i] < Rows
  /\ row' = [row EXCEPT ![i] = @ + 1]
  /\ \/ loaded' = [loaded EXCEPT ![Content[Item(i)]][row[i] + 1] = @ + 1]
     \/ UNCHANGED loaded
  /\ UNCHANGED <<job, holder, at, todo, overlap, place, upload, mail, others, history>>

\* The file as a whole cannot be read.
ParseFails(i) ==
  /\ job = "dropbox_import_job"
  /\ Step(i, "loading", "broken")
  /\ row[i] = 0
  /\ UNCHANGED <<row, dropbox, mail, others, history>>

SetResultCounts(i) ==
  /\ job = "dropbox_import_job"
  /\ Step(i, "loading", "counted")
  /\ row[i] = Rows
  /\ upload' = [upload EXCEPT ![Content[Item(i)]].records = IF @ = 0 THEN 1 ELSE @,
                               ![Content[Item(i)]].counted = TRUE]
  /\ UNCHANGED <<row, place, loaded, mail, others, history>>

\* Out of the inbox; where another run already moved it the error is logged.
MoveFile(i) ==
  /\ Importing(i, at[i]) /\ at[i] \in {"counted", "broken"}
  /\ place' = [place EXCEPT ![Item(i)] =
       IF @ # "inbox" THEN @ ELSE IF at[i] = "counted" THEN "processed" ELSE "failed"]
  /\ Leave(i)
  /\ UNCHANGED <<upload, loaded, mail, others, history>>

-----------------------------------------------------------------------------
(* Exports: a background task of the request that asked.                   *)

ExportStep(i, from, to) ==
  /\ job = "data_export" /\ at[i] = from
  /\ at' = [at EXCEPT ![i] = to]
  /\ UNCHANGED <<job, holder, todo, row, overlap, mail, dropbox, bank, history>>

RequestExport(i) == ExportStep(i, "idle", "requested") /\ export = "absent" /\ export' = "pending"

BeginExport(i) == ExportStep(i, "requested", "running") /\ export' = "running"

\* The archive is complete, or: out of time, too many rows, any error but the database's.
BuildArchive(i) ==
  /\ \/ ExportStep(i, "running", "built")
     \/ ExportStep(i, "running", "unbuilt")
  /\ UNCHANGED export

\* A mutant: an archive that could not be built leaves the job as it is.
EndExport_Quietly(i) ==
  \/ ExportStep(i, "built", "idle") /\ export' = "completed"
  \/ ExportStep(i, "unbuilt", "idle") /\ UNCHANGED export

EndExport(i) ==
  \/ ExportStep(i, "built", "idle") /\ export' = "completed"
  \/ ExportStep(i, "unbuilt", "idle") /\ export' = "failed"

-----------------------------------------------------------------------------
(* The demo bank: wiped and seeded again, in the job, from the              *)
(* administration page, or at a sign-in that finds it idle; seeded the      *)
(* first time when an instance starts.  A commit is a step.                 *)

\* Once, as a bound: outside the lock.
Unscheduled == job = "demo_reset_job" /\ ~unlocked /\ unlocked' = TRUE

EnsureDemoTenant(i) ==
  /\ Unscheduled
  /\ at[i] = "idle" /\ demo["tenant"] = None
  /\ at' = [at EXCEPT ![i] = "administered"]
  /\ demo' = [demo EXCEPT !["tenant"] = i, !["admin"] = i]
  /\ overlap' = (overlap \/ \E j \in Instances \ {i} : Working(j))
  /\ UNCHANGED <<job, holder, todo, row, touched, barred, mail, dropbox, export, faults>>

\* By a button, or by a sign-in: somebody of the demo is signed in, or has been.
ResetDemo(i) ==
  /\ Unscheduled
  /\ demo["admin"] # None
  /\ Begin(i)
  /\ UNCHANGED <<holder, faults>>

Resetting(i, from, to) ==
  /\ job = "demo_reset_job" /\ at[i] = from
  /\ at' = [at EXCEPT ![i] = to]
  /\ UNCHANGED <<job, holder, todo, row, overlap, mail, dropbox, export, history>>

\* The run is over, done or broken off by an error; what it committed stays.
ResetEnds(i, from) ==
  /\ job = "demo_reset_job" /\ at[i] = from
  /\ Stop(i)
  /\ UNCHANGED <<job, mail, dropbox, export, history>>

\* Everything of the tenant, then its users, in one transaction: rows of no tenant, or of
\* another, are not wiped, and those that name the users break a foreign key.
WipeTenantChildren(i) ==
  /\ demo["tenant"] # None
  /\ Locking => barred = {}
  /\ Resetting(i, "next", "wiped")
  /\ demo' = [part \in DemoParts |-> IF part = "tenant" THEN demo[part] ELSE None]
  /\ touched' = FALSE
  /\ UNCHANGED barred

\* A row that another seeding commits meanwhile breaks a foreign key too.
WipeFails(i) ==
  /\ demo["tenant"] # None
  /\ Locking /\ (barred # {} \/ \E j \in Instances \ {i} : Working(j))
  /\ ResetEnds(i, "next")
  /\ UNCHANGED bank

Seeded(part, i) == demo' = [demo EXCEPT ![part] = i] /\ UNCHANGED <<touched, barred>>

SeedAdmin(i) ==
  \/ demo["admin"] = None /\ Resetting(i, "wiped", "administered") /\ Seeded("admin", i)
  \/ demo["admin"] # None /\ ResetEnds(i, "wiped") /\ UNCHANGED bank

\* Without groups there is nobody to add.  Its own admin gone, the users stay and
\* the run ends on their audit entries.
SeedUsers(i) ==
  \/ demo["admin"] = None /\ Resetting(i, "administered", "peopled") /\ UNCHANGED bank
  \/ demo["admin"] = i /\ demo["users"] = None
       /\ Resetting(i, "administered", "peopled") /\ Seeded("users", i)
  \/ demo["admin"] \notin {i, None} /\ demo["users"] = None
       /\ ResetEnds(i, "administered") /\ Seeded("users", i)
  \/ demo["admin"] # None /\ demo["users"] # None /\ ResetEnds(i, "administered") /\ UNCHANGED bank

SeedAccounts(i) ==
  \/ demo["accounts"] = None /\ Resetting(i, "peopled", "opened") /\ Seeded("accounts", i)
  \/ demo["accounts"] # None /\ ResetEnds(i, "peopled") /\ UNCHANGED bank

\* What is seeded next names the users and the accounts of this very seeding.
Stands(i) == demo["users"] = i /\ demo["accounts"] = i

\* Checks issued, presented and decided on.
SeedCheckActivity(i) ==
  \/ Stands(i) /\ Resetting(i, "opened", "presented") /\ Seeded("checks", i)
  \/ ~Stands(i) /\ ResetEnds(i, "opened") /\ UNCHANGED bank

\* A stop, debits, a model and the bank's looks; then the run is over.
SeedRest(i) ==
  \/ Stands(i) /\ ResetEnds(i, "presented") /\ Seeded("rest", i)
  \/ ~Stands(i) /\ ResetEnds(i, "presented") /\ UNCHANGED bank

Visit == job = "demo_reset_job" /\ demo["admin"] # None

VisitorChanges ==
  /\ Visit /\ touched' = TRUE
  /\ UNCHANGED <<job, worker, demo, barred, mail, dropbox, export, history>>

Named(kinds) ==
  /\ barred' = kinds
  /\ UNCHANGED <<job, worker, demo, touched, mail, dropbox, export, history>>

\* A visitor signs out.  Expired rows are dropped at any user's sign-out.
VisitorSignsOut == Visit /\ Named(barred \cup {"revoked_session"})

SomebodySignsOut == "revoked_session" \in barred /\ Named(barred \ {"revoked_session"})

\* Wrong passwords lock an account of the demo, and it is told so, without a tenant; a
\* visitor picks what to be told of; another bank takes one of the users in.
UserIsNamed == Visit /\ Named(barred \cup {"kept"})

-----------------------------------------------------------------------------
\* Whatever an instance goes on with by itself.
Proceed(i) ==
  \/ Finish(i)
  \/ SendOneNotification(i) \/ RecordSent(i) \/ RecordRefused(i)
  \/ SkipFile(i) \/ RefuseFile(i) \/ LookUpFile(i) \/ RecordUploadedFile(i)
  \/ IngestRow(i) \/ ParseFails(i) \/ SetResultCounts(i) \/ MoveFile(i)
  \/ BeginExport(i) \/ BuildArchive(i) \/ EndExport(i)
  \/ WipeTenantChildren(i) \/ WipeFails(i) \/ SeedAdmin(i) \/ SeedUsers(i) \/ SeedAccounts(i)
  \/ SeedCheckActivity(i) \/ SeedRest(i)

Next ==
  \/ \E i \in Instances : RunExclusively(i) \/ RunImport(i) \/ Proceed(i) \/ RequestExport(i)
  \/ \E i \in Instances : Crash(i) \/ LoseLock(i) \/ CommitFails(i)
  \/ \E i \in Instances : EnsureDemoTenant(i) \/ ResetDemo(i)
  \/ VisitorChanges \/ VisitorSignsOut \/ SomebodySignsOut \/ UserIsNamed
  \/ \E n \in 1..Notices : Queue(n)
  \/ \E f \in 1..Files : Drop(f) \/ UploadByHand(f)

\* The scheduler ticks on an interval on every instance, and what is under way
\* goes on; nothing is assumed of users, recipients and faults.
Fairness ==
  /\ WF_vars(\E i \in Instances : RunExclusively(i))
  /\ \A i \in Instances : WF_vars(Proceed(i))

Spec == Init /\ [][Next]_vars /\ Fairness

-----------------------------------------------------------------------------
(* Properties.                                                             *)

\* The lock keeps the instances apart as long as no connection that holds it is
\* lost and nobody works without it, whatever stops and restarts.
OneAtATime == Locking /\ ~unlocked => ~overlap

\* A recipient is told twice only for a reason: every message too many has its
\* own crash, failed commit or lost answer, where runs did not overlap.
DuplicatesNeedAFault ==
  ~overlap => \A n \in 1..Notices : received[n] <= 1 + faults

\* What is marked sent was handed over, what was given up was refused as often
\* as allowed.
StatusIsTrue ==
  \A n \in 1..Notices :
    /\ notice[n].status = "sent" => received[n] > 0
    /\ notice[n].status = "failed" /\ ~overlap => notice[n].tries = MaxAttempts

\* What became of a message is what its row says, and it became of it once.
DeliveryIsTrue == DuplicatesNeedAFault /\ StatusIsTrue

\* However often the process stops, no row of a dropped file is loaded twice: the
\* upload is on record before its rows, and never scanned again.
LoadedAtMostOnce ==
  ~overlap => \A c \in 1..Files, r \in 1..Rows : loaded[c][r] <= 1

\* Types, and what the lock and the upload records keep apart.
RunsAgree == TypeOK /\ OneAtATime /\ LoadedAtMostOnce

\* Every queued notification is sent or given up in the end, one that is always
\* refused included, and none starves behind others.
EveryNoticeSettles ==
  \A n \in 1..Notices : notice[n].status = "pending" ~> notice[n].status \in {"sent", "failed"}

\* Without a fault a dropped file leaves the inbox, unless its bytes were known: uploaded
\* by hand, or from another file that was handled.
InboxDrains ==
  \A f \in 1..Files :
    place[f] = "inbox" ~>
      \/ place[f] # "inbox" \/ faults > 0 \/ upload[Content[f]].byHand
      \/ \E g \in 1..Files \ {f} : Content[g] = Content[f] /\ place[g] \in {"processed", "failed"}

\* Without a fault an export ends, as completed or failed; an error of the database or
\* a crash leaves it running.
ExportEnds == export \in {"pending", "running"} ~> export \in {"completed", "failed"} \/ faults > 0

\* What breaks off a reset of the demo bank never lasts: it is complete again and again,
\* unless rows outside it name its users when a crash or another reset had left it in
\* pieces; and what visitors changed goes, unless there are such rows.
DemoComesBack ==
  /\ []<>(\/ demo["tenant"] = None \/ \A part \in DemoParts : demo[part] # None
          \/ barred # {} /\ (faults > 0 \/ overlap))
  /\ touched ~> ~touched \/ barred # {}

\* The jobs that nobody asks twice get done.
JobsEnd == InboxDrains /\ ExportEnds /\ DemoComesBack

\* templates/docs/admin/demo-tenant.html: "the demo resets on a fixed schedule (every
\* hour by default), so whatever one visitor changed doesn't stay in place for the next."
DemoResetsOnSchedule == touched ~> ~touched
=============================================================================
