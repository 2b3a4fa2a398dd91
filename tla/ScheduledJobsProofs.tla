------------------------- MODULE ScheduledJobsProofs -------------------------
(***************************************************************************)
(* Theorems about ScheduledJobs: what holds for any number of instances,   *)
(* notifications and files, any batch size and any number of attempts,     *)
(* with any number of faults, on either database.                          *)
(***************************************************************************)
EXTENDS ScheduledJobs, FiniteSetTheorems, TLAPS

(***************************************************************************)
(* The inductive invariant, one part for each group of variables.          *)
(***************************************************************************)

Work == [n: Nat, tries: 0..MaxAttempts]

\* An idle instance has nothing to do, nor has an export items; what an instance is at
\* belongs to its job.
WithoutItems == {"idle", "requested", "running", "built", "unbuilt"}

StepInv == \A i \in Instances :
  /\ at[i] \in WithoutItems => todo[i] = <<>>
  /\ at[i] \in {"delivered", "refused"} => job = "notification_dispatch_job" /\ todo[i] # <<>>
  /\ at[i] \in {"looked", "loading", "counted", "broken"} => job = "dropbox_import_job" /\ todo[i] # <<>>
  /\ at[i] \notin {"loading", "counted"} => row[i] = 0

\* Whoever works holds the lock.  Exports have none.
LockInv == job # "data_export" /\ Locking /\ ~unlocked =>
  /\ ~overlap
  /\ \A i \in Instances : Working(i) => holder = i

SerialInv == job # "data_export" /\ ~overlap =>
  \A i, j \in Instances : Working(i) /\ Working(j) => i = j

Control ==
  /\ job \in Jobs /\ holder \in Instances \cup {None}
  /\ at \in [Instances -> Steps] /\ todo \in [Instances -> Seq(Work)] /\ row \in [Instances -> 0..Rows]
  /\ overlap \in BOOLEAN /\ unlocked \in BOOLEAN
  /\ job = "data_export" => ~overlap
  /\ StepInv /\ LockInv /\ SerialInv

\* What overlapping runs keep, too.
NoticeInv ==
  /\ \A n \in 1..Notices :
       /\ notice[n].status \in {"absent", "pending"} => notice[n].tries < MaxAttempts
       /\ notice[n].status = "sent" => received[n] > 0
       /\ notice[n].status = "absent" => received[n] = 0
  /\ job = "notification_dispatch_job" =>
       \A i \in Instances : \A k \in 1..Len(todo[i]) :
         /\ todo[i][k].n \in 1..Notices /\ todo[i][k].tries < MaxAttempts
         /\ notice[todo[i][k].n].status # "absent"
  /\ \A i \in Instances : at[i] = "delivered" => received[todo[i][1].n] > 0

\* A message in flight: handed over, not on record yet.
InFlight(n) == \E i \in Instances : at[i] = "delivered" /\ todo[i][1].n = n

\* What is still to be done is still to be done, each once.
NoticeSerial == ~overlap =>
  /\ job = "notification_dispatch_job" =>
       \A i \in Instances : \A k \in 1..Len(todo[i]) :
         /\ notice[todo[i][k].n].status = "pending"
         /\ \A m \in 1..Len(todo[i]) : todo[i][m].n = todo[i][k].n => m = k
  /\ \A n \in 1..Notices :
       /\ received[n] <= 1 + faults
       /\ notice[n].status \in {"absent", "pending"} => received[n] <= faults \/ InFlight(n)
       /\ notice[n].status = "failed" => notice[n].tries = MaxAttempts

Mail == /\ notice \in [1..Notices -> Notice] /\ received \in [1..Notices -> Nat]
        /\ NoticeInv /\ NoticeSerial

UploadInv ==
  /\ job = "dropbox_import_job" =>
       \A i \in Instances : \A k \in 1..Len(todo[i]) : todo[i][k].n \in 1..Files
  /\ \A i \in Instances : at[i] = "loading" => upload[Content[todo[i][1].n]].records > 0

\* The upload is on record before the rows.
UploadSerial == ~overlap =>
  /\ \A c \in 1..Files : \A r \in 1..Rows :
       /\ loaded[c][r] <= 1
       /\ upload[c].records = 0 => loaded[c][r] = 0
  /\ \A i \in Instances :
       /\ at[i] = "looked" => upload[Content[todo[i][1].n]].records = 0
       /\ at[i] = "loading" => \A r \in 1..Rows : r > row[i] => loaded[Content[todo[i][1].n]][r] = 0

Upload == [records: Nat, counted: BOOLEAN, byHand: BOOLEAN]

Dropbox == /\ place \in [1..Files -> {"absent", "inbox", "processed", "failed"}]
           /\ upload \in [1..Files -> Upload] /\ loaded \in [1..Files -> [1..Rows -> Nat]]
           /\ UploadInv /\ UploadSerial

Others == /\ export \in ExportStatuses \cup {"absent"}
          /\ demo \in [DemoParts -> Instances \cup {None}] /\ touched \in BOOLEAN /\ barred \subseteq Outside
          /\ faults \in 0..MaxFaults

IInv == Control /\ Mail /\ Dropbox /\ Others

LEMMA IInvTypes == ASSUME IInv PROVE TypeOK
<1>1. \A i \in Instances : \A k \in 1..Len(todo[i]) : todo[i][k].n \in Nat /\ todo[i][k].tries \in 0..MaxAttempts
  <2>1. ASSUME NEW i \in Instances, NEW k \in 1..Len(todo[i])
        PROVE  todo[i][k].n \in Nat /\ todo[i][k].tries \in 0..MaxAttempts
    <3>1. todo[i] \in Seq(Work)
      BY DEF IInv, Control
    <3>2. todo[i][k] \in Work
      BY <3>1
    <3> QED BY <3>2 DEF Work
  <2> QED BY <2>1
<1> QED BY <1>1 DEF IInv, Control, Mail, Dropbox, Others, Upload, TypeOK

-----------------------------------------------------------------------------
(* The shape of a step of an instance: where it is then, what it has to do *)
(* and the rows it has loaded.                                             *)

Frame(i, a, t, r) ==
  /\ at' = [at EXCEPT ![i] = a] /\ todo' = [todo EXCEPT ![i] = t] /\ row' = [row EXCEPT ![i] = r]
  /\ job' = job
  /\ a \in WithoutItems => t = <<>>
  /\ a \in {"delivered", "refused"} => job = "notification_dispatch_job" /\ t # <<>>
  /\ a \in {"looked", "loading", "counted", "broken"} => job = "dropbox_import_job" /\ t # <<>>
  /\ a \notin {"loading", "counted"} => r = 0
  /\ \/ /\ at[i] # "idle" /\ a # "idle" /\ holder' = holder
        /\ overlap' = overlap /\ unlocked' = unlocked
     \/ /\ at[i] # "idle" /\ a = "idle" /\ holder' = Unlocked(i)
        /\ overlap' = overlap /\ unlocked' = unlocked
     \/ /\ at[i] = "idle" /\ job # "data_export" /\ holder' \in Instances \cup {None}
        /\ overlap' = (overlap \/ \E j \in Instances \ {i} : Working(j))
        /\ \/ unlocked' = TRUE
           \/ unlocked' = unlocked /\ (Locking => holder = None /\ holder' = i)
     \/ job = "data_export" /\ holder' = holder /\ overlap' = overlap /\ unlocked' = unlocked

LEMMA FrameFacts ==
  ASSUME Control, NEW i \in Instances, NEW a \in Steps, NEW t \in Seq(Work), NEW r \in 0..Rows,
         Frame(i, a, t, r)
  PROVE  /\ at' \in [Instances -> Steps] /\ todo' \in [Instances -> Seq(Work)]
         /\ row' \in [Instances -> 0..Rows] /\ job' = job
         /\ at'[i] = a /\ todo'[i] = t /\ row'[i] = r
         /\ \A j \in Instances \ {i} : at'[j] = at[j] /\ todo'[j] = todo[j] /\ row'[j] = row[j]
         /\ ~overlap' => ~overlap
BY DEF Control, Frame

\* Where runs do not overlap, nobody else is at work.
LEMMA Alone ==
  ASSUME Control, NEW i \in Instances, NEW a \in Steps, NEW t \in Seq(Work), NEW r \in 0..Rows,
         Frame(i, a, t, r), ~overlap', job # "data_export"
  PROVE  \A j \in Instances \ {i} : at[j] = "idle" /\ todo[j] = <<>>
<1>1. ASSUME NEW j \in Instances \ {i} PROVE at[j] = "idle"
  <2>1. CASE at[i] # "idle"
    <3>1. ~overlap
      BY FrameFacts
    <3> QED BY <2>1, <3>1 DEF Control, SerialInv, Working
  <2>2. CASE at[i] = "idle"
    <3>1. overlap' = (overlap \/ \E k \in Instances \ {i} : Working(k))
      BY <2>2 DEF Frame
    <3> QED BY <3>1 DEF Working
  <2> QED BY <2>1, <2>2
<1> QED BY <1>1 DEF Control, StepInv, WithoutItems

LEMMA ControlStep ==
  ASSUME Control, NEW i \in Instances, NEW a \in Steps, NEW t \in Seq(Work), NEW r \in 0..Rows,
         Frame(i, a, t, r)
  PROVE  Control'
<1>0. /\ at' \in [Instances -> Steps] /\ todo' \in [Instances -> Seq(Work)]
      /\ row' \in [Instances -> 0..Rows] /\ job' = job
      /\ at'[i] = a /\ todo'[i] = t /\ row'[i] = r
      /\ \A j \in Instances \ {i} : at'[j] = at[j] /\ todo'[j] = todo[j] /\ row'[j] = row[j]
  BY FrameFacts
<1>1. holder' \in Instances \cup {None} /\ overlap' \in BOOLEAN /\ unlocked' \in BOOLEAN
  <2>1. holder' \in Instances \cup {None}
    BY DEF Control, Frame, Unlocked
  <2>2. overlap' \in BOOLEAN
    <3>1. CASE overlap' = overlap
      BY <3>1 DEF Control
    <3>2. CASE overlap' = (overlap \/ \E j \in Instances \ {i} : Working(j))
      BY <3>2
    <3> QED BY <3>1, <3>2 DEF Frame
  <2>3. unlocked' \in BOOLEAN
    BY DEF Control, Frame
  <2> QED BY <2>1, <2>2, <2>3
<1>2. StepInv'
  <2>1. ASSUME NEW j \in Instances
        PROVE  /\ at'[j] \in WithoutItems => todo'[j] = <<>>
               /\ at'[j] \in {"delivered", "refused"} => job = "notification_dispatch_job" /\ todo'[j] # <<>>
               /\ at'[j] \in {"looked", "loading", "counted", "broken"}
                    => job = "dropbox_import_job" /\ todo'[j] # <<>>
               /\ at'[j] \notin {"loading", "counted"} => row'[j] = 0
    <3>1. CASE j = i
      BY <1>0, <3>1 DEF Frame
    <3>2. CASE j # i
      BY <1>0, <3>2 DEF Control, StepInv
    <3> QED BY <3>1, <3>2
  <2> QED BY <1>0, <2>1 DEF StepInv
<1>3. SerialInv'
  <2>1. ASSUME job # "data_export", ~overlap', NEW j \in Instances, at'[j] # "idle" PROVE j = i
    BY <1>0, <2>1, Alone
  <2> QED BY <1>0, <2>1 DEF SerialInv, Working
<1>4. LockInv'
  <2>1. SUFFICES ASSUME job # "data_export", Locking, ~unlocked'
                 PROVE  ~overlap' /\ \A j \in Instances : at'[j] # "idle" => holder' = j
    BY <1>0 DEF LockInv, Working
  <2>2. ~unlocked
    BY <2>1 DEF Frame
  <2>3. ~overlap /\ \A j \in Instances : at[j] # "idle" => holder = j
    BY <2>1, <2>2 DEF Control, LockInv, Working
  <2>4. ~overlap'
    <3>1. CASE at[i] # "idle"
      BY <2>1, <2>3, <3>1 DEF Frame
    <3>2. CASE at[i] = "idle"
      <4>1. holder = None
        BY <2>1, <3>2 DEF Frame
      <4>2. \A j \in Instances : at[j] = "idle"
        BY <2>3, <4>1, ConstantsAssumption
      <4>3. overlap' = (overlap \/ \E j \in Instances \ {i} : Working(j))
        BY <2>1, <3>2 DEF Frame
      <4> QED BY <2>3, <4>2, <4>3 DEF Working
    <3> QED BY <3>1, <3>2
  <2>5. ASSUME NEW j \in Instances, at'[j] # "idle" PROVE holder' = j
    <3>1. j = i
      BY <1>0, <2>1, <2>4, <2>5, Alone
    <3>2. CASE at[i] # "idle"
      BY <1>0, <2>1, <2>3, <2>5, <3>1, <3>2 DEF Frame
    <3>3. CASE at[i] = "idle"
      BY <2>1, <3>1, <3>3 DEF Frame
    <3> QED BY <3>2, <3>3
  <2> QED BY <2>4, <2>5
<1>5. job = "data_export" => ~overlap'
  <2>1. job = "data_export" => overlap' = overlap
    BY DEF Frame
  <2> QED BY <2>1 DEF Control
<1> QED BY <1>0, <1>1, <1>2, <1>3, <1>4, <1>5 DEF Control

-----------------------------------------------------------------------------
(* Steps that leave the notifications, or the uploads, alone.              *)

\* What an instance may have to do, with the notifications as they are.
Queued(t) == \A k \in 1..Len(t) :
  /\ t[k].n \in 1..Notices /\ t[k].tries < MaxAttempts
  /\ notice[t[k].n].status # "absent"

StillPending(t) == \A k \in 1..Len(t) :
  /\ notice[t[k].n].status = "pending"
  /\ \A m \in 1..Len(t) : t[m].n = t[k].n => m = k

LEMMA MailKept ==
  ASSUME Control, Mail, NEW i \in Instances, NEW a \in Steps, NEW t \in Seq(Work), NEW r \in 0..Rows,
         Frame(i, a, t, r), UNCHANGED mail, faults \in Nat, faults' \in Nat, faults <= faults',
         job = "notification_dispatch_job" => Queued(t),
         job = "notification_dispatch_job" /\ ~overlap' => StillPending(t),
         a # "delivered", at[i] = "delivered" => faults < faults'
  PROVE  Mail'
<1>0. /\ job' = job /\ at'[i] = a /\ todo'[i] = t
      /\ \A j \in Instances \ {i} : at'[j] = at[j] /\ todo'[j] = todo[j]
      /\ notice' = notice /\ received' = received
      /\ ~overlap' => ~overlap
  BY FrameFacts DEF mail
<1>1. \A n \in 1..Notices : received[n] \in Nat
  BY DEF Mail
<1>2. NoticeInv'
  <2>1. ASSUME job = "notification_dispatch_job", NEW j \in Instances, NEW k \in 1..Len(todo'[j])
        PROVE  /\ todo'[j][k].n \in 1..Notices /\ todo'[j][k].tries < MaxAttempts
               /\ notice[todo'[j][k].n].status # "absent"
    <3>1. CASE j = i
      BY <1>0, <2>1, <3>1 DEF Queued
    <3>2. CASE j # i
      BY <1>0, <2>1, <3>2 DEF Mail, NoticeInv
    <3> QED BY <3>1, <3>2
  <2>2. ASSUME NEW j \in Instances, at'[j] = "delivered" PROVE received[todo'[j][1].n] > 0
    BY <1>0, <2>2 DEF Mail, NoticeInv
  <2>3. \A n \in 1..Notices :
          /\ notice'[n].status \in {"absent", "pending"} => notice'[n].tries < MaxAttempts
          /\ notice'[n].status = "sent" => received'[n] > 0
          /\ notice'[n].status = "absent" => received'[n] = 0
    BY <1>0 DEF Mail, NoticeInv
  <2>4. job' = job /\ notice' = notice /\ received' = received
    BY <1>0
  <2> QED BY <2>1, <2>2, <2>3, <2>4 DEF NoticeInv
<1>3. ASSUME ~overlap', job = "notification_dispatch_job", NEW j \in Instances, NEW k \in 1..Len(todo'[j])
      PROVE  /\ notice'[todo'[j][k].n].status = "pending"
             /\ \A m \in 1..Len(todo'[j]) : todo'[j][m].n = todo'[j][k].n => m = k
  <2>1. CASE j = i
    BY <1>0, <1>3, <2>1 DEF StillPending
  <2>2. CASE j # i
    <3>1. todo'[j] = <<>>
      BY <1>0, <1>3, <2>2, Alone
    <3> QED BY <1>3, <3>1
  <2> QED BY <2>1, <2>2
<1>4. ASSUME ~overlap', NEW n \in 1..Notices
      PROVE  /\ received'[n] <= 1 + faults'
             /\ notice'[n].status \in {"absent", "pending"} => received'[n] <= faults' \/ InFlight(n)'
             /\ notice'[n].status = "failed" => notice'[n].tries = MaxAttempts
  <2>0. ~overlap
    BY <1>0, <1>4
  <2>1. /\ received[n] <= 1 + faults
        /\ notice[n].status \in {"absent", "pending"} => received[n] <= faults \/ InFlight(n)
        /\ notice[n].status = "failed" => notice[n].tries = MaxAttempts
    BY <2>0 DEF Mail, NoticeSerial
  <2>2. ASSUME InFlight(n) PROVE received[n] <= faults' \/ InFlight(n)'
    <3>1. PICK j \in Instances : at[j] = "delivered" /\ todo[j][1].n = n
      BY <2>2 DEF InFlight
    <3>2. CASE j = i
      BY <1>1, <2>1, <3>1, <3>2
    <3>3. CASE j # i
      BY <1>0, <3>1, <3>3 DEF InFlight
    <3> QED BY <3>2, <3>3
  <2>3. received[n] <= 1 + faults' /\ (received[n] <= faults => received[n] <= faults')
    BY <1>1, <2>1
  <2> QED BY <1>0, <2>1, <2>2, <2>3
<1>5. NoticeSerial'
  <2>1. job' = job
    BY <1>0
  <2> QED BY <1>3, <1>4, <2>1 DEF NoticeSerial
<1>6. notice' \in [1..Notices -> Notice] /\ received' \in [1..Notices -> Nat]
  BY <1>0 DEF Mail
<1> QED BY <1>2, <1>5, <1>6 DEF Mail

Dropped(t) == \A k \in 1..Len(t) : t[k].n \in 1..Files

LEMMA UploadsKept ==
  ASSUME Control, Dropbox, NEW i \in Instances, NEW a \in Steps, NEW t \in Seq(Work), NEW r \in 0..Rows,
         Frame(i, a, t, r), UNCHANGED <<upload, loaded>>,
         place' \in [1..Files -> {"absent", "inbox", "processed", "failed"}],
         job = "dropbox_import_job" => Dropped(t),
         a # "loading", a = "looked" => upload[Content[t[1].n]].records = 0
  PROVE  Dropbox'
<1>0. /\ job' = job /\ at'[i] = a /\ todo'[i] = t
      /\ \A j \in Instances \ {i} : at'[j] = at[j] /\ todo'[j] = todo[j] /\ row'[j] = row[j]
      /\ ~overlap' => ~overlap
  BY FrameFacts
<1>1. UploadInv'
  <2>1. ASSUME job = "dropbox_import_job", NEW j \in Instances, NEW k \in 1..Len(todo'[j])
        PROVE  todo'[j][k].n \in 1..Files
    <3>1. CASE j = i
      BY <1>0, <2>1, <3>1 DEF Dropped
    <3>2. CASE j # i
      BY <1>0, <2>1, <3>2 DEF Dropbox, UploadInv
    <3> QED BY <3>1, <3>2
  <2>2. ASSUME NEW j \in Instances, at'[j] = "loading" PROVE upload[Content[todo'[j][1].n]].records > 0
    BY <1>0, <2>2 DEF Dropbox, UploadInv
  <2> QED BY <1>0, <2>1, <2>2 DEF UploadInv
<1>2. UploadSerial'
  <2>1. ASSUME ~overlap', NEW j \in Instances
        PROVE  /\ at'[j] = "looked" => upload[Content[todo'[j][1].n]].records = 0
               /\ at'[j] = "loading" =>
                    \A q \in 1..Rows : q > row'[j] => loaded[Content[todo'[j][1].n]][q] = 0
    <3>1. CASE j = i
      BY <1>0, <3>1
    <3>2. CASE j # i
      BY <1>0, <2>1, <3>2 DEF Dropbox, UploadSerial
    <3> QED BY <3>1, <3>2
  <2> QED BY <1>0, <2>1 DEF Dropbox, UploadSerial
<1> QED BY <1>1, <1>2 DEF Dropbox

\* What a run starts from.
LEMMA FirstOfFacts ==
  ASSUME NEW N \in Nat, NEW S \in SUBSET (1..N), NEW k \in Nat, NEW s \in FirstOf(S, k)
  PROVE  \A x \in 1..k : s[x] \in S /\ s[x] \in Nat
<1>1. s \in [1..k -> S]
  BY DEF FirstOf
<1>2. ASSUME NEW x \in 1..k PROVE s[x] \in S /\ s[x] \in Nat
  <2>1. s[x] \in S
    BY <1>1
  <2>2. s[x] \in 1..N
    BY <2>1
  <2> QED BY <2>1, <2>2
<1> QED BY <1>1, <1>2

LEMMA CountOf ==
  ASSUME NEW N \in Nat, NEW S \in SUBSET (1..N)
  PROVE  Cardinality(S) \in Nat
<1>1. IsFiniteSet(1..N)
  BY FS_Interval
<1> QED BY <1>1, FS_Subset, FS_CardinalityType

LEMMA BatchFacts ==
  ASSUME Control, Mail, NEW batch \in Batch
  PROVE  /\ batch \in Seq(Work)
         /\ job = "notification_dispatch_job" => Queued(batch) /\ StillPending(batch)
         /\ job # "notification_dispatch_job" => Dropped(batch)
<1>0. Notices \in Nat /\ Files \in Nat /\ BatchSize \in Nat /\ MaxAttempts \in Nat
  BY ConstantsAssumption
<1>1. CASE job = "notification_dispatch_job"
  <2>1. PICK size \in Nat :
          \E s \in FirstOf(Pending, size) :
            batch = [k \in 1..size |-> [n |-> s[k], tries |-> notice[s[k]].tries]]
    <3>1. Cardinality(Pending) \in Nat
      BY <1>0, CountOf DEF Pending
    <3> QED BY <1>0, <1>1, <3>1 DEF Batch
  <2>2. PICK s \in FirstOf(Pending, size) :
          batch = [k \in 1..size |-> [n |-> s[k], tries |-> notice[s[k]].tries]]
    BY <2>1
  <2>3. /\ \A x \in 1..size : s[x] \in Pending /\ s[x] \in Nat
        /\ \A x, y \in 1..size : s[x] = s[y] => x = y
    <3>1. Pending \in SUBSET (1..Notices)
      BY DEF Pending
    <3>2. \A x \in 1..size : s[x] \in Pending /\ s[x] \in Nat
      BY <1>0, <3>1, FirstOfFacts
    <3>3. \A x, y \in 1..size : s[x] = s[y] => x = y
      <4>1. \A x, y \in 1..size : x < y => s[x] < s[y]
        BY DEF FirstOf
      <4> QED BY <3>2, <4>1
    <3> QED BY <3>2, <3>3
  <2>4. ASSUME NEW k \in 1..size
        PROVE  /\ batch[k] = [n |-> s[k], tries |-> notice[s[k]].tries]
               /\ s[k] \in 1..Notices /\ s[k] \in Nat /\ notice[s[k]].status = "pending"
               /\ notice[s[k]].tries \in 0..MaxAttempts /\ notice[s[k]].tries < MaxAttempts
    BY <2>2, <2>3 DEF Pending, Mail, Notice, NoticeInv
  <2>5. batch \in Seq(Work) /\ Len(batch) = size
    <3>1. ASSUME NEW k \in 1..size PROVE [n |-> s[k], tries |-> notice[s[k]].tries] \in Work
      BY <2>4 DEF Work
    <3> QED BY <2>2, <3>1
  <2>6. ASSUME NEW k \in 1..size PROVE batch[k].n = s[k] /\ batch[k].tries = notice[s[k]].tries
    <3>1. batch[k] = [n |-> s[k], tries |-> notice[s[k]].tries]
      BY <2>4
    <3> QED BY <3>1
  <2>7. Queued(batch)
    BY <2>4, <2>5, <2>6 DEF Queued
  <2>8. StillPending(batch)
    BY <2>3, <2>4, <2>5, <2>6 DEF StillPending
  <2> QED BY <1>1, <2>5, <2>7, <2>8
<1>2. CASE job # "notification_dispatch_job"
  <2>1. PICK size \in Nat :
          \E s \in FirstOf(Inbox, size) : batch = [k \in 1..size |-> [n |-> s[k], tries |-> 0]]
    <3>1. Cardinality(Inbox) \in Nat
      BY <1>0, CountOf DEF Inbox
    <3> QED BY <1>2, <3>1 DEF Batch
  <2>2. PICK s \in FirstOf(Inbox, size) : batch = [k \in 1..size |-> [n |-> s[k], tries |-> 0]]
    BY <2>1
  <2>3. \A x \in 1..size : s[x] \in 1..Files /\ s[x] \in Nat
    <3>1. Inbox \in SUBSET (1..Files)
      BY DEF Inbox
    <3>2. \A x \in 1..size : s[x] \in Inbox /\ s[x] \in Nat
      BY <1>0, <3>1, FirstOfFacts
    <3> QED BY <3>1, <3>2
  <2>4. batch \in Seq(Work) /\ Len(batch) = size
    <3>1. ASSUME NEW k \in 1..size PROVE [n |-> s[k], tries |-> 0] \in Work
      BY <1>0, <2>3 DEF Work
    <3> QED BY <2>2, <3>1
  <2>5. Dropped(batch)
    BY <2>2, <2>3, <2>4 DEF Dropped
  <2> QED BY <1>2, <2>4, <2>5
<1> QED BY <1>1, <1>2

LEMMA TailFacts ==
  ASSUME NEW s \in Seq(Work), s # <<>>
  PROVE  /\ Tail(s) \in Seq(Work) /\ Len(s) \in Nat /\ Len(s) >= 1 /\ Len(Tail(s)) = Len(s) - 1
         /\ Head(s) = s[1] /\ s[1] \in Work /\ s[1].n \in Nat /\ s[1].tries \in 0..MaxAttempts
         /\ \A k \in 1..Len(Tail(s)) : Tail(s)[k] = s[k + 1] /\ k + 1 \in 1..Len(s)
<1>1. /\ Tail(s) \in Seq(Work) /\ Len(s) \in Nat /\ Len(s) >= 1 /\ Len(Tail(s)) = Len(s) - 1
      /\ Head(s) = s[1] /\ s[1] \in Work
      /\ \A k \in 1..Len(Tail(s)) : Tail(s)[k] = s[k + 1] /\ k + 1 \in 1..Len(s)
  OBVIOUS
<1> QED BY <1>1 DEF Work

\* What an instance has to do, once it has done or left some.
LEMMA RestFacts ==
  ASSUME Control, Mail, Dropbox, NEW i \in Instances, NEW t \in Seq(Work),
         \/ t = <<>> \/ t = todo[i] \/ (todo[i] # <<>> /\ t = Tail(todo[i])) \/ t \in Batch
  PROVE  /\ job = "notification_dispatch_job" => Queued(t)
         /\ job = "notification_dispatch_job" /\ ~overlap => StillPending(t)
         /\ job = "dropbox_import_job" => Dropped(t)
<1>0. todo[i] \in Seq(Work)
  BY DEF Control
<1>1. PICK old \in Seq(Work) : old = todo[i]
  BY <1>0
<1>2. /\ job = "notification_dispatch_job" => Queued(old)
      /\ job = "notification_dispatch_job" /\ ~overlap => StillPending(old)
      /\ job = "dropbox_import_job" => Dropped(old)
  BY <1>1 DEF Mail, NoticeInv, NoticeSerial, Dropbox, UploadInv, Queued, StillPending, Dropped
<1>3. CASE t = <<>>
  BY <1>3 DEF Queued, StillPending, Dropped
<1>4. CASE t = old
  BY <1>2, <1>4
<1>5. CASE old # <<>> /\ t = Tail(old)
  <2>1. /\ Len(old) \in Nat /\ Len(t) = Len(old) - 1
        /\ \A k \in 1..Len(t) : t[k] = old[k + 1] /\ k + 1 \in 1..Len(old)
    BY <1>5, TailFacts
  <2>2. Queued(old) => Queued(t)
    BY <2>1 DEF Queued
  <2>3. Dropped(old) => Dropped(t)
    BY <2>1 DEF Dropped
  <2>4. ASSUME StillPending(old), NEW k \in 1..Len(t)
        PROVE  /\ notice[t[k].n].status = "pending"
               /\ \A m \in 1..Len(t) : t[m].n = t[k].n => m = k
    <3>1. notice[old[k + 1].n].status = "pending"
      BY <2>1, <2>4 DEF StillPending
    <3>2. ASSUME NEW m \in 1..Len(t), t[m].n = t[k].n PROVE m = k
      <4>1. m + 1 = k + 1
        BY <2>1, <2>4, <3>2 DEF StillPending
      <4> QED BY <2>1, <4>1
    <3> QED BY <2>1, <3>1, <3>2
  <2>5. StillPending(old) => StillPending(t)
    BY <2>4 DEF StillPending
  <2> QED BY <1>2, <2>2, <2>3, <2>5
<1>6. CASE t \in Batch
  BY <1>6, BatchFacts
<1> QED BY <1>1, <1>3, <1>4, <1>5, <1>6

\* A step that neither hands over a message, nor writes a notification, nor loads anything.
Quiet(i, a, t, r) ==
  /\ Frame(i, a, t, r)
  /\ \/ t = <<>> \/ t = todo[i] \/ (todo[i] # <<>> /\ t = Tail(todo[i])) \/ t \in Batch
  /\ a \notin {"delivered", "loading"}
  /\ a = "looked" => upload[Content[t[1].n]].records = 0
  /\ UNCHANGED <<notice, received, upload, loaded>>
  /\ \/ faults' = faults /\ at[i] # "delivered"
     \/ faults < MaxFaults /\ faults' = faults + 1
  /\ place' \in [1..Files -> {"absent", "inbox", "processed", "failed"}]
  /\ export' \in ExportStatuses \cup {"absent"}
  /\ demo' \in [DemoParts -> Instances \cup {None}] /\ touched' \in BOOLEAN /\ barred' \subseteq Outside

LEMMA QuietStep ==
  ASSUME IInv, NEW i \in Instances, NEW a \in Steps, NEW t \in Seq(Work), NEW r \in 0..Rows,
         Quiet(i, a, t, r)
  PROVE  IInv'
<1>0. Control /\ Mail /\ Dropbox /\ Others /\ Frame(i, a, t, r)
  BY DEF IInv, Quiet
<1>1. Control'
  BY <1>0, ControlStep
<1>2. /\ job = "notification_dispatch_job" => Queued(t)
      /\ job = "notification_dispatch_job" /\ ~overlap => StillPending(t)
      /\ job = "dropbox_import_job" => Dropped(t)
  <2>1. \/ t = <<>> \/ t = todo[i] \/ (todo[i] # <<>> /\ t = Tail(todo[i])) \/ t \in Batch
    BY DEF Quiet
  <2> QED BY <1>0, <2>1, RestFacts
<1>3. /\ faults \in Nat /\ faults' \in Nat /\ faults <= faults' /\ faults' \in 0..MaxFaults
      /\ at[i] = "delivered" => faults < faults'
  BY <1>0, ConstantsAssumption DEF Quiet, Others
<1>4. ~overlap' => ~overlap
  BY <1>0, FrameFacts
<1>5. Mail'
  <2>1. a # "delivered" /\ UNCHANGED mail
    BY DEF Quiet, mail
  <2> QED BY <1>0, <1>2, <1>3, <1>4, <2>1, MailKept
<1>6. Dropbox'
  <2>1. /\ a # "loading" /\ UNCHANGED <<upload, loaded>>
        /\ a = "looked" => upload[Content[t[1].n]].records = 0
        /\ place' \in [1..Files -> {"absent", "inbox", "processed", "failed"}]
    BY DEF Quiet
  <2> QED BY <1>0, <1>2, <2>1, UploadsKept
<1>7. Others'
  BY <1>3 DEF Quiet, Others
<1> QED BY <1>1, <1>5, <1>6, <1>7 DEF IInv

-----------------------------------------------------------------------------
(* How an instance goes on, is done with an item, stops and begins.        *)

LEMMA Typed ==
  ASSUME IInv, NEW i \in Instances
  PROVE  /\ Control /\ Mail /\ Dropbox /\ Others /\ StepInv
         /\ at[i] \in Steps /\ todo[i] \in Seq(Work) /\ row[i] \in 0..Rows /\ 0 \in 0..Rows
         /\ todo = [todo EXCEPT ![i] = todo[i]] /\ row = [row EXCEPT ![i] = row[i]]
         /\ row[i] # 0 => at[i] \in {"loading", "counted"}
         /\ <<>> \in Seq(Work) /\ Rows \in Nat /\ faults \in Nat
<1>1. Control /\ Mail /\ Dropbox /\ Others /\ StepInv
  BY DEF IInv, Control
<1>2. /\ at[i] \in Steps /\ todo[i] \in Seq(Work) /\ row[i] \in 0..Rows
      /\ todo = [todo EXCEPT ![i] = todo[i]] /\ row = [row EXCEPT ![i] = row[i]]
  BY <1>1 DEF Control
<1>3. row[i] # 0 => at[i] \in {"loading", "counted"}
  BY <1>1 DEF StepInv
<1>4. <<>> \in Seq(Work) /\ Rows \in Nat /\ 0 \in 0..Rows /\ faults \in Nat
  BY <1>1, ConstantsAssumption DEF Others
<1> QED BY <1>1, <1>2, <1>3, <1>4

LEMMA GoesOn ==
  ASSUME IInv, NEW i \in Instances, NEW a \in Steps, NEW r \in 0..Rows,
         at' = [at EXCEPT ![i] = a], row' = [row EXCEPT ![i] = r],
         UNCHANGED <<job, holder, todo, overlap, unlocked>>,
         at[i] # "idle", a # "idle", a \notin {"loading", "counted"} => r = 0,
         a \in {"delivered", "refused"} => job = "notification_dispatch_job" /\ todo[i] # <<>>,
         a \in {"looked", "loading", "counted", "broken"} => job = "dropbox_import_job" /\ todo[i] # <<>>,
         a \notin WithoutItems
  PROVE  Frame(i, a, todo[i], r)
BY Typed DEF Frame

LEMMA IsDone ==
  ASSUME IInv, NEW i \in Instances, Leave(i), at[i] # "idle", todo[i] # <<>>, unlocked' = unlocked
  PROVE  Frame(i, "next", Tail(todo[i]), 0) /\ Tail(todo[i]) \in Seq(Work) /\ "next" \in Steps
<1>1. Tail(todo[i]) \in Seq(Work)
  BY Typed, TailFacts
<1>2. /\ at' = [at EXCEPT ![i] = "next"] /\ todo' = [todo EXCEPT ![i] = Tail(todo[i])]
      /\ row' = [row EXCEPT ![i] = 0] /\ UNCHANGED <<job, holder, overlap>>
  BY DEF Leave
<1>3. "next" \in Steps
  BY DEF Steps
<1> QED BY <1>1, <1>2, <1>3 DEF Frame, WithoutItems

LEMMA Stops ==
  ASSUME IInv, NEW i \in Instances, Stop(i), at[i] # "idle", job' = job, unlocked' = unlocked
  PROVE  Frame(i, "idle", <<>>, 0) /\ "idle" \in Steps
BY DEF Stop, Frame, Steps

LEMMA Begins ==
  ASSUME IInv, NEW i \in Instances, Begin(i), job # "data_export", holder' \in Instances \cup {None},
         \/ unlocked' = TRUE
         \/ unlocked' = unlocked /\ (Locking => holder = None /\ holder' = i)
  PROVE  \E batch \in Batch : /\ batch \in Seq(Work)
                              /\ Frame(i, "next", batch, 0)
<1>1. PICK batch \in Batch : todo' = [todo EXCEPT ![i] = batch]
  BY DEF Begin
<1>2. batch \in Seq(Work)
  BY Typed, BatchFacts
<1>3. /\ at[i] = "idle" /\ at' = [at EXCEPT ![i] = "next"] /\ job' = job /\ row' = row
      /\ overlap' = (overlap \/ \E j \in Instances \ {i} : Working(j))
  BY DEF Begin
<1>4. row' = [row EXCEPT ![i] = 0]
  <2>1. row[i] = 0
    BY <1>3, Typed
  <2>2. row = [row EXCEPT ![i] = row[i]]
    BY Typed
  <2> QED BY <1>3, <2>1, <2>2
<1>5. Frame(i, "next", batch, 0)
  BY <1>1, <1>3, <1>4 DEF Frame, WithoutItems
<1> QED BY <1>2, <1>5

-----------------------------------------------------------------------------
(* The quiet steps.                                                        *)

LEMMA BeginSteps ==
  ASSUME IInv, NEW i \in Instances, RunExclusively(i) \/ RunImport(i) \/ ResetDemo(i)
  PROVE  IInv'
<1>0. Control /\ Mail /\ Dropbox /\ Others /\ 0 \in 0..Rows
  BY Typed
<1>1. /\ Begin(i) /\ job # "data_export" /\ holder' \in Instances \cup {None} /\ faults' = faults
      /\ \/ unlocked' = TRUE
         \/ unlocked' = unlocked /\ (Locking => holder = None /\ holder' = i)
  BY <1>0 DEF RunExclusively, Start, RunImport, ResetDemo, Unscheduled, history, Control
<1>2. PICK batch \in Batch : batch \in Seq(Work) /\ Frame(i, "next", batch, 0)
  BY <1>1, Begins
<1>3. "next" \in Steps
  BY DEF Steps
<1>4. Quiet(i, "next", batch, 0)
  BY <1>0, <1>1, <1>2 DEF Quiet, Begin, mail, dropbox, others, bank, Dropbox, Others
<1> QED BY <1>0, <1>2, <1>3, <1>4, QuietStep

\* A run that ends; what it seeded may stay.
LEMMA StopSteps ==
  ASSUME IInv, NEW i \in Instances, Stop(i), at[i] # "idle", job' = job, unlocked' = unlocked,
         UNCHANGED <<mail, dropbox, export, touched, barred>>,
         demo' \in [DemoParts -> Instances \cup {None}],
         (faults' = faults /\ at[i] # "delivered") \/ Fault
  PROVE  IInv'
<1>1. Frame(i, "idle", <<>>, 0) /\ "idle" \in Steps
  BY Stops
<1>2. Dropbox /\ Others /\ 0 \in 0..Rows /\ <<>> \in Seq(Work)
  BY Typed
<1>3. Quiet(i, "idle", <<>>, 0)
  BY <1>1, <1>2 DEF Quiet, mail, dropbox, Dropbox, Others, Fault
<1> QED BY <1>1, <1>2, <1>3, QuietStep

LEMMA RunEnds ==
  ASSUME IInv, NEW i \in Instances, Finish(i) \/ Crash(i) \/ CommitFails(i)
  PROVE  IInv'
<1>1. /\ Stop(i) /\ at[i] # "idle" /\ job' = job /\ unlocked' = unlocked
      /\ UNCHANGED <<mail, dropbox, export, demo, touched, barred>>
  BY DEF Finish, Crash, CommitFails, Working, others, bank, history
<1>2. (faults' = faults /\ at[i] # "delivered") \/ Fault
  BY DEF Finish, Crash, CommitFails, history
<1>3. demo' \in [DemoParts -> Instances \cup {None}]
  BY <1>1, Typed DEF Others
<1> QED BY <1>1, <1>2, <1>3, StopSteps

\* An item that is left, or whose file is moved.
LEMMA LeaveSteps ==
  ASSUME IInv, NEW i \in Instances, SkipFile(i) \/ RefuseFile(i) \/ MoveFile(i)
  PROVE  IInv'
<1>0. Control /\ Mail /\ Dropbox /\ Others /\ StepInv /\ 0 \in 0..Rows
  BY Typed
<1>1. /\ Leave(i) /\ at[i] # "idle" /\ at[i] # "delivered" /\ todo[i] # <<>>
      /\ unlocked' = unlocked /\ faults' = faults
      /\ UNCHANGED <<mail, upload, loaded, others>>
  BY DEF SkipFile, RefuseFile, MoveFile, Importing, history, dropbox
<1>2. place' \in [1..Files -> {"absent", "inbox", "processed", "failed"}]
  BY <1>0 DEF SkipFile, RefuseFile, MoveFile, dropbox, Dropbox
<1>3. Frame(i, "next", Tail(todo[i]), 0) /\ Tail(todo[i]) \in Seq(Work) /\ "next" \in Steps
  BY <1>1, IsDone
<1>4. Quiet(i, "next", Tail(todo[i]), 0)
  BY <1>0, <1>1, <1>2, <1>3 DEF Quiet, mail, others, bank, Others
<1> QED BY <1>0, <1>3, <1>4, QuietStep

\* A refusal without a delivery, a file looked up or not readable.
LEMMA StepSteps ==
  ASSUME IInv, NEW i \in Instances, NEW a \in {"refused", "looked", "broken"}, NEW b \in {"next", "loading"},
         Step(i, b, a), row[i] = 0,
         a = "refused" => job = "notification_dispatch_job",
         a \in {"looked", "broken"} => job = "dropbox_import_job",
         a = "looked" => upload[Content[Item(i)]].records = 0,
         UNCHANGED <<row, mail, dropbox, others, history>>
  PROVE  IInv'
<1>0. /\ Control /\ Mail /\ Dropbox /\ Others /\ 0 \in 0..Rows
      /\ todo[i] \in Seq(Work) /\ row = [row EXCEPT ![i] = row[i]]
  BY Typed
<1>1. /\ at[i] = b /\ todo[i] # <<>> /\ at' = [at EXCEPT ![i] = a] /\ a \in Steps
      /\ UNCHANGED <<job, holder, todo, overlap, unlocked>>
  BY DEF Step, history, Steps
<1>2. row' = [row EXCEPT ![i] = 0]
  BY <1>0
<1>3. Item(i) = todo[i][1].n
  BY <1>0, <1>1, TailFacts DEF Item
<1>4. Frame(i, a, todo[i], 0)
  BY <1>0, <1>1, <1>2, GoesOn DEF WithoutItems
<1>5. Quiet(i, a, todo[i], 0)
  BY <1>0, <1>1, <1>3, <1>4 DEF Quiet, mail, dropbox, others, bank, history, Dropbox, Others
<1> QED BY <1>0, <1>1, <1>5, QuietStep

LEMMA LookSteps ==
  ASSUME IInv, NEW i \in Instances, LookUpFile(i) \/ ParseFails(i)
  PROVE  IInv'
<1>1. at[i] # "idle" /\ (at[i] \notin {"loading", "counted"} => row[i] = 0)
  BY Typed DEF LookUpFile, ParseFails, Step, StepInv
<1>2. CASE LookUpFile(i)
  <2>1. /\ Step(i, "next", "looked") /\ row[i] = 0 /\ job = "dropbox_import_job"
        /\ upload[Content[Item(i)]].records = 0 /\ UNCHANGED <<row, mail, dropbox, others, history>>
    BY <1>1, <1>2 DEF LookUpFile, Step
  <2> QED BY <2>1, StepSteps
<1>3. CASE ParseFails(i)
  <2>1. /\ Step(i, "loading", "broken") /\ row[i] = 0 /\ job = "dropbox_import_job"
        /\ UNCHANGED <<row, mail, dropbox, others, history>>
    BY <1>3 DEF ParseFails
  <2> QED BY <2>1, StepSteps
<1> QED BY <1>2, <1>3

\* An export goes on.
LEMMA ExportSteps ==
  ASSUME IInv, NEW i \in Instances, RequestExport(i) \/ BeginExport(i) \/ BuildArchive(i) \/ EndExport(i)
  PROVE  IInv'
<1>0. /\ Control /\ Dropbox /\ Others /\ StepInv /\ 0 \in 0..Rows /\ todo[i] \in Seq(Work)
      /\ todo = [todo EXCEPT ![i] = todo[i]] /\ row = [row EXCEPT ![i] = row[i]]
  BY Typed
<1>1. PICK a \in {"idle", "requested", "running", "built", "unbuilt"},
           b \in {"idle", "requested", "running", "built", "unbuilt"} : ExportStep(i, b, a)
  BY DEF RequestExport, BeginExport, BuildArchive, EndExport
<1>2. export' \in ExportStatuses \cup {"absent"}
  BY <1>0 DEF RequestExport, BeginExport, BuildArchive, EndExport, ExportStatuses, Others
<1>3. /\ at[i] = b /\ at' = [at EXCEPT ![i] = a] /\ a \in Steps /\ job = "data_export"
      /\ UNCHANGED <<job, holder, todo, row, overlap, unlocked>>
  BY <1>1 DEF ExportStep, Steps, history
<1>4. row[i] = 0
  BY <1>0, <1>3 DEF StepInv
<1>5. todo[i] = <<>>
  BY <1>0, <1>3 DEF StepInv, WithoutItems
<1>6. Frame(i, a, <<>>, 0)
  BY <1>0, <1>3, <1>4, <1>5 DEF Frame
<1>7. Quiet(i, a, <<>>, 0)
  BY <1>0, <1>1, <1>2, <1>3, <1>6 DEF Quiet, ExportStep, mail, dropbox, bank, history, Dropbox, Others
<1>8. <<>> \in Seq(Work)
  OBVIOUS
<1> QED BY <1>0, <1>3, <1>7, <1>8, QuietStep

\* A reset of the demo goes on.
LEMMA ResettingStep ==
  ASSUME IInv, NEW i \in Instances,
         NEW a \in {"wiped", "administered", "peopled", "opened", "presented"},
         NEW b \in {"next", "wiped", "administered", "peopled", "opened", "presented"},
         Resetting(i, b, a), touched' \in BOOLEAN, barred' \subseteq Outside,
         demo' \in [DemoParts -> Instances \cup {None}]
  PROVE  IInv'
<1>0. /\ Control /\ Dropbox /\ Others /\ StepInv /\ 0 \in 0..Rows /\ todo[i] \in Seq(Work)
      /\ row = [row EXCEPT ![i] = row[i]]
  BY Typed
<1>1. /\ at[i] = b /\ at' = [at EXCEPT ![i] = a] /\ a \in Steps
      /\ UNCHANGED <<job, holder, todo, row, overlap, unlocked, faults>>
      /\ UNCHANGED <<mail, dropbox, export>>
  BY DEF Resetting, Steps, history
<1>2. row' = [row EXCEPT ![i] = 0]
  BY <1>0, <1>1 DEF StepInv
<1>3. Frame(i, a, todo[i], 0)
  BY <1>0, <1>1, <1>2, GoesOn DEF WithoutItems
<1>4. Quiet(i, a, todo[i], 0)
  BY <1>0, <1>1, <1>3 DEF Quiet, mail, dropbox, Dropbox, Others
<1> QED BY <1>0, <1>1, <1>4, QuietStep

LEMMA ResetEndsStep ==
  ASSUME IInv, NEW i \in Instances,
         NEW b \in {"next", "wiped", "administered", "peopled", "opened", "presented"},
         ResetEnds(i, b), UNCHANGED <<touched, barred>>,
         demo' \in [DemoParts -> Instances \cup {None}]
  PROVE  IInv'
BY StopSteps DEF ResetEnds, history

LEMMA DemoSteps ==
  ASSUME IInv, NEW i \in Instances,
         \/ WipeTenantChildren(i) \/ WipeFails(i) \/ SeedAdmin(i) \/ SeedUsers(i) \/ SeedAccounts(i)
         \/ SeedCheckActivity(i) \/ SeedRest(i)
  PROVE  IInv'
<1>1. /\ demo \in [DemoParts -> Instances \cup {None}] /\ touched \in BOOLEAN /\ barred \subseteq Outside
  BY Typed DEF Others
<1>2. ASSUME NEW part, Seeded(part, i)
      PROVE  UNCHANGED <<touched, barred>> /\ demo' \in [DemoParts -> Instances \cup {None}]
  BY <1>1, <1>2 DEF Seeded
<1>3. UNCHANGED bank => UNCHANGED <<touched, barred>> /\ demo' \in [DemoParts -> Instances \cup {None}]
  BY <1>1 DEF bank
<1>4. CASE WipeTenantChildren(i)
  <2>1. /\ Resetting(i, "next", "wiped") /\ touched' \in BOOLEAN /\ barred' \subseteq Outside
        /\ demo' \in [DemoParts -> Instances \cup {None}]
    BY <1>1, <1>4 DEF WipeTenantChildren
  <2> QED BY <2>1, ResettingStep
<1>5. CASE WipeFails(i)
  BY <1>3, <1>5, ResetEndsStep DEF WipeFails
<1>6. CASE SeedAdmin(i)
  BY <1>1, <1>2, <1>3, <1>6, ResettingStep, ResetEndsStep DEF SeedAdmin
<1>7. CASE SeedUsers(i)
  BY <1>1, <1>2, <1>3, <1>7, ResettingStep, ResetEndsStep DEF SeedUsers
<1>8. CASE SeedAccounts(i)
  BY <1>1, <1>2, <1>3, <1>8, ResettingStep, ResetEndsStep DEF SeedAccounts
<1>9. CASE SeedCheckActivity(i)
  BY <1>1, <1>2, <1>3, <1>9, ResettingStep, ResetEndsStep DEF SeedCheckActivity
<1>10. CASE SeedRest(i)
  BY <1>1, <1>2, <1>3, <1>10, ResettingStep, ResetEndsStep DEF SeedRest
<1> QED BY <1>4, <1>5, <1>6, <1>7, <1>8, <1>9, <1>10

LEMMA EnsureDemoStep ==
  ASSUME IInv, NEW i \in Instances, EnsureDemoTenant(i)
  PROVE  IInv'
<1>0. /\ Control /\ Dropbox /\ Others /\ StepInv /\ 0 \in 0..Rows /\ todo[i] \in Seq(Work)
      /\ row = [row EXCEPT ![i] = row[i]] /\ todo = [todo EXCEPT ![i] = todo[i]]
  BY Typed
<1>1. /\ at[i] = "idle" /\ at' = [at EXCEPT ![i] = "administered"] /\ job = "demo_reset_job"
      /\ demo' = [demo EXCEPT !["tenant"] = i, !["admin"] = i]
      /\ overlap' = (overlap \/ \E j \in Instances \ {i} : Working(j)) /\ unlocked' = TRUE
      /\ UNCHANGED <<job, holder, todo, row, touched, barred, mail, dropbox, export, faults>>
  BY DEF EnsureDemoTenant, Unscheduled
<1>2. demo' \in [DemoParts -> Instances \cup {None}]
  BY <1>0, <1>1 DEF Others
<1>3. row' = [row EXCEPT ![i] = 0] /\ "administered" \in Steps
  BY <1>0, <1>1 DEF StepInv, Steps
<1>4. holder' \in Instances \cup {None}
  BY <1>0, <1>1 DEF Control
<1>5. Frame(i, "administered", todo[i], 0)
  BY <1>0, <1>1, <1>3, <1>4 DEF Frame, WithoutItems
<1>6. Quiet(i, "administered", todo[i], 0)
  BY <1>0, <1>1, <1>2, <1>5 DEF Quiet, mail, dropbox, Dropbox, Others
<1> QED BY <1>0, <1>3, <1>6, QuietStep

-----------------------------------------------------------------------------
(* Notifications.                                                          *)

\* The item an instance is at.
LEMMA ItemFacts ==
  ASSUME IInv, NEW i \in Instances, todo[i] # <<>>
  PROVE  /\ Item(i) = todo[i][1].n /\ Head(todo[i]).tries = todo[i][1].tries
         /\ Item(i) \in Nat /\ todo[i][1].tries \in 0..MaxAttempts
         /\ 1 \in 1..Len(todo[i])
         /\ job = "notification_dispatch_job" =>
              /\ Item(i) \in 1..Notices /\ todo[i][1].tries < MaxAttempts
              /\ notice[Item(i)].status # "absent"
              /\ ~overlap => notice[Item(i)].status = "pending"
         /\ job = "dropbox_import_job" => Item(i) \in 1..Files
<1>1. todo[i] \in Seq(Work) /\ Control /\ Mail /\ Dropbox
  BY Typed
<1>2. /\ Len(todo[i]) \in Nat /\ Len(todo[i]) >= 1 /\ Head(todo[i]) = todo[i][1]
      /\ todo[i][1].n \in Nat /\ todo[i][1].tries \in 0..MaxAttempts
  BY <1>1, TailFacts
<1>3. Item(i) = todo[i][1].n /\ 1 \in 1..Len(todo[i])
  BY <1>2 DEF Item
<1>4. job = "notification_dispatch_job" =>
        /\ todo[i][1].n \in 1..Notices /\ todo[i][1].tries < MaxAttempts
        /\ notice[todo[i][1].n].status # "absent"
  BY <1>1, <1>3 DEF Mail, NoticeInv
<1>5. job = "notification_dispatch_job" /\ ~overlap => notice[todo[i][1].n].status = "pending"
  BY <1>1, <1>3 DEF Mail, NoticeSerial
<1>6. job = "dropbox_import_job" => todo[i][1].n \in 1..Files
  BY <1>1, <1>3 DEF Dropbox, UploadInv
<1> QED BY <1>2, <1>3, <1>4, <1>5, <1>6

\* A message gets there; that it did may get lost.
LEMMA HandOver ==
  ASSUME IInv, NEW i \in Instances, NEW a \in {"delivered", "refused"},
         Step(i, "next", a), job = "notification_dispatch_job", Delivered(i),
         (a = "delivered" /\ faults' = faults) \/ (a = "refused" /\ Fault),
         UNCHANGED <<row, notice, dropbox, others, unlocked>>
  PROVE  IInv'
<1>0. /\ Control /\ Mail /\ Dropbox /\ Others /\ StepInv /\ 0 \in 0..Rows /\ todo[i] \in Seq(Work)
      /\ row = [row EXCEPT ![i] = row[i]] /\ faults \in Nat
  BY Typed
<1>1. /\ at[i] = "next" /\ todo[i] # <<>> /\ at' = [at EXCEPT ![i] = a] /\ a \in Steps
      /\ UNCHANGED <<job, holder, todo, overlap, unlocked>>
  BY DEF Step, Steps
<1>2. row' = [row EXCEPT ![i] = 0]
  BY <1>0, <1>1 DEF StepInv
<1>3. Frame(i, a, todo[i], 0)
  BY <1>0, <1>1, <1>2, GoesOn DEF WithoutItems
<1>4. PICK n \in 1..Notices : n = Item(i)
  BY <1>1, ItemFacts
<1>5. /\ n = todo[i][1].n /\ 1 \in 1..Len(todo[i]) /\ notice[n].status # "absent"
      /\ ~overlap => notice[n].status = "pending"
  BY <1>1, <1>4, ItemFacts
<1>6. /\ received' \in [1..Notices -> Nat] /\ received'[n] = received[n] + 1 /\ received[n] \in Nat
      /\ \A x \in 1..Notices : received[x] \in Nat
      /\ \A x \in 1..Notices \ {n} : received'[x] = received[x]
  BY <1>0, <1>4 DEF Delivered, Mail
<1>7. faults' \in 0..MaxFaults /\ faults' \in Nat /\ ((a = "delivered" /\ faults' = faults) \/ (a = "refused" /\ faults' = faults + 1))
  BY <1>0, ConstantsAssumption DEF Fault, Others
<1>8. Control'
  BY <1>0, <1>1, <1>3, ControlStep
<1>9. Dropbox'
  <2>1. /\ UNCHANGED <<upload, loaded>> /\ job # "dropbox_import_job"
        /\ place' \in [1..Files -> {"absent", "inbox", "processed", "failed"}]
    BY <1>0 DEF dropbox, Dropbox
  <2> QED BY <1>0, <1>1, <1>3, <2>1, UploadsKept
<1>10. Others'
  BY <1>0, <1>7 DEF others, bank, Others
<1>11. NoticeInv'
  <2>1. \A x \in 1..Notices :
          /\ notice[x].status \in {"absent", "pending"} => notice[x].tries < MaxAttempts
          /\ notice[x].status = "sent" => received'[x] > 0
          /\ notice[x].status = "absent" => received'[x] = 0
    <3>1. ASSUME NEW x \in 1..Notices
          PROVE  /\ notice[x].status \in {"absent", "pending"} => notice[x].tries < MaxAttempts
                 /\ notice[x].status = "sent" => received'[x] > 0
                 /\ notice[x].status = "absent" => received'[x] = 0
      <4>1. /\ notice[x].status \in {"absent", "pending"} => notice[x].tries < MaxAttempts
            /\ notice[x].status = "sent" => received[x] > 0
            /\ notice[x].status = "absent" => received[x] = 0
        BY <1>0 DEF Mail, NoticeInv
      <4> QED BY <1>5, <1>6, <4>1
    <3> QED BY <3>1
  <2>2. \A j \in Instances : at'[j] = "delivered" => received'[todo[j][1].n] > 0
    <3>1. ASSUME NEW j \in Instances, at'[j] = "delivered" PROVE received'[todo[j][1].n] > 0
      <4>1. CASE j = i
        BY <1>5, <1>6, <4>1
      <4>2. CASE j # i
        <5>1. at[j] = "delivered"
          BY <1>0, <1>1, <3>1, <4>2 DEF Control
        <5>2. todo[j] # <<>>
          BY <1>0, <5>1 DEF StepInv
        <5>3. PICK x \in 1..Notices : x = todo[j][1].n
          BY <5>2, ItemFacts
        <5>4. received[x] > 0
          BY <1>0, <5>1, <5>3 DEF Mail, NoticeInv
        <5> QED BY <1>6, <5>3, <5>4
      <4> QED BY <4>1, <4>2
    <3> QED BY <3>1
  <2> QED BY <1>0, <1>1, <2>1, <2>2 DEF Mail, NoticeInv
<1>12. ASSUME ~overlap', NEW x \in 1..Notices
       PROVE  /\ received'[x] <= 1 + faults'
              /\ notice'[x].status \in {"absent", "pending"} => received'[x] <= faults' \/ InFlight(x)'
              /\ notice'[x].status = "failed" => notice'[x].tries = MaxAttempts
  <2>1. ~overlap /\ notice' = notice
    BY <1>1, <1>12
  <2>2. /\ received[x] <= 1 + faults
        /\ notice[x].status \in {"absent", "pending"} => received[x] <= faults \/ InFlight(x)
        /\ notice[x].status = "failed" => notice[x].tries = MaxAttempts
    BY <1>0, <2>1 DEF Mail, NoticeSerial
  <2>3. ~InFlight(x)
    <3>1. \A j \in Instances \ {i} : at[j] = "idle"
      BY <1>0, <1>1, <1>3, <1>12, Alone
    <3> QED BY <1>1, <3>1 DEF InFlight
  <2>4. CASE x # n
    BY <1>0, <1>6, <1>7, <2>1, <2>2, <2>3, <2>4
  <2>5. CASE x = n
    <3>1. received[n] <= faults /\ notice[n].status = "pending"
      BY <1>5, <2>1, <2>2, <2>3, <2>5
    <3>2. received'[n] <= 1 + faults' /\ (a = "refused" => received'[n] <= faults')
      BY <1>0, <1>6, <1>7, <3>1
    <3>3. a = "delivered" => InFlight(n)'
      <4>1. at'[i] = a /\ todo'[i] = todo[i]
        BY <1>0, <1>1 DEF Control
      <4> QED BY <1>5, <4>1 DEF InFlight
    <3> QED BY <1>7, <2>1, <2>5, <3>1, <3>2, <3>3
  <2> QED BY <2>4, <2>5
<1>13. NoticeSerial'
  <2>1. job' = job /\ todo' = todo /\ notice' = notice /\ (~overlap' => ~overlap)
    BY <1>1
  <2>2. ASSUME ~overlap', job = "notification_dispatch_job", NEW j \in Instances, NEW k \in 1..Len(todo[j])
        PROVE  /\ notice[todo[j][k].n].status = "pending"
               /\ \A m \in 1..Len(todo[j]) : todo[j][m].n = todo[j][k].n => m = k
    BY <1>0, <2>1, <2>2 DEF Mail, NoticeSerial
  <2> QED BY <1>12, <2>1, <2>2 DEF NoticeSerial
<1>14. Mail'
  BY <1>0, <1>6, <1>11, <1>13 DEF Mail
<1> QED BY <1>8, <1>9, <1>10, <1>14 DEF IInv

LEMMA SendStep ==
  ASSUME IInv, NEW i \in Instances, SendOneNotification(i)
  PROVE  IInv'
<1>1. /\ job = "notification_dispatch_job" /\ UNCHANGED <<row, notice, dropbox, others, unlocked>>
      /\ \/ Step(i, "next", "delivered") /\ Delivered(i) /\ UNCHANGED faults
         \/ Step(i, "next", "refused") /\ UNCHANGED <<received, faults>>
         \/ Step(i, "next", "refused") /\ Delivered(i) /\ Fault
  BY DEF SendOneNotification
<1>2. CASE Step(i, "next", "delivered") /\ Delivered(i) /\ UNCHANGED faults
  <2>1. Step(i, "next", "delivered") /\ Delivered(i) /\ faults' = faults
    BY <1>2
  <2>2. PICK a \in {"delivered", "refused"} : a = "delivered"
    OBVIOUS
  <2>3. Step(i, "next", a)
    BY <2>1, <2>2
  <2>4. (a = "delivered" /\ faults' = faults) \/ (a = "refused" /\ Fault)
    BY <2>1, <2>2
  <2> QED BY <1>1, <2>1, <2>3, <2>4, HandOver
<1>3. CASE Step(i, "next", "refused") /\ Delivered(i) /\ Fault
  BY <1>1, <1>3, HandOver
<1>4. CASE Step(i, "next", "refused") /\ UNCHANGED <<received, faults>>
  <2>1. UNCHANGED <<row, mail, dropbox, others, history>>
    BY <1>1, <1>4 DEF mail, history
  <2>2. row[i] = 0
    BY <1>4, Typed DEF Step, StepInv
  <2> QED BY <1>1, <1>4, <2>1, <2>2, StepSteps
<1> QED BY <1>1, <1>2, <1>3, <1>4

LEMMA NoticeInvNext ==
  ASSUME \A n \in 1..Notices :
           /\ notice'[n].status \in {"absent", "pending"} => notice'[n].tries < MaxAttempts
           /\ notice'[n].status = "sent" => received'[n] > 0
           /\ notice'[n].status = "absent" => received'[n] = 0,
         \A i \in Instances : \A k \in 1..Len(todo'[i]) :
           /\ todo'[i][k].n \in 1..Notices /\ todo'[i][k].tries < MaxAttempts
           /\ notice'[todo'[i][k].n].status # "absent",
         \A i \in Instances : at'[i] = "delivered" => received'[todo'[i][1].n] > 0
  PROVE  NoticeInv'
BY DEF NoticeInv

\* What became of a message is recorded, and the instance goes on to the next.
LEMMA Recorded1 ==
  ASSUME IInv, NEW i \in Instances, at[i] \in {"delivered", "refused"}, Leave(i),
         NEW new \in Notice, notice' = [notice EXCEPT ![Item(i)] = new],
         new.status # "absent", new.status = "pending" => new.tries < MaxAttempts,
         new.status = "sent" => received[Item(i)] > 0,
         ~overlap => /\ new.status = "pending" => at[i] = "refused"
                     /\ new.status = "failed" => new.tries = MaxAttempts,
         UNCHANGED <<received, dropbox, others, history>>
  PROVE  IInv'
<1>0. /\ Control /\ Mail /\ Dropbox /\ Others /\ StepInv /\ 0 \in 0..Rows /\ todo[i] \in Seq(Work)
      /\ faults \in Nat
  BY Typed
<1>1. /\ job = "notification_dispatch_job" /\ todo[i] # <<>> /\ at[i] # "idle"
      /\ unlocked' = unlocked /\ faults' = faults /\ received' = received
  BY <1>0 DEF StepInv, history
<1>2. PICK t \in Seq(Work) : t = Tail(todo[i]) /\ Frame(i, "next", t, 0) /\ "next" \in Steps
  BY <1>1, IsDone
<1>3. /\ job' = job /\ at'[i] = "next" /\ todo'[i] = t
      /\ \A j \in Instances \ {i} : at'[j] = at[j] /\ todo'[j] = todo[j]
      /\ ~overlap' => ~overlap
  BY <1>0, <1>2, FrameFacts
<1>4. PICK n \in 1..Notices : n = Item(i)
  BY <1>1, ItemFacts
<1>5. /\ n = todo[i][1].n /\ 1 \in 1..Len(todo[i]) /\ notice[n].status # "absent"
      /\ ~overlap => notice[n].status = "pending"
  BY <1>1, <1>4, ItemFacts
<1>6. /\ notice' \in [1..Notices -> Notice] /\ notice'[n] = new
      /\ \A x \in 1..Notices \ {n} : notice'[x] = notice[x]
  BY <1>0, <1>4 DEF Mail
<1>7. /\ Queued(t) /\ (~overlap => StillPending(t))
      /\ ~overlap => \A k \in 1..Len(t) : t[k].n # n
  <2>1. Queued(t) /\ (~overlap => StillPending(t))
    BY <1>0, <1>1, <1>2, RestFacts
  <2>2. PICK old \in Seq(Work) : old = todo[i]
    BY <1>0
  <2>3. /\ Len(old) \in Nat /\ Len(t) = Len(old) - 1
        /\ \A k \in 1..Len(t) : t[k] = old[k + 1] /\ k + 1 \in 1..Len(old)
    BY <1>1, <1>2, <2>2, TailFacts
  <2>4. ASSUME ~overlap, NEW k \in 1..Len(t), t[k].n = n PROVE FALSE
    <3>1. old[k + 1].n = old[1].n
      BY <1>5, <2>2, <2>3, <2>4
    <3>2. k + 1 = 1
      BY <1>0, <1>1, <1>5, <2>2, <2>3, <2>4, <3>1 DEF Mail, NoticeSerial
    <3> QED BY <2>3, <3>2
  <2> QED BY <2>1, <2>4
<1>8. Control'
  BY <1>0, <1>2, ControlStep
<1>9. Dropbox'
  <2>1. /\ UNCHANGED <<upload, loaded>> /\ job # "dropbox_import_job"
        /\ place' \in [1..Files -> {"absent", "inbox", "processed", "failed"}]
    BY <1>0, <1>1 DEF dropbox, Dropbox
  <2> QED BY <1>0, <1>2, <2>1, UploadsKept
<1>10. Others'
  BY <1>0, <1>1 DEF others, bank, Others
<1>11. NoticeInv'
  <2>1. ASSUME NEW x \in 1..Notices
        PROVE  /\ notice'[x].status \in {"absent", "pending"} => notice'[x].tries < MaxAttempts
               /\ notice'[x].status = "sent" => received'[x] > 0
               /\ notice'[x].status = "absent" => received'[x] = 0
    <3>1. CASE x = n
      BY <1>1, <1>4, <1>6, <3>1
    <3>2. CASE x # n
      BY <1>0, <1>1, <1>6, <3>2 DEF Mail, NoticeInv
    <3> QED BY <3>1, <3>2
  <2>2. \A x \in 1..Notices : notice[x].status # "absent" => notice'[x].status # "absent"
    BY <1>6
  <2>3. ASSUME NEW j \in Instances, NEW k \in 1..Len(todo'[j])
        PROVE  /\ todo'[j][k].n \in 1..Notices /\ todo'[j][k].tries < MaxAttempts
               /\ notice'[todo'[j][k].n].status # "absent"
    <3>1. /\ todo'[j][k].n \in 1..Notices /\ todo'[j][k].tries < MaxAttempts
          /\ notice[todo'[j][k].n].status # "absent"
      <4>1. CASE j = i
        BY <1>3, <1>7, <4>1 DEF Queued
      <4>2. CASE j # i
        BY <1>0, <1>1, <1>3, <4>2 DEF Mail, NoticeInv
      <4> QED BY <4>1, <4>2
    <3> QED BY <2>2, <3>1
  <2>4. \A j \in Instances : at'[j] = "delivered" => received'[todo'[j][1].n] > 0
    BY <1>0, <1>1, <1>3 DEF Mail, NoticeInv
  <2> QED BY <2>1, <2>3, <2>4, NoticeInvNext
<1>12. NoticeSerial'
  <2>1. SUFFICES ASSUME ~overlap'
                 PROVE  /\ job' = "notification_dispatch_job" =>
                             \A j \in Instances : \A k \in 1..Len(todo'[j]) :
                               /\ notice'[todo'[j][k].n].status = "pending"
                               /\ \A m \in 1..Len(todo'[j]) : todo'[j][m].n = todo'[j][k].n => m = k
                        /\ \A x \in 1..Notices :
                             /\ received'[x] <= 1 + faults'
                             /\ notice'[x].status \in {"absent", "pending"}
                                  => received'[x] <= faults' \/ InFlight(x)'
                             /\ notice'[x].status = "failed" => notice'[x].tries = MaxAttempts
    BY DEF NoticeSerial
  <2>2. ~overlap /\ \A j \in Instances \ {i} : at[j] = "idle" /\ todo[j] = <<>>
    BY <1>0, <1>1, <1>2, <1>3, <2>1, Alone
  <2>3. ASSUME NEW j \in Instances, NEW k \in 1..Len(todo'[j])
        PROVE  /\ notice'[todo'[j][k].n].status = "pending"
               /\ \A m \in 1..Len(todo'[j]) : todo'[j][m].n = todo'[j][k].n => m = k
    <3>1. CASE j = i
      <4>1. t[k].n \in 1..Notices \ {n} /\ notice[t[k].n].status = "pending"
        BY <1>3, <1>7, <2>2, <2>3, <3>1 DEF Queued, StillPending
      <4>2. notice'[t[k].n].status = "pending"
        BY <1>6, <4>1
      <4>3. \A m \in 1..Len(t) : t[m].n = t[k].n => m = k
        BY <1>3, <1>7, <2>2, <2>3, <3>1 DEF StillPending
      <4> QED BY <1>3, <3>1, <4>2, <4>3
    <3>2. CASE j # i
      BY <1>3, <2>2, <2>3, <3>2
    <3> QED BY <3>1, <3>2
  <2>4. ASSUME NEW x \in 1..Notices
        PROVE  /\ received'[x] <= 1 + faults'
               /\ notice'[x].status \in {"absent", "pending"} => received'[x] <= faults'
               /\ notice'[x].status = "failed" => notice'[x].tries = MaxAttempts
    <3>1. /\ received[x] <= 1 + faults
          /\ notice[x].status \in {"absent", "pending"} => received[x] <= faults \/ InFlight(x)
          /\ notice[x].status = "failed" => notice[x].tries = MaxAttempts
      BY <1>0, <2>2 DEF Mail, NoticeSerial
    <3>2. InFlight(x) => at[i] = "delivered" /\ x = n
      BY <1>5, <2>2 DEF InFlight
    <3>3. CASE x = n
      BY <1>1, <1>5, <1>6, <2>2, <3>1, <3>2, <3>3
    <3>4. CASE x # n
      BY <1>1, <1>6, <3>1, <3>2, <3>4
    <3> QED BY <3>3, <3>4
  <2> QED BY <2>3, <2>4
<1>13. Mail'
  BY <1>0, <1>1, <1>6, <1>11, <1>12 DEF Mail
<1> QED BY <1>8, <1>9, <1>10, <1>13 DEF IInv

LEMMA RecordSteps ==
  ASSUME IInv, NEW i \in Instances, RecordSent(i) \/ RecordRefused(i)
  PROVE  IInv'
<1>0. Control /\ Mail /\ StepInv /\ MaxAttempts \in Nat
  BY Typed, ConstantsAssumption
<1>1. at[i] \in {"delivered", "refused"} /\ job = "notification_dispatch_job" /\ todo[i] # <<>>
  BY <1>0 DEF RecordSent, RecordRefused, StepInv
<1>2. PICK n \in 1..Notices : n = Item(i)
  BY <1>1, ItemFacts
<1>3. /\ n = todo[i][1].n /\ notice[n].status # "absent" /\ Tries(i) \in 0..MaxAttempts
      /\ ~overlap => notice[n].status = "pending"
  BY <1>0, <1>1, <1>2, ItemFacts DEF Tries
<1>4. PICK old \in Notice : old = notice[n]
  BY <1>0 DEF Mail
<1>5. /\ old.status \in {"absent", "pending", "sent", "failed"} /\ old.tries \in 0..MaxAttempts
      /\ old.status \in {"absent", "pending"} => old.tries < MaxAttempts
      /\ old.status = "sent" => received[n] > 0
  BY <1>0, <1>4 DEF Mail, NoticeInv, Notice
<1>6. CASE RecordSent(i)
  <2> DEFINE new == [old EXCEPT !.status = "sent"]
  <2>1. new \in Notice /\ new.status = "sent"
    <3>1. "sent" \in {"absent", "pending", "sent", "failed"}
      OBVIOUS
    <3> QED BY <3>1 DEF Notice
  <2>2. notice' = [notice EXCEPT ![Item(i)] = new]
    BY <1>2, <1>4, <1>6 DEF RecordSent
  <2> HIDE DEF new
  <2>3. received[n] > 0
    BY <1>0, <1>3, <1>6 DEF RecordSent, Mail, NoticeInv
  <2>4. Leave(i) /\ UNCHANGED <<received, dropbox, others, history>>
    BY <1>6 DEF RecordSent
  <2> QED BY <1>1, <1>2, <2>1, <2>2, <2>3, <2>4, Recorded1
<1>7. CASE RecordRefused(i)
  <2>1. PICK status \in {"absent", "pending", "sent", "failed"}, tries \in 0..MaxAttempts :
          /\ status = (IF Tries(i) >= MaxAttempts THEN "failed" ELSE old.status)
          /\ tries = Tries(i)
    BY <1>3, <1>5
  <2> DEFINE new == [status |-> status, tries |-> tries]
  <2>2. new \in Notice /\ new.status = status /\ new.tries = tries
    BY DEF Notice
  <2>3. notice' = [notice EXCEPT ![Item(i)] = new]
    BY <1>2, <1>4, <1>7, <2>1 DEF RecordRefused
  <2> HIDE DEF new
  <2>4. Leave(i) /\ at[i] = "refused" /\ UNCHANGED <<received, dropbox, others, history>>
    BY <1>7 DEF RecordRefused
  <2>5. /\ status # "absent" /\ (status = "pending" => tries < MaxAttempts)
        /\ status = "sent" => received[n] > 0
        /\ ~overlap => (status = "failed" => tries = MaxAttempts)
    BY <1>0, <1>3, <1>4, <1>5, <2>1
  <2> QED BY <1>1, <1>2, <2>2, <2>3, <2>4, <2>5, Recorded1
<1> QED BY <1>6, <1>7

-----------------------------------------------------------------------------
(* Steps of others: no instance moves.                                     *)

LEMMA ControlStays ==
  ASSUME Control, UNCHANGED <<job, at, todo, row, overlap>>,
         UNCHANGED <<holder, unlocked>> \/ (holder' = None /\ unlocked' = TRUE)
  PROVE  Control'
<1>1. holder' \in Instances \cup {None} /\ unlocked' \in BOOLEAN
  BY DEF Control
<1>2. StepInv' /\ SerialInv'
  BY DEF Control, StepInv, SerialInv, Working
<1>3. LockInv'
  <2>1. CASE UNCHANGED <<holder, unlocked>>
    BY <2>1 DEF Control, LockInv, Working
  <2>2. CASE unlocked' = TRUE
    BY <2>2 DEF LockInv
  <2> QED BY <2>1, <2>2
<1> QED BY <1>1, <1>2, <1>3 DEF Control

LEMMA MailStays ==
  ASSUME Mail, UNCHANGED <<job, at, todo, overlap, notice, received>>,
         faults \in Nat, faults' \in Nat, faults <= faults'
  PROVE  Mail'
<1>1. NoticeInv'
  BY DEF Mail, NoticeInv
<1>2. NoticeSerial'
  <2>1. \A n : InFlight(n)' <=> InFlight(n)
    BY DEF InFlight
  <2>2. ASSUME ~overlap, NEW n \in 1..Notices
        PROVE  /\ received[n] <= 1 + faults'
               /\ notice[n].status \in {"absent", "pending"} => received[n] <= faults' \/ InFlight(n)
               /\ notice[n].status = "failed" => notice[n].tries = MaxAttempts
    <3>1. /\ received[n] <= 1 + faults
          /\ notice[n].status \in {"absent", "pending"} => received[n] <= faults \/ InFlight(n)
          /\ notice[n].status = "failed" => notice[n].tries = MaxAttempts
      BY <2>2 DEF Mail, NoticeSerial
    <3>2. received[n] \in Nat
      BY DEF Mail
    <3> QED BY <3>1, <3>2
  <2>3. ASSUME ~overlap, job = "notification_dispatch_job", NEW i \in Instances, NEW k \in 1..Len(todo[i])
        PROVE  /\ notice[todo[i][k].n].status = "pending"
               /\ \A m \in 1..Len(todo[i]) : todo[i][m].n = todo[i][k].n => m = k
    BY <2>3 DEF Mail, NoticeSerial
  <2> QED BY <2>1, <2>2, <2>3 DEF NoticeSerial
<1> QED BY <1>1, <1>2 DEF Mail

LEMMA DropboxStays ==
  ASSUME Dropbox, UNCHANGED <<job, at, todo, row, overlap, upload, loaded>>,
         place' \in [1..Files -> {"absent", "inbox", "processed", "failed"}]
  PROVE  Dropbox'
<1>1. UploadInv'
  BY DEF Dropbox, UploadInv
<1>2. UploadSerial'
  BY DEF Dropbox, UploadSerial
<1> QED BY <1>1, <1>2 DEF Dropbox

\* A request queues a notification.
LEMMA QueueStep ==
  ASSUME IInv, NEW n \in 1..Notices, Queue(n)
  PROVE  IInv'
<1>0. Control /\ Mail /\ Dropbox /\ Others
  BY DEF IInv
<1>1. /\ job = "notification_dispatch_job" /\ notice[n].status = "absent"
      /\ notice' = [notice EXCEPT ![n].status = "pending"]
      /\ UNCHANGED <<job, holder, at, todo, row, overlap, received, place, upload, loaded,
                     export, demo, touched, barred, faults, unlocked>>
  BY DEF Queue, worker, dropbox, others, bank, history
<1>2. /\ notice' \in [1..Notices -> Notice]
      /\ notice'[n].status = "pending" /\ notice'[n].tries = notice[n].tries
      /\ \A x \in 1..Notices \ {n} : notice'[x] = notice[x]
  <2>1. PICK old \in Notice : old = notice[n]
    BY <1>0 DEF Mail
  <2> DEFINE new == [old EXCEPT !.status = "pending"]
  <2>2. new \in Notice /\ new.status = "pending" /\ new.tries = old.tries
    <3>1. "pending" \in {"absent", "pending", "sent", "failed"}
      OBVIOUS
    <3> QED BY <3>1 DEF Notice
  <2>3. notice' = [notice EXCEPT ![n] = new]
    BY <1>0, <1>1, <2>1
  <2> HIDE DEF new
  <2> QED BY <1>0, <2>1, <2>2, <2>3 DEF Mail
<1>3. Control' /\ Dropbox' /\ Others'
  <2>1. Control'
    BY <1>0, <1>1, ControlStays
  <2>2. place' \in [1..Files -> {"absent", "inbox", "processed", "failed"}]
    BY <1>0, <1>1 DEF Dropbox
  <2>3. Dropbox'
    BY <1>0, <1>1, <2>2, DropboxStays
  <2>4. Others'
    BY <1>0, <1>1 DEF Others
  <2> QED BY <2>1, <2>3, <2>4
<1>4. NoticeInv'
  <2>1. ASSUME NEW x \in 1..Notices
        PROVE  /\ notice'[x].status \in {"absent", "pending"} => notice'[x].tries < MaxAttempts
               /\ notice'[x].status = "sent" => received[x] > 0
               /\ notice'[x].status = "absent" => received[x] = 0
    BY <1>0, <1>1, <1>2 DEF Mail, NoticeInv
  <2>2. ASSUME NEW i \in Instances, NEW k \in 1..Len(todo[i])
        PROVE  /\ todo[i][k].n \in 1..Notices /\ todo[i][k].tries < MaxAttempts
               /\ notice'[todo[i][k].n].status # "absent"
    <3>1. /\ todo[i][k].n \in 1..Notices /\ todo[i][k].tries < MaxAttempts
          /\ notice[todo[i][k].n].status # "absent"
      BY <1>0, <1>1 DEF Mail, NoticeInv
    <3> QED BY <1>1, <1>2, <3>1
  <2>3. \A i \in Instances : at[i] = "delivered" => received[todo[i][1].n] > 0
    BY <1>0 DEF Mail, NoticeInv
  <2> QED BY <1>1, <2>1, <2>2, <2>3 DEF NoticeInv
<1>5. NoticeSerial'
  <2>1. \A x : InFlight(x)' <=> InFlight(x)
    BY <1>1 DEF InFlight
  <2>2. ASSUME ~overlap, NEW x \in 1..Notices
        PROVE  /\ received[x] <= 1 + faults
               /\ notice'[x].status \in {"absent", "pending"} => received[x] <= faults \/ InFlight(x)
               /\ notice'[x].status = "failed" => notice'[x].tries = MaxAttempts
    BY <1>0, <1>1, <1>2, <2>2 DEF Mail, NoticeSerial
  <2>3. ASSUME ~overlap, NEW i \in Instances, NEW k \in 1..Len(todo[i])
        PROVE  /\ notice'[todo[i][k].n].status = "pending"
               /\ \A m \in 1..Len(todo[i]) : todo[i][m].n = todo[i][k].n => m = k
    <3>1. /\ notice[todo[i][k].n].status = "pending" /\ todo[i][k].n \in 1..Notices
          /\ \A m \in 1..Len(todo[i]) : todo[i][m].n = todo[i][k].n => m = k
      BY <1>0, <1>1, <2>3 DEF Mail, NoticeSerial, NoticeInv
    <3> QED BY <1>2, <3>1
  <2> QED BY <1>1, <2>1, <2>2, <2>3 DEF NoticeSerial
<1> QED BY <1>0, <1>1, <1>2, <1>3, <1>4, <1>5 DEF IInv, Mail

\* Faults of the lock, visitors of the demo, a file dropped.
LEMMA OtherSteps ==
  ASSUME IInv,
         \/ \E i \in Instances : LoseLock(i)
         \/ VisitorChanges \/ VisitorSignsOut \/ SomebodySignsOut \/ UserIsNamed
         \/ \E f \in 1..Files : Drop(f)
         \/ UNCHANGED vars
  PROVE  IInv'
<1>0. Control /\ Mail /\ Dropbox /\ Others /\ faults \in Nat /\ MaxFaults \in Nat
  BY ConstantsAssumption DEF IInv, Others
<1>1. /\ UNCHANGED <<job, at, todo, row, overlap, notice, received, upload, loaded, export, demo>>
      /\ UNCHANGED <<holder, unlocked>> \/ (holder' = None /\ unlocked' = TRUE)
      /\ faults' = faults \/ Fault
      /\ touched' \in BOOLEAN /\ barred' \subseteq Outside
  <2>1. CASE \E i \in Instances : LoseLock(i)
    BY <1>0, <2>1 DEF LoseLock, mail, dropbox, others, bank, Others
  <2>2. CASE VisitorChanges
    BY <1>0, <2>2 DEF VisitorChanges, worker, mail, dropbox, history, Others
  <2>3. CASE VisitorSignsOut \/ SomebodySignsOut \/ UserIsNamed
    <3>1. PICK kinds \in SUBSET Outside : Named(kinds)
      BY <1>0, <2>3 DEF VisitorSignsOut, SomebodySignsOut, UserIsNamed, Others, Outside
    <3> QED BY <1>0, <3>1 DEF Named, worker, mail, dropbox, history, Others
  <2>4. CASE \E f \in 1..Files : Drop(f)
    BY <1>0, <2>4 DEF Drop, worker, mail, others, bank, history, Others
  <2>5. CASE UNCHANGED vars
    BY <1>0, <2>5 DEF vars, Others
  <2> QED BY <2>1, <2>2, <2>3, <2>4, <2>5
<1>2. place' \in [1..Files -> {"absent", "inbox", "processed", "failed"}]
  BY <1>0 DEF LoseLock, VisitorChanges, VisitorSignsOut, SomebodySignsOut, UserIsNamed, Named, Drop, vars, dropbox, Dropbox
<1>3. faults' \in 0..MaxFaults /\ faults' \in Nat /\ faults <= faults'
  BY <1>0, <1>1 DEF Fault, Others
<1>4. Control' /\ Mail' /\ Dropbox'
  BY <1>0, <1>1, <1>2, <1>3, ControlStays, MailStays, DropboxStays
<1>5. Others'
  BY <1>0, <1>1, <1>3 DEF Others
<1> QED BY <1>4, <1>5 DEF IInv

-----------------------------------------------------------------------------
(* Dropped files.                                                          *)

\* An instance goes on with its file, whose bytes are c: it records it, loads a row of
\* it, or sets its counts.
LEMMA LoadStep ==
  ASSUME IInv, NEW i \in Instances, NEW c \in 1..Files, NEW a \in {"loading", "counted"}, NEW r \in 0..Rows,
         job = "dropbox_import_job", todo[i] # <<>>, at[i] \in {"looked", "loading"},
         c = Content[todo[i][1].n],
         at' = [at EXCEPT ![i] = a], row' = [row EXCEPT ![i] = r],
         UNCHANGED <<job, holder, todo, overlap, place, mail, others, history>>,
         upload' \in [1..Files -> Upload], loaded' \in [1..Files -> [1..Rows -> Nat]],
         \A x \in 1..Files : upload[x].records > 0 => upload'[x].records > 0,
         upload'[c].records > 0,
         ~overlap => \A x \in 1..Files : \A q \in 1..Rows :
           /\ loaded'[x][q] <= 1
           /\ upload'[x].records = 0 => loaded'[x][q] = 0,
         ~overlap /\ a = "loading" => \A q \in 1..Rows : q > r => loaded'[c][q] = 0
  PROVE  IInv'
<1>0. /\ Control /\ Mail /\ Dropbox /\ Others /\ StepInv /\ todo[i] \in Seq(Work) /\ faults \in Nat
  BY Typed
<1>1. Frame(i, a, todo[i], r) /\ a \in Steps
  <2>1. /\ UNCHANGED <<job, holder, todo, overlap, unlocked>> /\ at[i] # "idle" /\ a # "idle"
        /\ a \notin {"delivered", "refused"} /\ a \notin WithoutItems
    BY DEF history, WithoutItems
  <2>2. a \in Steps
    BY DEF Steps
  <2> QED BY <2>1, <2>2, GoesOn
<1>2. /\ job' = job /\ at'[i] = a /\ todo' = todo /\ row'[i] = r /\ (~overlap' => ~overlap)
      /\ \A j \in Instances \ {i} : at'[j] = at[j] /\ row'[j] = row[j]
  BY <1>0, <1>1, FrameFacts
<1>3. Control'
  BY <1>0, <1>1, ControlStep
<1>4. Mail'
  <2>1. /\ UNCHANGED mail /\ faults' = faults /\ a # "delivered" /\ at[i] # "delivered"
        /\ job # "notification_dispatch_job"
    BY DEF history
  <2> QED BY <1>0, <1>1, <2>1, MailKept
<1>5. Others'
  BY <1>0 DEF others, bank, history, Others
<1>6. UploadInv'
  <2>1. ASSUME NEW j \in Instances, at'[j] = "loading" PROVE upload'[Content[todo[j][1].n]].records > 0
    <3>1. CASE j = i
      BY <3>1
    <3>2. CASE j # i
      <4>1. at[j] = "loading" /\ todo[j] # <<>>
        BY <1>0, <1>2, <2>1, <3>2 DEF StepInv
      <4>2. todo[j][1].n \in 1..Files
        BY <4>1, ItemFacts
      <4>3. Content[todo[j][1].n] \in 1..Files
        BY <4>2, ConstantsAssumption
      <4> QED BY <1>0, <4>1, <4>3 DEF Dropbox, UploadInv
    <3> QED BY <3>1, <3>2
  <2> QED BY <1>0, <1>2, <2>1 DEF Dropbox, UploadInv
<1>7. UploadSerial'
  <2>1. SUFFICES ASSUME ~overlap'
                 PROVE  \A j \in Instances :
                          /\ at'[j] = "looked" => upload'[Content[todo'[j][1].n]].records = 0
                          /\ at'[j] = "loading" =>
                               \A q \in 1..Rows : q > row'[j] => loaded'[Content[todo'[j][1].n]][q] = 0
    BY <1>2 DEF UploadSerial
  <2>2. ~overlap /\ \A j \in Instances \ {i} : at[j] = "idle"
    BY <1>0, <1>1, <1>2, <2>1, Alone
  <2> QED BY <1>2, <2>2
<1>8. Dropbox'
  BY <1>0, <1>6, <1>7 DEF Dropbox
<1> QED BY <1>3, <1>4, <1>5, <1>8 DEF IInv

LEMMA UploadSteps ==
  ASSUME IInv, NEW i \in Instances, RecordUploadedFile(i) \/ IngestRow(i) \/ SetResultCounts(i)
  PROVE  IInv'
<1>0. /\ Control /\ Dropbox /\ StepInv /\ row[i] \in 0..Rows /\ Rows \in Nat
      /\ row = [row EXCEPT ![i] = row[i]] /\ at \in [Instances -> Steps]
  BY Typed DEF Control
<1>1. /\ job = "dropbox_import_job" /\ todo[i] # <<>> /\ at[i] \in {"looked", "loading"}
      /\ UNCHANGED <<job, holder, todo, overlap, place, mail, others, history>>
  BY DEF RecordUploadedFile, IngestRow, SetResultCounts, Importing, Step
<1>2. PICK c \in 1..Files : c = Content[todo[i][1].n] /\ c = Content[Item(i)]
  BY <1>1, ItemFacts, ConstantsAssumption
<1>3. /\ upload \in [1..Files -> Upload] /\ loaded \in [1..Files -> [1..Rows -> Nat]]
      /\ at[i] = "loading" => upload[c].records > 0
  BY <1>0, <1>2 DEF Dropbox, UploadInv
<1>4. ~overlap =>
        /\ \A x \in 1..Files : \A q \in 1..Rows :
             loaded[x][q] <= 1 /\ (upload[x].records = 0 => loaded[x][q] = 0)
        /\ at[i] = "looked" => upload[c].records = 0
        /\ at[i] = "loading" => \A q \in 1..Rows : q > row[i] => loaded[c][q] = 0
  BY <1>0, <1>2 DEF Dropbox, UploadSerial
<1>5. PICK old \in Upload : old = upload[c]
  BY <1>3
<1>6. CASE RecordUploadedFile(i)
  <2> DEFINE new == [old EXCEPT !.records = @ + 1]
  <2>1. new \in Upload /\ new.records > 0
    BY DEF Upload
  <2>2. upload' = [upload EXCEPT ![c] = new]
    BY <1>2, <1>5, <1>6 DEF RecordUploadedFile, Recorded
  <2> HIDE DEF new
  <2>3. /\ upload' \in [1..Files -> Upload] /\ upload'[c] = new
        /\ \A x \in 1..Files \ {c} : upload'[x] = upload[x]
    BY <1>3, <2>1, <2>2
  <2>4. /\ at[i] = "looked" /\ at' = [at EXCEPT ![i] = "loading"] /\ loaded' = loaded
        /\ row' = [row EXCEPT ![i] = row[i]]
    BY <1>0, <1>6 DEF RecordUploadedFile, Step
  <2>5. /\ upload'[c].records > 0
        /\ \A x \in 1..Files : upload[x].records > 0 => upload'[x].records > 0
    BY <2>1, <2>3
  <2>6. ASSUME ~overlap, NEW x \in 1..Files, NEW q \in 1..Rows
        PROVE  loaded'[x][q] <= 1 /\ (upload'[x].records = 0 => loaded'[x][q] = 0)
    BY <1>4, <2>3, <2>4, <2>5, <2>6
  <2>7. ASSUME ~overlap, NEW q \in 1..Rows PROVE loaded'[c][q] = 0
    BY <1>4, <2>4, <2>7
  <2> QED BY <1>0, <1>1, <1>2, <1>3, <2>3, <2>4, <2>5, <2>6, <2>7, LoadStep
<1>7. CASE SetResultCounts(i)
  <2>0. PICK n \in Nat : n > 0 /\ n = (IF old.records = 0 THEN 1 ELSE old.records)
    <3>1. old.records \in Nat
      BY DEF Upload
    <3> QED BY <3>1
  <2> DEFINE new == [old EXCEPT !.records = n, !.counted = TRUE]
  <2>1. new \in Upload /\ new.records > 0
    BY <2>0 DEF Upload
  <2>2. upload' = [upload EXCEPT ![c] = new]
    <3>1. upload' = [upload EXCEPT ![c].records = IF @ = 0 THEN 1 ELSE @, ![c].counted = TRUE]
      BY <1>2, <1>7 DEF SetResultCounts
    <3>2. upload' = [upload EXCEPT ![c].records = n, ![c].counted = TRUE]
      BY <1>3, <1>5, <2>0, <3>1
    <3> QED BY <1>3, <1>5, <3>2
  <2> HIDE DEF new
  <2>3. /\ upload' \in [1..Files -> Upload] /\ upload'[c] = new
        /\ \A x \in 1..Files \ {c} : upload'[x] = upload[x]
    BY <1>3, <2>1, <2>2
  <2>4. /\ at[i] = "loading" /\ at' = [at EXCEPT ![i] = "counted"] /\ loaded' = loaded
        /\ row' = [row EXCEPT ![i] = row[i]]
    BY <1>0, <1>7 DEF SetResultCounts, Step
  <2>5. /\ upload'[c].records > 0
        /\ \A x \in 1..Files : upload[x].records > 0 => upload'[x].records > 0
    BY <2>1, <2>3
  <2>6. ASSUME ~overlap, NEW x \in 1..Files, NEW q \in 1..Rows
        PROVE  loaded'[x][q] <= 1 /\ (upload'[x].records = 0 => loaded'[x][q] = 0)
    BY <1>4, <2>3, <2>4, <2>5, <2>6
  <2> QED BY <1>0, <1>1, <1>2, <1>3, <2>3, <2>4, <2>5, <2>6, LoadStep
<1>8. CASE IngestRow(i)
  <2>1. PICK r \in 0..Rows : r = row[i] + 1 /\ r \in 1..Rows
    BY <1>0, <1>8 DEF IngestRow
  <2>2. /\ at[i] = "loading" /\ at' = at /\ upload' = upload /\ row' = [row EXCEPT ![i] = r]
        /\ \/ loaded' = [loaded EXCEPT ![c][r] = @ + 1]
           \/ loaded' = loaded
    BY <1>2, <1>8, <2>1 DEF IngestRow, Importing
  <2>3. at' = [at EXCEPT ![i] = "loading"]
    BY <1>0, <2>2
  <2>4. PICK rows \in [1..Rows -> Nat] : loaded[c] = rows
    BY <1>3
  <2>5. PICK more \in [1..Rows -> Nat] :
          /\ loaded' = [loaded EXCEPT ![c] = more]
          /\ more[r] \in {rows[r], rows[r] + 1} /\ \A q \in 1..Rows \ {r} : more[q] = rows[q]
    <3>1. CASE loaded' = loaded
      BY <1>3, <2>4, <3>1
    <3>2. CASE loaded' = [loaded EXCEPT ![c][r] = @ + 1]
      <4> DEFINE more == [rows EXCEPT ![r] = rows[r] + 1]
      <4>1. more \in [1..Rows -> Nat] /\ more[r] = rows[r] + 1 /\ \A q \in 1..Rows \ {r} : more[q] = rows[q]
        BY <2>1
      <4>2. loaded' = [loaded EXCEPT ![c] = more]
        BY <2>4, <3>2
      <4> QED BY <4>1, <4>2
    <3> QED BY <2>2, <3>1, <3>2
  <2>6. /\ loaded' \in [1..Files -> [1..Rows -> Nat]] /\ loaded'[c] = more
        /\ \A x \in 1..Files \ {c} : loaded'[x] = loaded[x]
    BY <1>3, <2>5
  <2>7. upload'[c].records > 0 /\ \A x \in 1..Files : upload[x].records > 0 => upload'[x].records > 0
    BY <1>3, <2>2
  <2>8. ASSUME ~overlap, NEW q \in 1..Rows
        PROVE  more[q] <= 1 /\ (q > r => more[q] = 0)
    <3>1. rows[q] <= 1 /\ (q > row[i] => rows[q] = 0) /\ rows[q] \in Nat
      BY <1>4, <2>2, <2>4, <2>8
    <3>2. row[i] \in Nat /\ r = row[i] + 1 /\ rows[r] = 0
      BY <1>0, <1>4, <2>1, <2>2, <2>4, <2>8
    <3>3. CASE q = r
      BY <2>5, <3>2, <3>3
    <3>4. CASE q # r
      BY <2>5, <3>1, <3>2, <3>4
    <3> QED BY <3>3, <3>4
  <2>9. ASSUME ~overlap, NEW x \in 1..Files, NEW q \in 1..Rows
        PROVE  loaded'[x][q] <= 1 /\ (upload'[x].records = 0 => loaded'[x][q] = 0)
    <3>1. CASE x = c
      BY <1>3, <2>2, <2>6, <2>8, <2>9, <3>1
    <3>2. CASE x # c
      BY <1>4, <2>2, <2>6, <2>9, <3>2
    <3> QED BY <3>1, <3>2
  <2>10. upload' \in [1..Files -> Upload]
    BY <1>3, <2>2
  <2>11. ~overlap => \A q \in 1..Rows : q > r => loaded'[c][q] = 0
    BY <2>6, <2>8
  <2> QED BY <1>1, <1>2, <2>2, <2>3, <2>6, <2>7, <2>9, <2>10, <2>11, LoadStep
<1> QED BY <1>6, <1>7, <1>8

\* The same bytes are uploaded by hand.
LEMMA ByHandStep ==
  ASSUME IInv, NEW f \in 1..Files, UploadByHand(f)
  PROVE  IInv'
<1>0. /\ Control /\ Mail /\ Dropbox /\ Others /\ StepInv /\ faults \in Nat
  BY DEF IInv, Control, Others
<1>1. /\ \A i \in Instances : at[i] = "idle"
      /\ UNCHANGED <<job, holder, at, todo, row, overlap, place, loaded, notice, received,
                     export, demo, touched, barred, faults, unlocked>>
  BY DEF UploadByHand, Working, worker, mail, others, bank, history
<1>2. PICK new \in Upload : new.records = 1 /\ upload' = [upload EXCEPT ![f] = new]
  BY DEF UploadByHand, Upload
<1>3. upload' \in [1..Files -> Upload] /\ \A x \in 1..Files : upload'[x].records = 0 => upload[x].records = 0
  BY <1>0, <1>2 DEF Dropbox
<1>4. Control' /\ Mail'
  BY <1>0, <1>1, ControlStays, MailStays
<1>5. Others'
  BY <1>0, <1>1 DEF Others
<1>6. Dropbox'
  <2>1. UploadInv'
    BY <1>0, <1>1 DEF Dropbox, UploadInv
  <2>2. UploadSerial'
    BY <1>0, <1>1, <1>3 DEF Dropbox, UploadSerial
  <2> QED BY <1>0, <1>1, <1>3, <2>1, <2>2 DEF Dropbox
<1> QED BY <1>4, <1>5, <1>6 DEF IInv

-----------------------------------------------------------------------------
(* The invariant holds.                                                    *)

LEMMA InitIInv == ASSUME Init PROVE IInv
<1>0. /\ Notices \in Nat /\ Files \in Nat /\ Rows \in Nat /\ MaxAttempts \in Nat \ {0} /\ MaxFaults \in Nat
  BY ConstantsAssumption
<1>1. /\ job \in Jobs /\ holder = None /\ at = [i \in Instances |-> "idle"]
      /\ todo = [i \in Instances |-> <<>>] /\ row = [i \in Instances |-> 0]
      /\ overlap = FALSE /\ unlocked = FALSE
  BY DEF Init
<1>2. \A i \in Instances : at[i] = "idle" /\ todo[i] = <<>> /\ row[i] = 0
  BY <1>1
<1>3. Control
  <2>1. /\ at \in [Instances -> Steps] /\ todo \in [Instances -> Seq(Work)] /\ row \in [Instances -> 0..Rows]
    BY <1>0, <1>1 DEF Steps
  <2>2. StepInv
    BY <1>2 DEF StepInv
  <2>3. LockInv /\ SerialInv
    BY <1>1, <1>2 DEF LockInv, SerialInv, Working
  <2> QED BY <1>1, <2>1, <2>2, <2>3 DEF Control
<1>4. Mail
  <2>1. PICK new \in Notice : new = [status |-> "absent", tries |-> 0]
    <3>1. "absent" \in {"absent", "pending", "sent", "failed"} /\ 0 \in 0..MaxAttempts
      BY <1>0
    <3> QED BY <3>1 DEF Notice
  <2>2. new.status = "absent" /\ new.tries = 0
    BY <2>1
  <2>3. notice = [n \in 1..Notices |-> new] /\ received = [n \in 1..Notices |-> 0] /\ faults = 0
    BY <2>1 DEF Init
  <2>4. /\ notice \in [1..Notices -> Notice] /\ received \in [1..Notices -> Nat]
        /\ \A n \in 1..Notices : notice[n].status = "absent" /\ notice[n].tries = 0 /\ received[n] = 0
    BY <2>2, <2>3
  <2>5. NoticeInv
    BY <1>0, <1>2, <2>4 DEF NoticeInv
  <2>6. NoticeSerial
    BY <1>2, <2>3, <2>4 DEF NoticeSerial
  <2> QED BY <2>4, <2>5, <2>6 DEF Mail
<1>5. Dropbox
  <2>1. place = [f \in 1..Files |-> "absent"] /\ loaded = [c \in 1..Files |-> [r \in 1..Rows |-> 0]]
    BY DEF Init
  <2>2. upload \in [1..Files -> Upload]
    BY DEF Init, Upload
  <2>3. UploadInv
    BY <1>2 DEF UploadInv
  <2>4. UploadSerial
    BY <1>2, <2>1 DEF UploadSerial
  <2> QED BY <2>1, <2>2, <2>3, <2>4 DEF Dropbox
<1>6. Others
  <2>1. demo \in [DemoParts -> Instances \cup {None}]
    BY DEF Init
  <2>2. touched \in BOOLEAN /\ barred \subseteq Outside
    BY DEF Init
  <2>3. export = "absent" /\ faults = 0 /\ 0 \in 0..MaxFaults
    BY <1>0 DEF Init
  <2> QED BY <2>1, <2>2, <2>3 DEF Others
<1> QED BY <1>3, <1>4, <1>5, <1>6 DEF IInv

LEMMA NextIInv == ASSUME IInv, [Next]_vars PROVE IInv'
<1>1. ASSUME NEW i \in Instances, RunExclusively(i) \/ RunImport(i) \/ ResetDemo(i) PROVE IInv'
  BY <1>1, BeginSteps
<1>2. ASSUME NEW i \in Instances, Finish(i) \/ Crash(i) \/ CommitFails(i) PROVE IInv'
  BY <1>2, RunEnds
<1>3. ASSUME NEW i \in Instances, Proceed(i) PROVE IInv'
  <2>1. CASE Finish(i)
    BY <2>1, <1>2
  <2>2. CASE SendOneNotification(i)
    BY <2>2, SendStep
  <2>3. CASE RecordSent(i) \/ RecordRefused(i)
    BY <2>3, RecordSteps
  <2>4. CASE SkipFile(i) \/ RefuseFile(i) \/ MoveFile(i)
    BY <2>4, LeaveSteps
  <2>5. CASE LookUpFile(i) \/ ParseFails(i)
    BY <2>5, LookSteps
  <2>6. CASE RecordUploadedFile(i) \/ IngestRow(i) \/ SetResultCounts(i)
    BY <2>6, UploadSteps
  <2>7. CASE BeginExport(i) \/ BuildArchive(i) \/ EndExport(i)
    BY <2>7, ExportSteps
  <2>8. CASE \/ WipeTenantChildren(i) \/ WipeFails(i) \/ SeedAdmin(i) \/ SeedUsers(i) \/ SeedAccounts(i)
             \/ SeedCheckActivity(i) \/ SeedRest(i)
    BY <2>8, DemoSteps
  <2> QED BY <1>3, <2>1, <2>2, <2>3, <2>4, <2>5, <2>6, <2>7, <2>8 DEF Proceed
<1>4. ASSUME NEW i \in Instances, RequestExport(i) PROVE IInv'
  BY <1>4, ExportSteps
<1>5. ASSUME NEW i \in Instances, EnsureDemoTenant(i) PROVE IInv'
  BY <1>5, EnsureDemoStep
<1>6. ASSUME NEW n \in 1..Notices, Queue(n) PROVE IInv'
  BY <1>6, QueueStep
<1>7. ASSUME NEW f \in 1..Files, UploadByHand(f) PROVE IInv'
  BY <1>7, ByHandStep
<1>8. CASE \/ \E i \in Instances : LoseLock(i)
           \/ VisitorChanges \/ VisitorSignsOut \/ SomebodySignsOut \/ UserIsNamed
           \/ \E f \in 1..Files : Drop(f)
           \/ UNCHANGED vars
  BY <1>8, OtherSteps
<1> QED BY <1>1, <1>2, <1>3, <1>4, <1>5, <1>6, <1>7, <1>8 DEF Next

LEMMA Invariance == Spec => []IInv
<1>1. Init => IInv
  BY InitIInv
<1>2. IInv /\ [Next]_vars => IInv'
  BY NextIInv
<1> QED BY <1>1, <1>2, PTL DEF Spec

(***************************************************************************)
(* The scheduler keeps the instances apart: while no connection that holds *)
(* the lock is lost and nobody works without it, no two runs of a job are  *)
(* ever under way together; and no row of a dropped file is loaded twice   *)
(* by runs that do not overlap, wherever the process stops between two     *)
(* commits (workers/leader_lock.py, dropbox_import_service.py).            *)
(***************************************************************************)
THEOREM RunsApart == Spec => []RunsAgree
<1>1. ASSUME IInv PROVE RunsAgree
  <2>1. TypeOK
    BY <1>1, IInvTypes
  <2>2. OneAtATime
    BY <1>1 DEF IInv, Control, LockInv, OneAtATime
  <2>3. LoadedAtMostOnce
    BY <1>1 DEF IInv, Dropbox, UploadSerial, LoadedAtMostOnce
  <2> QED BY <2>1, <2>2, <2>3 DEF RunsAgree
<1> QED BY <1>1, Invariance, PTL

(***************************************************************************)
(* What became of a message is what its row says: sent only if it was      *)
(* handed over, given up by runs that do not overlap only after every      *)
(* attempt allowed; and a recipient hears a message once, and once more at *)
(* most for every crash, failed commit or lost answer                      *)
(* (workers/tasks.py, notification_service.py).                            *)
(***************************************************************************)
THEOREM MessagesAccountedFor == Spec => []DeliveryIsTrue
<1>1. ASSUME IInv PROVE DeliveryIsTrue
  BY <1>1 DEF IInv, Mail, NoticeInv, NoticeSerial, DeliveryIsTrue, DuplicatesNeedAFault, StatusIsTrue
<1> QED BY <1>1, Invariance, PTL

=============================================================================
