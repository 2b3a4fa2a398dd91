---------------------------- MODULE UploadsProofs ----------------------------
(***************************************************************************)
(* Theorems about Uploads: what holds for any files, accounts, uploaders   *)
(* and workers, and any number of faults and changes by hand.              *)
(***************************************************************************)
EXTENDS Uploads, FiniteSetTheorems, TLAPS

(***************************************************************************)
(* The inductive invariant.                                                *)
(***************************************************************************)

Statuses == {"absent", "outstanding", "paid", "voided", "pending", "returned", "reversed",
             "active", "inactive", "kept"}

Work == [at: {"idle", "rows", "batch", "undoing", "decided"}, file: Files \cup {None}, next: Nat,
         todo: Seq(Rows), check: Statuses]

Loading(w) == work[w].at \in {"rows", "batch"}
Backing(w) == work[w].at \in {"undoing", "decided"}

\* Who loads a file is the only one, has its rows ahead of it, and no record of the
\* file is there yet.
LoadOf(w) ==
  /\ work[w].file \in Files /\ kind[work[w].file] # Absent /\ work[w].file \notin counted
  /\ work[w].next >= 1
  /\ \A r \in Rows : r[1] = work[w].file /\ r[2] >= work[w].next => created[r] = NoRow

LoadInv ==
  /\ \A w \in Workers : Loading(w) => LoadOf(w)
  /\ \A w, v \in Workers : Loading(w) /\ Loading(v) /\ w # v => work[w].file # work[v].file

\* A back-out is over exactly the records of its file.
BackOf(w) ==
  /\ work[w].file \in counted /\ kind[work[w].file] \in Permitted /\ work[w].next >= 1
  /\ \A k \in 1..Len(work[w].todo) : work[w].todo[k] \in OfFile(work[w].file)
  /\ \A r \in OfFile(work[w].file) : \E k \in 1..Len(work[w].todo) : work[w].todo[k] = r
  /\ work[w].at = "decided" => work[w].next <= Len(work[w].todo)

BackInv == \A w \in Workers : Backing(w) => BackOf(w)

\* Of a file that was not submitted nothing is there, records come with the counts, and
\* a row that is not there says nothing.
FileInv ==
  /\ \A f \in Files : kind[f] = Absent =>
       f \notin counted /\ \A r \in Rows : r[1] = f => created[r] = NoRow
  /\ \A r \in tracked : r[1] \in counted
  /\ \A r \in Rows : created[r].status = "absent" => created[r] = NoRow

\* What a payment was matched with is an issue of its account and number, and once it
\* was matched a payment is only returned or reversed.
Matches(x, on, r) ==
  /\ x \in Rows /\ kind[x[1]] = "issued_items" /\ created[x].status # "absent"
  /\ created[x].on = on /\ Lines[x[1]][x[2]].check = Lines[r[1]][r[2]].check

\* Nor is it open before OCR escalates it, which it does once.
Standing(row) ==
  /\ row.status \in {"paid", "returned", "reversed"}
  /\ row.escalated = "no" => row.open = FALSE
  /\ row.status = "paid" => row.escalated # "reversed"

RowInv == \A r \in Rows : created[r].issued # None =>
  /\ Matches(created[r].issued, created[r].on, r)
  /\ kind[r[1]] \in {"paid_items", "check_images"}
  /\ Standing(created[r])

\* Requests that did not overlap were one at a time ...
SerialInv == ~overlap =>
  \A w, v \in Workers : w # v => work[w].at = "idle" \/ work[v].at = "idle"

\* ... so a back-out has read the row it decided on, and its check, as they still are.
CheckOf(r) == IF Matched(r) THEN created[created[r].issued].status ELSE "absent"

CheckInv == ~overlap =>
  \A w \in Workers : work[w].at = "decided" =>
    \A r \in Rows : r = work[w].todo[work[w].next] => ~Final(r) /\ work[w].check = CheckOf(r)

\* What PaidAsPresented says of requests that did not overlap.
Paid ==
  /\ \A r \in Rows : kind[r[1]] = "issued_items" /\ created[r].status = "paid" =>
       \E q \in Rows : created[q].issued = r /\ Covers(q)
  /\ \A q \in Rows : created[q].issued # None /\ created[q].status = "paid" =>
       /\ created[created[q].issued].status \in {"paid", "voided"}
       /\ \A p \in Rows \ {q} : created[p].issued = created[q].issued => created[p].status # "paid"
  /\ \A q \in Rows : created[q].status = "reversed" /\ created[q].open => created[q].escalated = "reversed"

PaidInv == ~overlap => Paid

\* Rows and their records, for any overlap.
RecordsInv == /\ TypeOK /\ work \in [Workers -> Work]
              /\ LoadInv /\ BackInv /\ FileInv /\ RowInv /\ RowsAreTracked /\ ScopeIsKept

IInv == RecordsInv /\ SerialInv /\ CheckInv /\ PaidInv

-----------------------------------------------------------------------------
(* Facts about the data.                                                   *)

LEMMA RowsType ==
  ASSUME NEW r \in Rows
  PROVE  /\ r[1] \in Files /\ r[2] \in Nat /\ r[2] >= 1 /\ r[2] <= Len(Lines[r[1]])
         /\ r = <<r[1], r[2]>>
<1>1. PICK f \in Files : \E i \in 1..Len(Lines[f]) : r = <<f, i>>
  BY DEF Rows
<1>2. Len(Lines[f]) \in Nat
  BY UploadsAssumption
<1> QED BY <1>1, <1>2

LEMMA LineType ==
  ASSUME NEW f \in Files, NEW i \in Nat, i >= 1, i <= Len(Lines[f])
  PROVE  /\ <<f, i>> \in Rows /\ Len(Lines[f]) \in Nat
         /\ Lines[f][i].ref \in References /\ Lines[f][i].alias \in References \cup {None}
<1> DEFINE line == [ref : References, check : Nat, alias : References \cup {None}]
           lines == Lines[f]
<1>1. lines \in Seq(line)
  BY UploadsAssumption
<1> HIDE DEF line, lines
<1>2. Len(lines) \in Nat /\ \A k \in 1..Len(lines) : lines[k] \in line
  BY <1>1
<1>3. i \in 1..Len(lines)
  BY <1>2 DEF lines
<1>4. lines[i] \in line
  BY <1>2, <1>3
<1>5. Lines[f][i].ref \in References /\ Lines[f][i].alias \in References \cup {None}
  BY <1>4 DEF line, lines
<1>6. <<f, i>> \in Rows
  BY <1>3 DEF Rows, lines
<1> QED BY <1>2, <1>5, <1>6 DEF lines

LEMMA FirstLine ==
  ASSUME NEW f \in Files
  PROVE  /\ <<f, 1>> \in Rows /\ Lines[f][1].ref \in References
         /\ Lines[f][1].alias \in References \cup {None}
<1>1. Len(Lines[f]) >= 1
  BY UploadsAssumption
<1> QED BY <1>1, LineType

LEMMA ScopeType == ASSUME NEW f \in Files PROVE Scope[f] \in Owners /\ Scope[f] # Absent
BY UploadsAssumption DEF Owners

LEMMA CreatedType ==
  ASSUME TypeOK, NEW r \in Rows
  PROVE  /\ created[r] \in Created
         /\ created[r].status \in Statuses /\ created[r].on \in References \cup {None}
         /\ created[r].issued \in Rows \cup {None} /\ created[r].open \in BOOLEAN
         /\ created[r].escalated \in {"no", "paid", "reversed"}
<1>1. created[r] \in Created
  BY DEF TypeOK
<1> QED BY <1>1 DEF Created, Statuses

LEMMA WorkType ==
  ASSUME work \in [Workers -> Work], NEW w \in Workers
  PROVE  /\ work[w] \in Work
         /\ work[w].at \in {"idle", "rows", "batch", "undoing", "decided"}
         /\ work[w].file \in Files \cup {None} /\ work[w].next \in Nat
         /\ work[w].todo \in Seq(Rows) /\ Len(work[w].todo) \in Nat
         /\ work[w].check \in Statuses
<1>1. work[w] \in Work
  OBVIOUS
<1> QED BY <1>1 DEF Work

LEMMA IdleType == Idle \in Work /\ Idle.at = "idle"
BY DEF Idle, Work, Statuses

LEMMA RowsAreFinite == IsFiniteSet(Rows)
<1> DEFINE rows(f) == {<<f, i>> : i \in 1..Len(Lines[f])}
<1>1. ASSUME NEW f \in Files PROVE IsFiniteSet(rows(f))
  <2> DEFINE g == [i \in 1..Len(Lines[f]) |-> <<f, i>>]
  <2>1. Len(Lines[f]) \in Int
    BY UploadsAssumption
  <2>2. IsFiniteSet(1..Len(Lines[f]))
    BY <2>1, FS_Interval
  <2>3. g \in Surjection(1..Len(Lines[f]), rows(f))
    BY DEF Surjection
  <2> QED BY <2>2, <2>3, FS_Surjection
<1> DEFINE all == {rows(f) : f \in Files}
           h == [f \in Files |-> rows(f)]
<1>2. h \in Surjection(Files, all)
  BY DEF Surjection
<1>3. IsFiniteSet(all)
  BY <1>2, UploadsAssumption, FS_Surjection
<1>4. \A T \in all : IsFiniteSet(T)
  BY <1>1
<1>5. Rows = UNION all
  BY DEF Rows
<1> HIDE DEF all
<1> QED BY <1>3, <1>4, <1>5, FS_UNION

\* An order of a finite set has all of it and nothing else.
LEMMA OrderFacts ==
  ASSUME NEW S, IsFiniteSet(S), NEW order \in SetToSeqs(S)
  PROVE  /\ order \in Seq(S)
         /\ \A k \in 1..Len(order) : order[k] \in S
         /\ \A x \in S : \E k \in 1..Len(order) : order[k] = x
<1> DEFINE n == Cardinality(S)
<1>1. n \in Nat
  BY FS_CardinalityType
<1>2. order \in [1..n -> S] /\ \A i, j \in 1..n : i # j => order[i] # order[j]
  BY DEF SetToSeqs
<1> HIDE DEF n
<1>3. order \in Seq(S) /\ Len(order) = n
  BY <1>1, <1>2
<1>4. IsFiniteSet(1..n) /\ Cardinality(1..n) = n
  BY <1>1, FS_Interval
<1>5. order \in Injection(1..n, S)
  BY <1>2 DEF Injection, IsInjective
<1>6. order \in Surjection(1..n, S)
  BY <1>4, <1>5, FS_Injection DEF n
<1> QED BY <1>2, <1>3, <1>6 DEF Surjection

-----------------------------------------------------------------------------
(***************************************************************************)
(* The shapes of a step.                                                   *)
(***************************************************************************)

\* What was submitted keeps its kind, and an account its owner.
KindsStay == /\ kind' \in [Files -> Kinds \cup {Absent}]
             /\ \A f \in Files : kind[f] # Absent => kind'[f] = kind[f]
OwnersStay == /\ owner' \in [References -> Owners \cup {Absent}]
              /\ alias' \in [References -> References \cup {None}]
              /\ \A n \in References : owner[n] # Absent => owner'[n] = owner[n]

\* A row on account n is on its uploader's own.
OnOwn(q, n) == Scope[q[1]] # None /\ n # None => owner'[n] = Scope[q[1]]

\* Row q comes into being, of itself or as the payment of an issue r.
Adds(q) == \E row \in Created :
  /\ created' = [created EXCEPT ![q] = row]
  /\ row.issued = None /\ row.status \in {"outstanding", "pending", "active", "kept"}
  /\ OnOwn(q, row.on)

PaidBy(q, r, n) ==
  [created EXCEPT ![r].status = "paid", ![q] = [NoRow EXCEPT !.status = "paid", !.on = n, !.issued = r]]

Pays(q) == \E n \in References : \E r \in Issues(n, Lines[q[1]][q[2]].check) :
  /\ created[r].status # "voided"
  /\ \A p \in Payments(n, Lines[q[1]][q[2]].check) : created[p].status # "paid"
  /\ created' = PaidBy(q, r, n)
  /\ OnOwn(q, n) /\ kind'[q[1]] \in {"paid_items", "check_images"}

Grows(q) ==
  /\ q \in Rows /\ created[q] = NoRow /\ q[1] \notin counted
  /\ KindsStay /\ kind'[q[1]] # Absent /\ \A f \in Files \ {q[1]} : kind'[f] = kind[f]
  /\ OwnersStay
  /\ Adds(q) \/ Pays(q)
  /\ UNCHANGED records

\* A worker has come to a row of a file or a batch.
OnRow(w) == Loading(w) /\ work[w].next <= Len(Lines[work[w].file])

Creates(w) == OnRow(w) /\ Onward(w) /\ Grows(Here(w)) /\ UNCHANGED <<kind, history>>

Passes(w) == OnRow(w) /\ RowFails(w)

Begun(f, at) == [Idle EXCEPT !.at = at, !.file = f, !.next = 1]

Takes(w) ==
  /\ work[w].at = "idle" /\ Meets(w)
  /\ \E f \in Files : \E k \in Kinds :
       /\ kind[f] = Absent
       /\ kind' = [kind EXCEPT ![f] = k]
       /\ \/ UNCHANGED work
          \/ \E at \in {"rows", "batch"} : work' = [work EXCEPT ![w] = Begun(f, at)]
  /\ byHand' \in 0..MaxByHand
  /\ UNCHANGED <<accounts, created, records, passed, faults>>

Types(f) ==
  /\ f \in Files /\ kind[f] = Absent
  /\ Grows(<<f, 1>>)
  /\ overlap' = (overlap \/ Busy # {}) /\ byHand' \in 0..MaxByHand
  /\ UNCHANGED <<work, passed, faults>>

\* A worker is done, or stopped.
Stops(w) ==
  /\ work[w].at # "idle" /\ work' = [work EXCEPT ![w] = Idle]
  /\ \/ UNCHANGED undone
     \/ /\ Backing(w) /\ work[w].next > Len(work[w].todo)
        /\ undone' = undone \cup {work[w].file}
  /\ faults' \in faults..MaxFaults
  /\ UNCHANGED <<kind, accounts, created, counted, tracked, reversed, passed, overlap, byHand>>

Finishes(w) == \E k \in Kinds : Finish(w, k)

Changes(r) ==
  VoidIssuedItem(r) \/ LabelAsFraud(r) \/ DecideException(r) \/ SetMembership(r) \/ EscalateAfterOcr(r)

\* What the uploader sees is there, and is its own.
LEMMA SeenIsOwn ==
  ASSUME TypeOK, NEW f \in Files, NEW n \in References, Visible(n, Scope[f])
  PROVE  owner[n] # Absent /\ (Scope[f] # None => owner[n] = Scope[f])
BY DEF Visible

\* A worker's row on an account the file may use is on its uploader's own.
LEMMA AccountFacts ==
  ASSUME TypeOK, NEW f \in Files, NEW ref \in References, NEW may \in BOOLEAN, NEW n \in References,
         OnAccount(f, ref, may, n), UNCHANGED alias
  PROVE  OwnersStay /\ (Scope[f] # None => owner'[n] = Scope[f])
<1>1. CASE n \in AccountByNumber(ref, Scope[f]) /\ UNCHANGED owner
  <2>1. Visible(n, Scope[f])
    BY <1>1 DEF AccountByNumber
  <2> QED BY <1>1, <2>1, SeenIsOwn DEF OwnersStay, TypeOK
<1>2. CASE owner[n] = Absent /\ owner' = [owner EXCEPT ![n] = Scope[f]]
  <2>1. Scope[f] \in Owners
    BY ScopeType
  <2> QED BY <1>2, <2>1 DEF OwnersStay, TypeOK
<1> QED BY <1>1, <1>2 DEF OnAccount

LEMMA HereFacts ==
  ASSUME RecordsInv, NEW w \in Workers, OnRow(w)
  PROVE  /\ work[w].file \in Files /\ Here(w) \in Rows /\ Here(w)[1] = work[w].file
         /\ Here(w)[2] = work[w].next /\ Line(w) = Lines[Here(w)[1]][Here(w)[2]]
         /\ Line(w).ref \in References /\ Line(w).alias \in References \cup {None}
         /\ created[Here(w)] = NoRow /\ work[w].file \notin counted /\ kind[work[w].file] # Absent
<1>1. LoadOf(w) /\ work[w].next \in Nat
  BY WorkType DEF RecordsInv, LoadInv, OnRow
<1>2. /\ Here(w) \in Rows /\ Line(w).ref \in References /\ Line(w).alias \in References \cup {None}
  BY <1>1, LineType DEF LoadOf, OnRow, Here, Line
<1> QED BY <1>1, <1>2 DEF LoadOf, Here, Line

\* A row that creates something not a payment, on an account the file may use.
LEMMA RowAdds ==
  ASSUME RecordsInv, NEW w \in Workers, OnRow(w), NEW row \in Created,
         RowCreates(w, row), row.issued = None,
         row.status \in {"outstanding", "pending", "active", "kept"},
         OwnersStay, OnOwn(Here(w), row.on)
  PROVE  Creates(w)
<1>1. Adds(Here(w))
  BY DEF Adds, RowCreates
<1>2. KindsStay /\ kind'[Here(w)[1]] # Absent
  BY HereFacts DEF RowCreates, KindsStay, RecordsInv, TypeOK
<1>3. Grows(Here(w))
  BY <1>1, <1>2, HereFacts DEF Grows, RowCreates, records
<1> QED BY <1>3 DEF Creates, RowCreates, history

\* So does a presented item, if it is not matched; if it is, it pays.
LEMMA PresentedGrows ==
  ASSUME TypeOK, NEW q \in Rows, NEW n \in References, Presented(q, Lines[q[1]][q[2]].check, n),
         kind'[q[1]] \in {"paid_items", "check_images"}, OnOwn(q, n)
  PROVE  Adds(q) \/ Pays(q)
<1> DEFINE c   == Lines[q[1]][q[2]].check
           row == [NoRow EXCEPT !.status = "pending", !.on = n, !.open = TRUE]
<1>1. CASE created' = [created EXCEPT ![q] = row]
  <2>1. row \in Created /\ row.issued = None /\ row.status = "pending" /\ row.on = n
    BY DEF Created, NoRow
  <2> HIDE DEF row
  <2> QED BY <1>1, <2>1 DEF Adds
<1>2. CASE \E r \in Issues(n, c) :
             /\ created[r].status # "voided"
             /\ \A p \in Payments(n, c) : created[p].status # "paid"
             /\ created' = PaidBy(q, r, n)
  BY <1>2 DEF Pays
<1> QED BY <1>1, <1>2 DEF Presented, PaidBy

LEMMA PlainRowAdds ==
  ASSUME RecordsInv, NEW w \in Workers, OnRow(w), NEW s \in {"outstanding", "kept"},
         NEW n \in References, RowCreates(w, [NoRow EXCEPT !.status = s, !.on = n]),
         OwnersStay, Scope[work[w].file] # None => owner'[n] = Scope[work[w].file]
  PROVE  Creates(w)
<1> DEFINE row == [NoRow EXCEPT !.status = s, !.on = n]
<1>1. row \in Created /\ row.issued = None /\ row.status = s /\ row.on = n
  BY DEF NoRow, Created
<1>2. OnOwn(Here(w), row.on)
  BY <1>1, HereFacts DEF OnOwn
<1>3. RowCreates(w, row)
  OBVIOUS
<1> HIDE DEF row
<1> QED BY <1>1, <1>2, <1>3, RowAdds

LEMMA ListedFacts ==
  ASSUME TypeOK, NEW f \in Files, NEW n \in Listed(f), UNCHANGED accounts
  PROVE  n \in References /\ OwnersStay /\ (Scope[f] # None => owner'[n] = Scope[f])
<1>1. n \in References /\ Visible(n, Scope[f])
  BY DEF Listed
<1> QED BY <1>1, SeenIsOwn DEF OwnersStay, TypeOK, accounts

\* The row of a file of issued items.
LEMMA IssuedItemRowShape ==
  ASSUME RecordsInv, NEW w \in Workers, IssuedItemRow(w)
  PROVE  Creates(w) \/ Passes(w)
<1>0. TypeOK /\ OnRow(w)
  BY DEF RecordsInv, IssuedItemRow, AtRow, OnRow, Loading
<1> USE <1>0
<1>1. ASSUME NEW n \in References, OnAccount(work[w].file, Line(w).ref, TRUE, n),
             RowCreates(w, [NoRow EXCEPT !.status = "outstanding", !.on = n])
      PROVE  Creates(w)
  <2>1. UNCHANGED alias /\ TRUE \in BOOLEAN
    BY <1>1 DEF RowCreates
  <2>2. OwnersStay /\ (Scope[work[w].file] # None => owner'[n] = Scope[work[w].file])
    BY <1>1, <2>1, HereFacts, AccountFacts
  <2> QED BY <1>1, <2>2, PlainRowAdds
<1> QED BY <1>1 DEF IssuedItemRow, Passes

LEMMA PresentedRowShape ==
  ASSUME RecordsInv, NEW w \in Workers, OnRow(w), NEW may \in BOOLEAN, PresentedRow(w, may),
         kind[work[w].file] \in {"paid_items", "check_images"}
  PROVE  Creates(w) \/ Passes(w)
<1>0. TypeOK
  BY DEF RecordsInv
<1> USE <1>0
<1>1. ASSUME NEW n \in References, OnAccount(work[w].file, Line(w).ref, may, n),
             Presented(Here(w), Line(w).check, n), Onward(w),
             UNCHANGED <<kind, alias, records, history>>
      PROVE  Creates(w)
  <2>1. OwnersStay /\ (Scope[work[w].file] # None => owner'[n] = Scope[work[w].file])
    BY <1>1, HereFacts, AccountFacts
  <2>2. /\ kind'[Here(w)[1]] \in {"paid_items", "check_images"} /\ OnOwn(Here(w), n)
        /\ Presented(Here(w), Lines[Here(w)[1]][Here(w)[2]].check, n)
    BY <1>1, <2>1, HereFacts DEF OnOwn
  <2>3. Adds(Here(w)) \/ Pays(Here(w))
    BY <2>2, HereFacts, PresentedGrows
  <2>4. KindsStay /\ kind'[Here(w)[1]] # Absent
    BY <1>1, HereFacts DEF KindsStay, TypeOK
  <2>5. Grows(Here(w))
    BY <1>1, <2>1, <2>3, <2>4, HereFacts DEF Grows, records
  <2> QED BY <1>1, <2>5 DEF Creates, history
<1> QED BY <1>1 DEF PresentedRow, Passes

LEMMA KeptRowShape ==
  ASSUME RecordsInv, NEW w \in Workers, AchRow(w) \/ ExampleRow(w)
  PROVE  Creates(w) \/ Passes(w)
<1>0. TypeOK /\ OnRow(w)
  BY DEF RecordsInv, AchRow, ExampleRow, AtRow, OnRow, Loading
<1> USE <1>0
<1>1. ASSUME NEW n \in References, OnAccount(work[w].file, Line(w).ref, TRUE, n),
             RowCreates(w, [NoRow EXCEPT !.status = "kept", !.on = n])
      PROVE  Creates(w)
  <2>1. UNCHANGED alias /\ TRUE \in BOOLEAN
    BY <1>1 DEF RowCreates
  <2>2. OwnersStay /\ (Scope[work[w].file] # None => owner'[n] = Scope[work[w].file])
    BY <1>1, <2>1, HereFacts, AccountFacts
  <2> QED BY <1>1, <2>2, PlainRowAdds
<1>2. ASSUME NEW n \in AccountByNumber(Line(w).ref, Scope[work[w].file]), UNCHANGED owner,
             RowCreates(w, [NoRow EXCEPT !.status = "kept", !.on = n])
      PROVE  Creates(w)
  <2>1. UNCHANGED alias /\ TRUE \in BOOLEAN /\ n \in References
    BY <1>2, HereFacts DEF RowCreates, AccountByNumber
  <2>2. OnAccount(work[w].file, Line(w).ref, TRUE, n)
    BY <1>2 DEF OnAccount
  <2> QED BY <1>1, <1>2, <2>1, <2>2
<1> QED BY <1>1, <1>2 DEF AchRow, ExampleRow, Passes

LEMMA AccountRowShape ==
  ASSUME RecordsInv, NEW w \in Workers, AccountRow(w)
  PROVE  Creates(w) \/ Passes(w)
<1>0. TypeOK /\ OnRow(w)
  BY DEF RecordsInv, AccountRow, AtRow, OnRow, Loading
<1> USE <1>0
<1> DEFINE n   == Line(w).ref
           row == [NoRow EXCEPT !.status = "kept", !.on = n]
<1>1. CASE /\ Free(n, Line(w).alias)
           /\ \E c \in Names(work[w].file) : owner' = [owner EXCEPT ![n] = c]
           /\ alias' = [alias EXCEPT ![n] = Line(w).alias]
           /\ created' = [created EXCEPT ![Here(w)] = row]
           /\ Onward(w)
           /\ UNCHANGED <<kind, records, history>>
  <2>1. /\ n \in References /\ Line(w).alias \in References \cup {None} /\ work[w].file \in Files
        /\ Here(w)[1] = work[w].file
    BY HereFacts
  <2> HIDE DEF n
  <2>2. OwnersStay /\ (Scope[work[w].file] # None => owner'[n] = Scope[work[w].file])
    <3>1. PICK c \in Names(work[w].file) : owner' = [owner EXCEPT ![n] = c]
      BY <1>1
    <3>2. c \in Owners /\ (Scope[work[w].file] # None => c = Scope[work[w].file])
      BY <2>1, ScopeType DEF Names
    <3> QED BY <1>1, <2>1, <3>1, <3>2 DEF OwnersStay, TypeOK, Free
  <2>3. row \in Created /\ row.issued = None /\ row.status = "kept" /\ row.on = n
    BY <2>1 DEF NoRow, Created
  <2>4. created' = [created EXCEPT ![Here(w)] = row] /\ OnOwn(Here(w), row.on)
    BY <1>1, <2>1, <2>2, <2>3 DEF OnOwn
  <2> HIDE DEF row
  <2>5. Adds(Here(w))
    BY <2>3, <2>4 DEF Adds
  <2>6. KindsStay /\ kind'[Here(w)[1]] # Absent
    BY <1>1, HereFacts DEF KindsStay, TypeOK
  <2>7. Grows(Here(w))
    BY <1>1, <2>2, <2>5, <2>6, HereFacts DEF Grows, records
  <2> QED BY <1>1, <2>7 DEF Creates, history
<1> QED BY <1>1 DEF AccountRow, Passes

LEMMA UserRowShape ==
  ASSUME RecordsInv, NEW w \in Workers, UserRow(w)
  PROVE  Creates(w) \/ Passes(w)
<1>0. TypeOK /\ OnRow(w)
  BY DEF RecordsInv, UserRow, AtRow, OnRow, Loading
<1> USE <1>0
<1> DEFINE row == [NoRow EXCEPT !.status = "active"]
<1>1. CASE RowCreates(w, row) /\ UNCHANGED owner
  <2>1. row \in Created /\ row.issued = None /\ row.status = "active" /\ row.on = None
    BY DEF NoRow, Created
  <2>2. OnOwn(Here(w), row.on) /\ RowCreates(w, row) /\ OwnersStay
    BY <1>1, <2>1 DEF OnOwn, OwnersStay, RowCreates, TypeOK
  <2> HIDE DEF row
  <2> QED BY <2>1, <2>2, RowAdds
<1> QED BY <1>1 DEF UserRow, Passes

LEMMA UploadShape ==
  ASSUME RecordsInv, NEW w \in Workers,
         \/ IssuedItemRow(w) \/ PaidItemRow(w) \/ CheckImageRow(w) \/ AchRow(w) \/ ExampleRow(w)
         \/ AccountRow(w) \/ UserRow(w)
  PROVE  Creates(w) \/ Passes(w)
<1>1. ASSUME PaidItemRow(w) \/ CheckImageRow(w) PROVE Creates(w) \/ Passes(w)
  <2>1. OnRow(w) /\ kind[work[w].file] \in {"paid_items", "check_images"}
    BY <1>1 DEF PaidItemRow, CheckImageRow, AtRow, OnRow, Loading
  <2>2. TRUE \in BOOLEAN /\ FALSE \in BOOLEAN
    OBVIOUS
  <2>3. ASSUME PresentedRow(w, TRUE) PROVE Creates(w) \/ Passes(w)
    BY <2>1, <2>2, <2>3, PresentedRowShape
  <2>4. ASSUME PresentedRow(w, FALSE) PROVE Creates(w) \/ Passes(w)
    BY <2>1, <2>2, <2>4, PresentedRowShape
  <2> QED BY <1>1, <2>1, <2>3, <2>4 DEF PaidItemRow, CheckImageRow, Passes
<1> QED BY <1>1, IssuedItemRowShape, KeptRowShape, AccountRowShape, UserRowShape

\* A row of a batch names an account that its sender sees.
LEMMA BatchShape ==
  ASSUME RecordsInv, NEW w \in Workers, NEW n \in References, NEW k \in Kinds, InBatch(w, k, n),
         UNCHANGED owner,
         \/ RowCreates(w, [NoRow EXCEPT !.status = "outstanding", !.on = n])
         \/ RowCreates(w, [NoRow EXCEPT !.status = "kept", !.on = n])
         \/ /\ k = "paid_items"
            /\ Presented(Here(w), Line(w).check, n)
            /\ Onward(w)
            /\ UNCHANGED <<kind, accounts, records, history>>
  PROVE  Creates(w)
<1>0. TypeOK /\ OnRow(w)
  BY DEF RecordsInv, InBatch, OnRow, Loading
<1> USE <1>0
<1>1. UNCHANGED accounts
  BY DEF RowCreates, accounts
<1>2. OwnersStay /\ (Scope[work[w].file] # None => owner'[n] = Scope[work[w].file])
  BY <1>1, HereFacts, ListedFacts DEF InBatch
<1>3. CASE \/ RowCreates(w, [NoRow EXCEPT !.status = "outstanding", !.on = n])
           \/ RowCreates(w, [NoRow EXCEPT !.status = "kept", !.on = n])
  BY <1>2, <1>3, PlainRowAdds
<1>4. CASE /\ k = "paid_items"
           /\ Presented(Here(w), Line(w).check, n)
           /\ Onward(w)
           /\ UNCHANGED <<kind, accounts, records, history>>
  <2>1. /\ kind'[Here(w)[1]] \in {"paid_items", "check_images"} /\ OnOwn(Here(w), n)
        /\ Presented(Here(w), Lines[Here(w)[1]][Here(w)[2]].check, n)
    BY <1>2, <1>4, HereFacts DEF OnOwn, InBatch
  <2>2. Adds(Here(w)) \/ Pays(Here(w))
    BY <2>1, HereFacts, PresentedGrows
  <2>3. KindsStay /\ kind'[Here(w)[1]] # Absent
    BY <1>4, HereFacts DEF KindsStay, TypeOK
  <2>4. Grows(Here(w))
    BY <1>2, <1>4, <2>2, <2>3, HereFacts DEF Grows, records
  <2> QED BY <1>4, <2>4 DEF Creates, history
<1> QED BY <1>3, <1>4

LEMMA KindsAreThere == /\ \A k \in Kinds : k # Absent
                       /\ MaxByHand \in Nat /\ MaxFaults \in Nat
BY UploadsAssumption

LEMMA OneMore ==
  ASSUME TypeOK, byHand < MaxByHand, byHand' = byHand + 1
  PROVE  byHand' \in 0..MaxByHand
BY KindsAreThere DEF TypeOK

\* What a form says is on an account its user chose from the list.
LEMMA FormShape ==
  ASSUME RecordsInv, NEW f \in Files, NEW k \in Kinds, Typed(f, k), OwnersStay,
         \/ \E n \in References : \E s \in {"outstanding", "kept"} :
              /\ created' = [created EXCEPT ![<<f, 1>>] = [NoRow EXCEPT !.status = s, !.on = n]]
              /\ Scope[f] # None => owner'[n] = Scope[f]
         \/ \E n \in References :
              /\ k = "paid_items" /\ Presented(<<f, 1>>, Lines[f][1].check, n)
              /\ Scope[f] # None => owner'[n] = Scope[f]
  PROVE  Types(f)
<1>0. TypeOK
  BY DEF RecordsInv
<1> DEFINE q == <<f, 1>>
<1>1. q \in Rows /\ q[1] = f /\ q[2] = 1
  BY FirstLine
<1>2. created[q] = NoRow /\ f \notin counted /\ kind[f] = Absent
  BY <1>1 DEF RecordsInv, FileInv, Typed
<1>3. /\ KindsStay /\ kind'[f] # Absent /\ kind'[f] = k /\ \A g \in Files \ {f} : kind'[g] = kind[g]
      /\ byHand' \in 0..MaxByHand
  <2>1. kind' = [kind EXCEPT ![f] = k] /\ k # Absent /\ kind \in [Files -> Kinds \cup {Absent}]
    BY <1>0, KindsAreThere DEF TypeOK, Typed
  <2>2. byHand < MaxByHand /\ byHand' = byHand + 1
    BY DEF Typed
  <2>3. byHand' \in 0..MaxByHand
    BY <1>0, <2>2, OneMore
  <2> QED BY <1>2, <2>1, <2>3 DEF KindsStay
<1> HIDE DEF q
<1>4. Adds(q) \/ Pays(q)
  <2>1. ASSUME NEW n \in References, NEW s \in {"outstanding", "kept"},
               created' = [created EXCEPT ![q] = [NoRow EXCEPT !.status = s, !.on = n]],
               Scope[f] # None => owner'[n] = Scope[f]
        PROVE  Adds(q)
    <3> DEFINE row == [NoRow EXCEPT !.status = s, !.on = n]
    <3>1. row \in Created /\ row.issued = None /\ row.status = s /\ row.on = n
      BY DEF NoRow, Created
    <3>2. created' = [created EXCEPT ![q] = row] /\ OnOwn(q, row.on)
      BY <1>1, <2>1, <3>1 DEF OnOwn
    <3> HIDE DEF row
    <3> QED BY <3>1, <3>2 DEF Adds
  <2>2. ASSUME NEW n \in References, k = "paid_items", Presented(q, Lines[f][1].check, n),
               Scope[f] # None => owner'[n] = Scope[f]
        PROVE  Adds(q) \/ Pays(q)
    <3>1. Presented(q, Lines[q[1]][q[2]].check, n) /\ OnOwn(q, n)
      BY <1>1, <2>2 DEF OnOwn
    <3>2. kind'[q[1]] \in {"paid_items", "check_images"}
      BY <1>1, <1>3, <2>2
    <3> QED BY <1>0, <1>1, <3>1, <3>2, PresentedGrows
  <2> QED BY <2>1, <2>2 DEF q
<1>5. Grows(q)
  BY <1>1, <1>2, <1>3, <1>4 DEF Grows, Typed, records
<1> QED BY <1>2, <1>3, <1>5 DEF Types, Typed, q

LEMMA FormsShape ==
  ASSUME RecordsInv, NEW f \in Files,
         \/ CreateIssuedItem(f) \/ CreatePaidItem(f) \/ CreateTransaction(f)
         \/ CreateAccount(f) \/ SubmitExample(f)
  PROVE  Types(f)
<1>0. TypeOK
  BY DEF RecordsInv
<1>k. /\ "issued_items" \in Kinds /\ "paid_items" \in Kinds /\ "ach_transactions" \in Kinds
      /\ "accounts" \in Kinds /\ "fraud_training_examples" \in Kinds
  BY DEF Kinds
<1>1. CASE CreateIssuedItem(f)
  <2>1. PICK n \in Listed(f) :
          created' = [created EXCEPT ![<<f, 1>>] = [NoRow EXCEPT !.status = "outstanding", !.on = n]]
    BY <1>1 DEF CreateIssuedItem
  <2>2. n \in References /\ OwnersStay /\ (Scope[f] # None => owner'[n] = Scope[f])
    BY <1>0, <1>1, ListedFacts DEF CreateIssuedItem
  <2> QED BY <1>1, <1>k, <2>1, <2>2, FormShape DEF CreateIssuedItem
<1>2. CASE CreatePaidItem(f)
  <2>1. PICK n \in Listed(f) : Presented(<<f, 1>>, Lines[f][1].check, n)
    BY <1>2 DEF CreatePaidItem
  <2>2. n \in References /\ OwnersStay /\ (Scope[f] # None => owner'[n] = Scope[f])
    BY <1>0, <1>2, ListedFacts DEF CreatePaidItem
  <2> QED BY <1>2, <1>k, <2>1, <2>2, FormShape DEF CreatePaidItem
<1>3. CASE CreateTransaction(f) \/ SubmitExample(f)
  <2>1. PICK n \in Listed(f) : Keeps(f, n)
    BY <1>3 DEF CreateTransaction, SubmitExample
  <2>2. n \in References /\ OwnersStay /\ (Scope[f] # None => owner'[n] = Scope[f])
    BY <1>0, <1>3, ListedFacts DEF CreateTransaction, SubmitExample
  <2> QED BY <1>3, <1>k, <2>1, <2>2, FormShape DEF CreateTransaction, SubmitExample, Keeps
<1>4. CASE CreateAccount(f)
  <2> DEFINE n == Lines[f][1].ref
             a == Lines[f][1].alias
  <2>1. n \in References /\ a \in References \cup {None}
    BY FirstLine
  <2>2. /\ owner[n] = Absent /\ alias' = [alias EXCEPT ![n] = a] /\ Keeps(f, n)
        /\ \E c \in Names(f) : owner' = [owner EXCEPT ![n] = c]
    BY <1>4 DEF CreateAccount, Free
  <2> HIDE DEF n, a
  <2>3. PICK c \in Owners : owner' = [owner EXCEPT ![n] = c] /\ (Scope[f] # None => c = Scope[f])
    BY <2>2, ScopeType DEF Names
  <2>4. OwnersStay /\ (Scope[f] # None => owner'[n] = Scope[f])
    BY <1>0, <2>1, <2>2, <2>3 DEF OwnersStay, TypeOK
  <2> QED BY <1>4, <1>k, <2>1, <2>2, <2>4, FormShape DEF CreateAccount, Keeps
<1> QED BY <1>1, <1>2, <1>3, <1>4

LEMMA TakesShape ==
  ASSUME RecordsInv, NEW w \in Workers, NEW k \in Kinds, Receive(w, k) \/ Refuse(w, k) \/ Submit(w, k)
  PROVE  Takes(w)
<1>0. TypeOK
  BY DEF RecordsInv
<1>1. ASSUME NEW f \in Files, RecordUploadedFile(w, f, k),
             UNCHANGED work \/ work' = [work EXCEPT ![w] = [Idle EXCEPT !.at = "rows", !.file = f, !.next = 1]]
      PROVE  Takes(w)
  BY <1>0, <1>1 DEF Takes, RecordUploadedFile, Begun, TypeOK
<1>2. ASSUME Submit(w, k) PROVE Takes(w)
  <2>1. PICK f \in Files :
          /\ work[w].at = "idle" /\ kind[f] = Absent
          /\ kind' = [kind EXCEPT ![f] = k]
          /\ byHand < MaxByHand /\ byHand' = byHand + 1
          /\ work' = [work EXCEPT ![w] = [Idle EXCEPT !.at = "batch", !.file = f, !.next = 1]]
          /\ Meets(w)
          /\ UNCHANGED <<accounts, created, records, passed, faults>>
    BY <1>2 DEF Submit
  <2>2. byHand' \in 0..MaxByHand
    BY <1>0, <2>1, OneMore
  <2> QED BY <2>1, <2>2 DEF Takes, Begun
<1> QED BY <1>1, <1>2 DEF Receive, Refuse

LEMMA StopsShape ==
  ASSUME RecordsInv, NEW w \in Workers, Crash(w) \/ EndBackOut(w) \/ EndBatch(w)
  PROVE  Stops(w)
<1>1. TypeOK /\ faults \in 0..MaxFaults
  BY DEF RecordsInv, TypeOK
<1>2. CASE Crash(w)
  <2>1. faults' \in faults..MaxFaults
    BY <1>1, <1>2, KindsAreThere DEF Crash
  <2> QED BY <1>2, <2>1 DEF Crash, Stops, records
<1>3. CASE EndBackOut(w) \/ EndBatch(w)
  <2>1. faults' \in faults..MaxFaults
    BY <1>1, <1>3, KindsAreThere DEF EndBackOut, EndBatch, history
  <2> QED BY <1>3, <2>1 DEF EndBackOut, EndBatch, Stops, records, history, Backing
<1> QED BY <1>2, <1>3

LEMMA ApiShape ==
  ASSUME RecordsInv, NEW w \in Workers, ByApi(w)
  PROVE  Creates(w) \/ Passes(w) \/ Takes(w) \/ Stops(w)
<1>k. /\ "issued_items" \in Kinds /\ "paid_items" \in Kinds /\ "ach_transactions" \in Kinds
      /\ "fraud_training_examples" \in Kinds
  BY DEF Kinds
<1>1. CASE CreateIssuedItemsBulk(w)
  BY <1>1, <1>k, TakesShape, BatchShape DEF CreateIssuedItemsBulk
<1>2. CASE CreatePaidItemsBulk(w)
  <2>1. ASSUME NEW n \in References, InBatch(w, "paid_items", n), Presented(Here(w), Line(w).check, n),
               Onward(w), UNCHANGED <<kind, accounts, records, history>>
        PROVE  Creates(w)
    <3>1. UNCHANGED owner
      BY <2>1 DEF accounts
    <3> QED BY <1>k, <2>1, <3>1, BatchShape
  <2> QED BY <1>2, <1>k, <2>1, TakesShape DEF CreatePaidItemsBulk
<1>3. CASE CreateTransactionsBulk(w)
  BY <1>3, <1>k, TakesShape, BatchShape DEF CreateTransactionsBulk
<1>4. CASE CreateExamplesBulk(w)
  BY <1>4, <1>k, TakesShape, BatchShape DEF CreateExamplesBulk
<1>5. CASE BatchRowFails(w)
  BY <1>5 DEF BatchRowFails, Passes, OnRow, Loading
<1>6. CASE EndBatch(w)
  BY <1>6, StopsShape
<1> QED BY <1>1, <1>2, <1>3, <1>4, <1>5, <1>6 DEF ByApi

LEMMA StepShape ==
  ASSUME RecordsInv, Next
  PROVE  \/ \E w \in Workers : Creates(w) \/ Passes(w) \/ Takes(w) \/ Finishes(w) \/ Stops(w)
         \/ \E f \in Files : Types(f)
         \/ \E w \in Workers : \/ \E f \in Files : BackOutUpload(w, f)
                               \/ \E r \in Rows : RefuseRow(w, r) \/ ReadRow(w, r) \/ CommitRow(w, r)
                               \/ RowRaises(w)
         \/ \E r \in Rows : Changes(r)
<1>k. /\ "issued_items" \in Kinds /\ "paid_items" \in Kinds /\ "ach_transactions" \in Kinds
      /\ "accounts" \in Kinds /\ "fraud_training_examples" \in Kinds /\ "check_images" \in Kinds
      /\ "users" \in Kinds
  BY DEF Kinds
<1>1. ASSUME NEW w \in Workers,
             \/ UploadIssuedItems(w) \/ UploadPaidItems(w) \/ UploadCheckImages(w) \/ UploadTransactions(w)
             \/ UploadAccounts(w) \/ UploadUsers(w) \/ UploadExamples(w)
      PROVE  Creates(w) \/ Passes(w) \/ Takes(w) \/ Finishes(w)
  BY <1>1, <1>k, UploadShape, TakesShape
  DEF UploadIssuedItems, UploadPaidItems, UploadCheckImages, UploadTransactions, UploadAccounts,
      UploadUsers, UploadExamples, Finishes
<1>2. ASSUME NEW w \in Workers, \E k \in Kinds : Refuse(w, k) PROVE Takes(w)
  BY <1>2, TakesShape
<1>3. ASSUME NEW w \in Workers, BackOut(w)
      PROVE  \/ \E f \in Files : BackOutUpload(w, f)
             \/ \E r \in Rows : RefuseRow(w, r) \/ ReadRow(w, r) \/ CommitRow(w, r)
             \/ Stops(w)
  BY <1>3, StopsShape DEF BackOut
<1>4. ASSUME ByForm PROVE \E f \in Files : Types(f)
  BY <1>4, FormsShape DEF ByForm
<1>5. CASE \E w \in Workers :
             \/ UploadIssuedItems(w) \/ UploadPaidItems(w) \/ UploadCheckImages(w) \/ UploadTransactions(w)
             \/ UploadAccounts(w) \/ UploadUsers(w) \/ UploadExamples(w)
             \/ \E k \in Kinds : Refuse(w, k)
             \/ BackOut(w) \/ RowRaises(w) \/ ByApi(w) \/ Crash(w)
  BY <1>1, <1>2, <1>3, <1>5, ApiShape, StopsShape
<1>6. CASE \E r \in Rows : VoidIssuedItem(r) \/ LabelAsFraud(r) \/ DecideException(r) \/ SetMembership(r)
                           \/ EscalateAfterOcr(r)
  BY <1>6 DEF Changes
<1> QED BY <1>4, <1>5, <1>6 DEF Next

-----------------------------------------------------------------------------
(***************************************************************************)
(* What the rows say.                                                      *)
(***************************************************************************)

RowsInv == FileInv /\ RowInv /\ RowsAreTracked /\ ScopeIsKept

\* A row that comes into being leaves the others, but for the issue it pays.
LEMMA GrowsFacts ==
  ASSUME TypeOK, RowInv, NEW q \in Rows, Grows(q)
  PROVE  /\ created' \in [Rows -> Created]
         /\ created'[q].status # "absent" /\ OnOwn(q, created'[q].on)
         /\ \A r \in Rows \ {q} : \/ created'[r] = created[r]
                                  \/ /\ r = created'[q].issued /\ created[r].issued = None
                                     /\ created[r].status \notin {"absent", "voided"}
                                     /\ created'[r] = [created[r] EXCEPT !.status = "paid"]
         /\ created'[q].issued # None =>
              /\ created'[q].issued \in Rows /\ created'[q].issued # q
              /\ Matches(created'[q].issued, created'[q].on, q)
              /\ created'[created'[q].issued].status = "paid"
              /\ created'[q].status = "paid" /\ kind'[q[1]] \in {"paid_items", "check_images"}
              /\ created'[q].escalated = "no" /\ created'[q].open = FALSE
              /\ \A p \in Rows : created[p].issued = created'[q].issued => created[p].status # "paid"
         /\ created'[q].issued = None => created'[q].status \in {"outstanding", "pending", "active", "kept"}
<1>0. created \in [Rows -> Created] /\ created[q] = NoRow
  BY DEF TypeOK, Grows
<1>1. CASE Adds(q)
  <2>1. PICK row \in Created : /\ created' = [created EXCEPT ![q] = row]
                               /\ row.issued = None /\ row.status \in {"outstanding", "pending", "active", "kept"}
                               /\ OnOwn(q, row.on)
    BY <1>1 DEF Adds
  <2>2. /\ created'[q] = row /\ created' \in [Rows -> Created]
        /\ \A r \in Rows \ {q} : created'[r] = created[r]
    BY <1>0, <2>1
  <2> QED BY <2>1, <2>2
<1>2. CASE Pays(q)
  <2> DEFINE c == Lines[q[1]][q[2]].check
  <2>1. PICK n \in References : \E r \in Issues(n, c) :
          /\ created[r].status # "voided"
          /\ \A p \in Payments(n, c) : created[p].status # "paid"
          /\ created' = PaidBy(q, r, n)
          /\ OnOwn(q, n) /\ kind'[q[1]] \in {"paid_items", "check_images"}
    BY <1>2 DEF Pays
  <2>2. PICK r \in Issues(n, c) :
          /\ created[r].status # "voided"
          /\ \A p \in Payments(n, c) : created[p].status # "paid"
          /\ created' = PaidBy(q, r, n)
          /\ OnOwn(q, n) /\ kind'[q[1]] \in {"paid_items", "check_images"}
    BY <2>1
  <2>3. /\ r \in Rows /\ kind[r[1]] = "issued_items" /\ created[r].status # "absent"
        /\ created[r].on = n /\ Lines[r[1]][r[2]].check = c
    BY DEF Issues
  <2> DEFINE pay == [NoRow EXCEPT !.status = "paid", !.on = n, !.issued = r]
             x   == [created[r] EXCEPT !.status = "paid"]
  <2>4. r # q /\ created[r] \in Created
    BY <1>0, <2>3 DEF NoRow
  <2>5. pay \in Created /\ x \in Created
    BY <2>3, <2>4 DEF Created, NoRow
  <2>6. /\ created'[q] = pay /\ created'[r] = x /\ created' \in [Rows -> Created]
        /\ \A s \in Rows \ {q, r} : created'[s] = created[s]
    BY <1>0, <2>2, <2>3, <2>4, <2>5 DEF PaidBy
  <2>7. /\ pay.status = "paid" /\ pay.on = n /\ pay.issued = r /\ x.status = "paid"
        /\ pay.escalated = "no" /\ pay.open = FALSE
    BY <2>4 DEF Created, NoRow
  <2>8. created[r].issued = None
    BY <2>3 DEF RowInv
  <2>9. \A p \in Rows : created[p].issued = r => created[p].status # "paid"
    <3>1. r # None
      BY <2>3, UploadsAssumption
    <3>2. ASSUME NEW p \in Rows, created[p].issued = r PROVE p \in Payments(n, c)
      BY <2>3, <3>1, <3>2 DEF RowInv, Matches, Payments
    <3> QED BY <2>2, <3>2
  <2>10. Matches(r, n, q)
    BY <2>3 DEF Matches
  <2> HIDE DEF pay, x, c
  <2>11. created[r].status \notin {"absent", "voided"} /\ created'[r] = [created[r] EXCEPT !.status = "paid"]
    BY <2>2, <2>3, <2>6 DEF x
  <2>12. /\ created'[q].status = "paid" /\ created'[q].on = n /\ created'[q].issued = r /\ r # None
         /\ created'[q].escalated = "no" /\ created'[q].open = FALSE
    BY <2>3, <2>6, <2>7, UploadsAssumption
  <2>13. OnOwn(q, created'[q].on) /\ created'[q].status # "absent"
    BY <2>2, <2>12
  <2>14. \A s \in Rows \ {q} : \/ created'[s] = created[s]
                               \/ /\ s = created'[q].issued /\ created[s].issued = None
                                  /\ created[s].status \notin {"absent", "voided"}
                                  /\ created'[s] = [created[s] EXCEPT !.status = "paid"]
    BY <2>6, <2>8, <2>11, <2>12
  <2>15. created'[r].status = "paid" /\ Matches(r, created'[q].on, q)
    BY <2>6, <2>7, <2>10, <2>12
  <2> QED BY <2>2, <2>3, <2>4, <2>6, <2>9, <2>12, <2>13, <2>14, <2>15
<1> QED BY <1>1, <1>2 DEF Grows

\* Row r is the same one, whatever became of its status.
Steady(r) ==
  /\ created'[r].on = created[r].on /\ created'[r].issued = created[r].issued
  /\ created[r] = NoRow => created'[r] = NoRow
  /\ created'[r].status = "absent" <=> created[r].status = "absent"
  /\ created[r].issued # None => Standing(created'[r])

\* Row q is new, of a file that is still loading, and on its uploader's own account.
Fresh(q) ==
  /\ created[q] = NoRow /\ q[1] \notin counted /\ kind'[q[1]] # Absent
  /\ created'[q].status # "absent"
  /\ OnOwn(q, created'[q].on)
  /\ created'[q].issued # None =>
       /\ Matches(created'[q].issued, created'[q].on, q)
       /\ kind'[q[1]] \in {"paid_items", "check_images"}
       /\ Standing(created'[q])

LEMMA IssuesMatch ==
  ASSUME KindsStay, NEW new, \A r \in Rows \ new : Steady(r), \A q \in new : created[q] = NoRow,
         NEW x, NEW on, NEW r, Matches(x, on, r)
  PROVE  /\ x \in Rows /\ kind'[x[1]] = "issued_items" /\ created'[x].status # "absent"
         /\ created'[x].on = on /\ Lines[x[1]][x[2]].check = Lines[r[1]][r[2]].check
<1>1. x \in Rows /\ x[1] \in Files /\ kind[x[1]] = "issued_items" /\ created[x].status # "absent"
  BY RowsType DEF Matches
<1>2. x \notin new
  BY <1>1 DEF NoRow
<1>3. "issued_items" # Absent
  BY KindsAreThere DEF Kinds
<1> QED BY <1>1, <1>2, <1>3 DEF Matches, Steady, KindsStay

LEMMA RowsFrame ==
  ASSUME RecordsInv, KindsStay, OwnersStay, UNCHANGED <<counted, tracked>>, NEW new,
         \A r \in Rows \ new : Steady(r), \A q \in new : Fresh(q)
  PROVE  RowsInv'
<1>0. TypeOK /\ RowsInv
  BY DEF RecordsInv, RowsInv
<1>1. \A q \in new : created[q] = NoRow
  BY DEF Fresh
<1>2. FileInv'
  <2>1. ASSUME NEW f \in Files, kind'[f] = Absent
        PROVE  f \notin counted' /\ \A r \in Rows : r[1] = f => created'[r] = NoRow
    <3>1. kind[f] = Absent
      BY <2>1 DEF KindsStay
    <3>2. \A r \in Rows : r[1] = f => created[r] = NoRow /\ r \notin new
      BY <1>0, <2>1, <3>1 DEF RowsInv, FileInv, Fresh
    <3> QED BY <1>0, <3>1, <3>2 DEF RowsInv, FileInv, Steady
  <2>2. \A r \in tracked' : r[1] \in counted'
    BY <1>0 DEF RowsInv, FileInv
  <2>3. \A r \in Rows : created'[r].status = "absent" => created'[r] = NoRow
    BY <1>0 DEF RowsInv, FileInv, Steady, Fresh
  <2> QED BY <2>1, <2>2, <2>3 DEF FileInv
<1>3. RowInv'
  <2>1. ASSUME NEW r \in Rows, created'[r].issued # None
        PROVE  /\ Matches(created'[r].issued, created'[r].on, r)
               /\ kind'[r[1]] \in {"paid_items", "check_images"}
               /\ Standing(created'[r])
    <3>1. CASE r \in new
      BY <2>1, <3>1 DEF Fresh
    <3>2. CASE r \notin new
      <4>1. Steady(r)
        BY <3>2
      <4>2. kind[r[1]] \in {"paid_items", "check_images"} /\ r[1] \in Files /\ kind[r[1]] # Absent
        BY <1>0, <2>1, <4>1, RowsType, KindsAreThere DEF RowsInv, RowInv, Steady, Kinds
      <4> QED BY <1>0, <2>1, <4>1, <4>2 DEF RowsInv, RowInv, Steady, KindsStay
    <3> QED BY <3>1, <3>2
  <2>2. ASSUME NEW r \in Rows, created'[r].issued # None
        PROVE  LET x == created'[r].issued IN
               /\ x \in Rows /\ kind'[x[1]] = "issued_items" /\ created'[x].status # "absent"
               /\ created'[x].on = created'[r].on /\ Lines[x[1]][x[2]].check = Lines[r[1]][r[2]].check
    <3>1. PICK x, on : x = created'[r].issued /\ on = created'[r].on
      OBVIOUS
    <3>2. Matches(x, on, r)
      BY <2>1, <2>2, <3>1
    <3>3. /\ x \in Rows /\ kind'[x[1]] = "issued_items" /\ created'[x].status # "absent"
          /\ created'[x].on = on /\ Lines[x[1]][x[2]].check = Lines[r[1]][r[2]].check
      BY <1>1, <3>2, IssuesMatch
    <3> QED BY <3>1, <3>3
  <2> QED BY <2>1, <2>2 DEF RowInv, Matches
<1>4. RowsAreTracked'
  <2>1. ASSUME NEW f \in counted', kind'[f] # "fraud_training_examples"
        PROVE  OfFile(f)' = Made(f)'
    <3>1. f \in counted /\ f \in Files /\ kind[f] # Absent
      BY <1>0, <2>1 DEF RowsInv, FileInv, TypeOK
    <3>2. kind[f] # "fraud_training_examples"
      BY <2>1, <3>1 DEF KindsStay
    <3>3. OfFile(f) = Made(f)
      BY <1>0, <3>1, <3>2 DEF RowsInv, RowsAreTracked
    <3>4. OfFile(f)' = OfFile(f)
      BY DEF OfFile
    <3>5. \A r \in Rows : r[1] = f => r \notin new
      BY <3>1 DEF Fresh
    <3>6. Made(f)' = Made(f)
      BY <3>5 DEF Made, Steady
    <3> QED BY <3>3, <3>4, <3>6
  <2> QED BY <2>1 DEF RowsAreTracked
<1>5. ScopeIsKept'
  <2>1. ASSUME NEW r \in Rows, Scope[r[1]] # None, created'[r].on # None
        PROVE  owner'[created'[r].on] = Scope[r[1]]
    <3>1. CASE r \in new
      BY <2>1, <3>1 DEF Fresh, OnOwn
    <3>2. CASE r \notin new
      <4>1. created'[r].on = created[r].on /\ created[r].on \in References /\ r[1] \in Files
        BY <1>0, <2>1, <3>2, CreatedType, RowsType DEF Steady
      <4>2. owner[created[r].on] = Scope[r[1]] /\ Scope[r[1]] # Absent
        BY <1>0, <2>1, <4>1, ScopeType DEF RowsInv, ScopeIsKept
      <4> QED BY <4>1, <4>2 DEF OwnersStay
    <3> QED BY <3>1, <3>2
  <2> QED BY <2>1 DEF ScopeIsKept
<1> QED BY <1>2, <1>3, <1>4, <1>5 DEF RowsInv

LEMMA GrowsRows ==
  ASSUME RecordsInv, NEW q \in Rows, Grows(q)
  PROVE  RowsInv' /\ created' \in [Rows -> Created] /\ \A r \in Rows \ {q} : Steady(r)
<1>0. TypeOK /\ RowInv
  BY DEF RecordsInv
<1> DEFINE new == {q}
<1>1. ASSUME NEW r \in Rows \ {q} PROVE Steady(r)
  <2>1. created[r] \in Created
    BY <1>0, CreatedType
  <2>2. CASE created'[r] = created[r]
    BY <1>0, <2>2 DEF Steady, RowInv
  <2>3. CASE /\ created[r].issued = None /\ created[r].status \notin {"absent", "voided"}
             /\ created'[r] = [created[r] EXCEPT !.status = "paid"]
    BY <2>1, <2>3 DEF Steady, Created, NoRow
  <2>4. \A s \in Rows \ {q} : \/ created'[s] = created[s]
                              \/ /\ s = created'[q].issued /\ created[s].issued = None
                                 /\ created[s].status \notin {"absent", "voided"}
                                 /\ created'[s] = [created[s] EXCEPT !.status = "paid"]
    BY <1>0, GrowsFacts
  <2> QED BY <2>2, <2>3, <2>4
<1>2. Fresh(q)
  BY <1>0, GrowsFacts DEF Fresh, Grows, Standing
<1>3. (\A r \in Rows \ new : Steady(r)) /\ (\A x \in new : Fresh(x))
  BY <1>1, <1>2
<1>4. KindsStay /\ OwnersStay /\ UNCHANGED <<counted, tracked>>
  BY DEF Grows, records
<1> HIDE DEF new
<1>5. RowsInv'
  BY <1>3, <1>4, RowsFrame
<1> QED BY <1>0, <1>1, <1>5, GrowsFacts

\* As long as requests do not overlap, a new row leaves the payments as they should be.
LEMMA GrowsPaid ==
  ASSUME RecordsInv, Paid, NEW q \in Rows, Grows(q)
  PROVE  Paid'
<1>0. TypeOK /\ RowInv
  BY DEF RecordsInv
<1> DEFINE i == created'[q].issued
<1>1. /\ created'[q].status # "absent"
      /\ \A r \in Rows \ {q} : \/ created'[r] = created[r]
                               \/ /\ r = i /\ created[r].issued = None
                                  /\ created[r].status \notin {"absent", "voided"}
                                  /\ created'[r] = [created[r] EXCEPT !.status = "paid"]
      /\ i # None => /\ i \in Rows /\ i # q
                     /\ created'[i].status = "paid" /\ created'[q].status = "paid"
                     /\ kind'[q[1]] \in {"paid_items", "check_images"}
                     /\ \A p \in Rows : created[p].issued = i => created[p].status # "paid"
      /\ i = None => created'[q].status \in {"outstanding", "pending", "active", "kept"}
  BY <1>0, GrowsFacts
<1>2. \A r \in Rows \ {q} : created'[r].issued = created[r].issued
  BY GrowsRows DEF Steady
<1>3. \A r \in Rows \ {q} : created'[r].issued # None => created'[r] = created[r]
  BY <1>1, <1>2
<1>4. created[q].issued = None /\ created[q].status = "absent"
  BY DEF Grows, NoRow
<1>5. ASSUME NEW r \in Rows, kind'[r[1]] = "issued_items", created'[r].status = "paid"
      PROVE  \E p \in Rows : created'[p].issued = r /\ Covers(p)'
  <2>1. CASE r = i
    <3>1. r # None
      BY UploadsAssumption
    <3> QED BY <1>1, <2>1, <3>1 DEF Covers
  <2>2. CASE r # i
    <3>1. r # q
      BY <1>1, <1>5
    <3>2. created'[r] = created[r] /\ kind[r[1]] = "issued_items"
      <4>1. r[1] \in Files
        BY RowsType
      <4>2. r[1] # q[1] => kind'[r[1]] = kind[r[1]]
        BY <4>1 DEF Grows
      <4>3. r[1] = q[1] => kind[r[1]] = "issued_items"
        <5>1. created'[r] = created[r]
          BY <1>1, <2>2, <3>1
        <5>2. created[r] # NoRow
          BY <1>5, <5>1 DEF NoRow
        <5>3. kind[r[1]] # Absent
          BY <4>1, <5>2 DEF RecordsInv, FileInv
        <5> QED BY <1>5, <4>1, <5>3 DEF Grows, KindsStay
      <4> QED BY <1>1, <1>5, <2>2, <3>1, <4>2, <4>3
    <3>3. PICK p \in Rows : created[p].issued = r /\ Covers(p)
      BY <1>5, <3>2 DEF Paid
    <3>4. r # None
      BY UploadsAssumption
    <3>5. p # q /\ created'[p].issued # None
      BY <1>2, <1>4, <3>3, <3>4
    <3> QED BY <1>3, <3>3, <3>5 DEF Covers
  <2> QED BY <2>1, <2>2
<1>6. ASSUME NEW p \in Rows, created'[p].issued # None, created'[p].status = "paid"
      PROVE  /\ created'[created'[p].issued].status \in {"paid", "voided"}
             /\ \A s \in Rows \ {p} : created'[s].issued = created'[p].issued => created'[s].status # "paid"
  <2>1. CASE p = q
    <3>1. ASSUME NEW s \in Rows \ {p}, created'[s].issued = created'[p].issued
          PROVE  created'[s].status # "paid"
      BY <1>1, <1>3, <1>6, <2>1, <3>1
    <3> QED BY <1>1, <1>6, <2>1, <3>1
  <2>2. CASE p # q
    <3>1. PICK x \in Rows : x = created'[p].issued /\ x = created[p].issued
      BY <1>0, <1>2, <1>6, <2>2 DEF RowInv, Matches
    <3>2. created'[p] = created[p]
      BY <1>3, <1>6, <2>2
    <3>3. /\ created[x].status \in {"paid", "voided"}
          /\ \A s \in Rows \ {p} : created[s].issued = x => created[s].status # "paid"
      BY <1>6, <3>1, <3>2 DEF Paid
    <3>4. x # q /\ x # i
      BY <1>1, <1>4, <1>6, <3>1, <3>2, <3>3
    <3>5. created'[x] = created[x]
      BY <1>1, <3>4
    <3>6. ASSUME NEW s \in Rows \ {p}, created'[s].issued = x PROVE created'[s].status # "paid"
      BY <1>2, <1>3, <1>6, <3>1, <3>3, <3>4, <3>6
    <3> QED BY <3>1, <3>3, <3>5, <3>6
  <2> QED BY <2>1, <2>2
<1>7. ASSUME NEW r \in Rows, created'[r].status = "reversed", created'[r].open
      PROVE  created'[r].escalated = "reversed"
  <2>1. r # q
    BY <1>1, <1>7
  <2>2. created'[r] = created[r]
    <3>1. created[r] \in Created
      BY <1>0, CreatedType
    <3> QED BY <1>1, <1>7, <2>1, <3>1 DEF Created
  <2> QED BY <1>7, <2>2 DEF Paid
<1> QED BY <1>5, <1>6, <1>7 DEF Paid

\* A row of an upload that is being backed out.
LEMMA UndoneRow ==
  ASSUME RecordsInv, NEW w \in Workers, Backing(w), NEW k \in 1..Len(work[w].todo)
  PROVE  LET r == work[w].todo[k] IN
         /\ r \in Rows /\ r \in tracked /\ r[1] = work[w].file
         /\ kind[r[1]] \in Permitted /\ created[r].status # "absent"
<1> DEFINE r == work[w].todo[k]
           f == work[w].file
<1>1. /\ r \in OfFile(f) /\ f \in counted /\ kind[f] \in Permitted
  BY DEF RecordsInv, BackInv, BackOf
<1>2. OfFile(f) = Made(f)
  BY <1>1 DEF RecordsInv, RowsAreTracked, Permitted
<1> QED BY <1>1, <1>2 DEF OfFile, Made

LEMMA CommitRowFacts ==
  ASSUME RecordsInv, NEW w \in Workers, NEW r \in Rows, CommitRow(w, r)
  PROVE  /\ Backing(w) /\ work[w].next \in 1..Len(work[w].todo) /\ r \in tracked
         /\ r[1] = work[w].file /\ kind[r[1]] \in Permitted /\ created[r].status # "absent"
<1> DEFINE k == work[w].next
<1>1. Backing(w) /\ k \in 1..Len(work[w].todo)
  BY WorkType DEF CommitRow, Backing, RecordsInv, BackInv, BackOf
<1>2. r = work[w].todo[k]
  BY DEF CommitRow
<1> HIDE DEF k
<1>3. /\ r \in tracked /\ r[1] = work[w].file
      /\ kind[r[1]] \in Permitted /\ created[r].status # "absent"
  BY <1>1, <1>2, UndoneRow
<1> QED BY <1>1, <1>3 DEF k

\* What a back-out leaves of a row: what it was, and its check given back.
LEMMA UndoneFacts ==
  ASSUME TypeOK, RowInv, NEW r \in Rows, NEW check, kind[r[1]] \in Permitted,
         created[r].status # "absent", created' = Undone(r, check)
  PROVE  /\ created' \in [Rows -> Created]
         /\ created'[r].on = created[r].on /\ created'[r].issued = created[r].issued
         /\ created'[r].open = (created[r].open /\ check # "absent")
         /\ created'[r].escalated = created[r].escalated
         /\ created'[r].status = CASE kind[r[1]] = "issued_items" -> "voided"
                                   [] kind[r[1]] = "users" -> "inactive"
                                   [] kind[r[1]] = "check_images" -> "reversed"
                                   [] OTHER -> created[r].status
         /\ \A q \in Rows \ {r} :
              IF check = "paid" /\ q = created[r].issued
              THEN created'[q] = [created[q] EXCEPT !.status = "outstanding"]
              ELSE created'[q] = created[q]
<1> DEFINE status == CASE kind[r[1]] = "issued_items" -> "voided"
                       [] kind[r[1]] = "users" -> "inactive"
                       [] kind[r[1]] = "check_images" -> "reversed"
                       [] OTHER -> created[r].status
           row    == [created[r] EXCEPT !.open = @ /\ check # "absent", !.status = status]
<1>1. created[r] \in Created /\ status \in Statuses
  BY CreatedType DEF Statuses
<1>2. /\ created' = [q \in Rows |->
           IF q = r THEN row
           ELSE IF check = "paid" /\ q = created[r].issued THEN [created[q] EXCEPT !.status = "outstanding"]
           ELSE created[q]]
  <2>1. row = [created[r] EXCEPT !.open = @ /\ check # "absent",
            !.status = CASE kind[r[1]] = "issued_items" -> "voided"
                         [] kind[r[1]] = "users" -> "inactive"
                         [] kind[r[1]] = "check_images" -> "reversed"
                         [] OTHER -> @]
    BY <1>1 DEF Created
  <2> HIDE DEF row
  <2> QED BY <2>1 DEF Undone
<1> HIDE DEF status
<1>3. /\ row \in Created /\ row.on = created[r].on /\ row.issued = created[r].issued
      /\ row.open = (created[r].open /\ check # "absent") /\ row.status = status
      /\ row.escalated = created[r].escalated
  BY <1>1 DEF Created, Statuses
<1> HIDE DEF row
<1>4. ASSUME NEW q \in Rows
      PROVE  created[q] \in Created /\ [created[q] EXCEPT !.status = "outstanding"] \in Created
  <2>1. created[q] \in Created
    BY CreatedType
  <2> QED BY <2>1 DEF Created
<1>5. created'[r] = row
  BY <1>2
<1>6. created' \in [Rows -> Created]
  BY <1>2, <1>3, <1>4
<1>7. ASSUME NEW q \in Rows \ {r}
      PROVE  IF check = "paid" /\ q = created[r].issued
             THEN created'[q] = [created[q] EXCEPT !.status = "outstanding"]
             ELSE created'[q] = created[q]
  BY <1>2
<1> QED BY <1>3, <1>5, <1>6, <1>7 DEF status

LEMMA CommitRowRows ==
  ASSUME RecordsInv, NEW w \in Workers, NEW r \in Rows, CommitRow(w, r)
  PROVE  RowsInv' /\ created' \in [Rows -> Created] /\ \A q \in Rows : Steady(q)
<1>0. TypeOK /\ RowInv /\ UNCHANGED <<kind, owner, alias, counted, tracked>>
  BY DEF RecordsInv, CommitRow, accounts
<1> DEFINE check == work[w].check
           new   == {}
<1>1. kind[r[1]] \in Permitted /\ created[r].status # "absent" /\ created' = Undone(r, check)
  BY CommitRowFacts DEF CommitRow
<1> HIDE DEF check
<1>2. /\ created' \in [Rows -> Created]
      /\ created'[r].on = created[r].on /\ created'[r].issued = created[r].issued
      /\ created'[r].open = (created[r].open /\ check # "absent")
      /\ created'[r].escalated = created[r].escalated
      /\ created'[r].status = CASE kind[r[1]] = "issued_items" -> "voided"
                                [] kind[r[1]] = "users" -> "inactive"
                                [] kind[r[1]] = "check_images" -> "reversed"
                                [] OTHER -> created[r].status
      /\ \A q \in Rows \ {r} :
           IF check = "paid" /\ q = created[r].issued
           THEN created'[q] = [created[q] EXCEPT !.status = "outstanding"]
           ELSE created'[q] = created[q]
  BY <1>0, <1>1, UndoneFacts
<1>3. created[r].issued # None => kind[r[1]] = "check_images"
  BY <1>0, <1>1 DEF RowInv, Permitted
<1>4. Steady(r)
  <2>1. ASSUME created[r].issued # None PROVE Standing(created'[r])
    <3>1. Standing(created[r]) /\ created'[r].status = "reversed"
      BY <1>0, <1>2, <1>3, <2>1 DEF RowInv
    <3> QED BY <1>2, <3>1 DEF Standing
  <2> QED BY <1>1, <1>2, <2>1 DEF Steady, NoRow
<1>5. ASSUME NEW q \in Rows \ {r} PROVE Steady(q)
  <2>1. created[q] \in Created
    BY <1>0, CreatedType
  <2>2. CASE created'[q] = created[q]
    BY <1>0, <2>2 DEF Steady, RowInv
  <2>3. CASE q = created[r].issued /\ created'[q] = [created[q] EXCEPT !.status = "outstanding"]
    <3>1. q # None
      BY UploadsAssumption
    <3>2. kind[q[1]] = "issued_items" /\ created[q].status # "absent"
      BY <1>0, <2>3, <3>1 DEF RowInv, Matches
    <3>3. created[q].issued = None
      BY <1>0, <3>2 DEF RowInv
    <3> QED BY <2>1, <2>3, <3>2, <3>3 DEF Steady, Created, NoRow
  <2> QED BY <1>2, <2>2, <2>3
<1>6. \A q \in Rows : Steady(q)
  BY <1>4, <1>5
<1>7. KindsStay /\ OwnersStay
  BY <1>0 DEF KindsStay, OwnersStay, TypeOK
<1>8. (\A q \in Rows \ new : Steady(q)) /\ (\A q \in new : Fresh(q))
  BY <1>6
<1> HIDE DEF new
<1>9. RowsInv'
  BY <1>0, <1>7, <1>8, RowsFrame
<1> QED BY <1>2, <1>6, <1>9

\* A row that was read as it still is, and its check, are undone together.
LEMMA CommitRowPaid ==
  ASSUME RecordsInv, Paid, NEW w \in Workers, NEW r \in Rows, CommitRow(w, r),
         ~Final(r), work[w].check = CheckOf(r)
  PROVE  Paid'
<1>0. TypeOK /\ RowInv /\ UNCHANGED kind
  BY DEF RecordsInv, CommitRow
<1> DEFINE check == work[w].check
           x     == created[r].issued
<1>1. kind[r[1]] \in Permitted /\ created[r].status # "absent" /\ created' = Undone(r, check)
  BY CommitRowFacts DEF CommitRow
<1>2. check = IF Matched(r) THEN created[x].status ELSE "absent"
  BY DEF CheckOf
<1> HIDE DEF check
<1>3. /\ created'[r].open = (created[r].open /\ check # "absent")
      /\ created'[r].escalated = created[r].escalated
      /\ created'[r].status = CASE kind[r[1]] = "issued_items" -> "voided"
                                [] kind[r[1]] = "users" -> "inactive"
                                [] kind[r[1]] = "check_images" -> "reversed"
                                [] OTHER -> created[r].status
      /\ \A q \in Rows \ {r} :
           IF check = "paid" /\ q = x
           THEN created'[q] = [created[q] EXCEPT !.status = "outstanding"]
           ELSE created'[q] = created[q]
  BY <1>0, <1>1, UndoneFacts
<1>4. \A q \in Rows : created'[q].issued = created[q].issued
  BY CommitRowRows DEF Steady
<1>5. x # None => /\ x \in Rows /\ x # r /\ kind[x[1]] = "issued_items" /\ created[x].issued = None
                  /\ kind[r[1]] = "check_images" /\ created[r].status = "paid"
                  /\ created'[r].status = "reversed"
  <2>1. ASSUME x # None
        PROVE  /\ x \in Rows /\ kind[x[1]] = "issued_items"
               /\ kind[r[1]] = "check_images"
               /\ created[r].status \in {"paid", "returned", "reversed"}
    BY <1>0, <1>1, <2>1 DEF RowInv, Matches, Permitted, Standing
  <2> QED BY <1>0, <1>3, <2>1 DEF RowInv, Final
<1>6. \A q \in Rows \ {r} : q # x => created'[q] = created[q]
  BY <1>3
<1>7. \A q \in Rows \ {r} : created'[q].issued # None => created'[q] = created[q]
  <2>1. None \notin Rows
    BY UploadsAssumption
  <2> QED BY <1>4, <1>5, <1>6, <2>1
<1>8. ASSUME NEW q \in Rows, kind'[q[1]] = "issued_items", created'[q].status = "paid"
      PROVE  \E p \in Rows : created'[p].issued = q /\ Covers(p)'
  <2>1. q # r
    BY <1>0, <1>3, <1>8
  <2>2. created[q].status = "paid" /\ created'[q] = created[q]
    BY <1>0, <1>3, <1>8, <2>1, CreatedType DEF Created
  <2>3. PICK p \in Rows : created[p].issued = q /\ Covers(p)
    BY <1>0, <1>8, <2>2 DEF Paid
  <2>4. q # None
    BY UploadsAssumption
  <2>5. CASE p = r
    <3>1. x = q /\ x # None
      BY <2>3, <2>4, <2>5
    <3>2. ~Matched(r)
      <4>1. SUFFICES ASSUME Matched(r) PROVE FALSE
        OBVIOUS
      <4>2. check = "paid"
        BY <1>2, <2>2, <3>1, <4>1
      <4>3. created'[q].status = "outstanding"
        <5>1. created[q] \in Created
          BY <1>0, CreatedType
        <5>2. created'[q] = [created[q] EXCEPT !.status = "outstanding"]
          BY <1>3, <2>1, <3>1, <4>2
        <5> QED BY <5>1, <5>2 DEF Created
      <4> QED BY <1>8, <4>3
    <3>3. created[r].escalated = "paid" /\ created'[r].status = "reversed"
      BY <1>0, <1>5, <3>1, <3>2, CreatedType DEF Matched, RowInv, Standing
    <3>4. Covers(r)'
      BY <1>3, <3>3 DEF Covers
    <3> QED BY <1>4, <2>3, <2>5, <3>4
  <2>6. CASE p # r
    BY <1>4, <1>7, <2>3, <2>4, <2>6 DEF Covers
  <2> QED BY <2>5, <2>6
<1>9. ASSUME NEW p \in Rows, created'[p].issued # None, created'[p].status = "paid"
      PROVE  /\ created'[created'[p].issued].status \in {"paid", "voided"}
             /\ \A s \in Rows \ {p} : created'[s].issued = created'[p].issued => created'[s].status # "paid"
  <2>1. p # r
    BY <1>4, <1>5, <1>9
  <2>2. created'[p] = created[p]
    BY <1>7, <1>9, <2>1
  <2>3. PICK y \in Rows : y = created'[p].issued /\ y = created[p].issued
    BY <1>0, <1>4, <1>9 DEF RowInv, Matches
  <2>4. /\ created[y].status \in {"paid", "voided"} /\ kind[y[1]] = "issued_items"
        /\ \A s \in Rows \ {p} : created[s].issued = y => created[s].status # "paid"
    BY <1>0, <1>9, <2>2, <2>3 DEF Paid, RowInv, Matches
  <2>5. ~(y = x)
    BY <1>5, <1>9, <2>1, <2>3, <2>4
  <2>6. created'[y].status \in {"paid", "voided"}
    <3>1. CASE y = r
      BY <1>3, <2>4, <3>1
    <3>2. CASE y # r
      BY <1>6, <2>4, <2>5, <3>2
    <3> QED BY <3>1, <3>2
  <2>7. ASSUME NEW s \in Rows \ {p}, created'[s].issued = y PROVE created'[s].status # "paid"
    <3>1. s # r
      BY <1>4, <2>5, <2>7
    <3>2. created'[s] = created[s]
      BY <1>7, <1>9, <2>3, <2>7, <3>1
    <3> QED BY <1>4, <2>4, <2>7, <3>2
  <2> QED BY <2>3, <2>6, <2>7
<1>10. ASSUME NEW q \in Rows, created'[q].status = "reversed", created'[q].open
      PROVE  created'[q].escalated = "reversed"
  <2>1. CASE q = r
    <3>1. created[r].open /\ check # "absent"
      BY <1>3, <1>10, <2>1
    <3>2. Matched(r)
      BY <1>2, <3>1
    <3>3. created[r].open = FALSE
      BY <1>0, <3>2 DEF Matched, RowInv, Standing
    <3> QED BY <3>1, <3>3
  <2>2. CASE q # r
    <3>1. created[q] \in Created
      BY <1>0, CreatedType
    <3>2. created'[q] = created[q]
      BY <1>3, <1>10, <2>2, <3>1 DEF Created
    <3> QED BY <1>10, <3>2 DEF Paid
  <2> QED BY <2>1, <2>2
<1> QED BY <1>8, <1>9, <1>10 DEF Paid

\* What a change by hand makes of a row.
OneOf(old, new, r) ==
  \/ /\ new.status = "voided" /\ kind[r[1]] = "issued_items" /\ old.issued = None
     /\ new.escalated = old.escalated
  \/ /\ new.status = "returned" /\ kind[r[1]] \in {"paid_items", "check_images"}
     /\ new.escalated = old.escalated /\ new.open = old.open
  \/ new.status = old.status /\ new.open = FALSE /\ new.escalated = old.escalated
  \/ /\ new.status \in {"active", "inactive"} /\ old.status \in {"active", "inactive"}
     /\ new.escalated = old.escalated
  \/ /\ new.status = old.status /\ old.status \in {"paid", "reversed"} /\ new.escalated = old.status
     /\ old.issued # None /\ old.escalated = "no"

\* A change by hand is of one row, and leaves whose it is and what it was matched with.
LEMMA ChangesFacts ==
  ASSUME RecordsInv, NEW r \in Rows, Changes(r)
  PROVE  /\ UNCHANGED <<kind, accounts, records, work, passed, faults>>
         /\ overlap' = (overlap \/ Busy # {}) /\ byHand' \in 0..MaxByHand
         /\ created' \in [Rows -> Created] /\ created'[r] # NoRow /\ created[r].status # "absent"
         /\ \A q \in Rows \ {r} : created'[q] = created[q]
         /\ created'[r].on = created[r].on /\ created'[r].issued = created[r].issued
         /\ OneOf(created[r], created'[r], r)
<1>0. created \in [Rows -> Created] /\ created[r] \in Created /\ RowInv /\ TypeOK
  BY CreatedType DEF RecordsInv, TypeOK
<1>1. PICK row : ByHand(r, row) /\ row \in Created /\ row # NoRow
                 /\ row.on = created[r].on /\ row.issued = created[r].issued
                 /\ OneOf(created[r], row, r)
  <2>1. CASE VoidIssuedItem(r)
    <3> DEFINE row == [created[r] EXCEPT !.status = "voided"]
    <3>1. /\ row \in Created /\ row.status = "voided" /\ row.on = created[r].on /\ row.issued = created[r].issued
          /\ row.escalated = created[r].escalated
      BY <1>0 DEF Created
    <3>2. row # NoRow /\ created[r].issued = None
      BY <1>0, <2>1, <3>1 DEF NoRow, VoidIssuedItem, RowInv
    <3> HIDE DEF row
    <3>3. ByHand(r, row) /\ kind[r[1]] = "issued_items"
      BY <2>1 DEF VoidIssuedItem, row
    <3> QED BY <3>1, <3>2, <3>3 DEF OneOf
  <2>2. CASE LabelAsFraud(r)
    <3> DEFINE row == [created[r] EXCEPT !.status = "returned"]
    <3>1. /\ row \in Created /\ row.status = "returned" /\ row.on = created[r].on /\ row.issued = created[r].issued
          /\ row.escalated = created[r].escalated /\ row.open = created[r].open
      BY <1>0 DEF Created
    <3>2. row # NoRow
      BY <3>1 DEF NoRow
    <3> HIDE DEF row
    <3>3. ByHand(r, row) /\ kind[r[1]] \in {"paid_items", "check_images"}
      BY <2>2 DEF LabelAsFraud, row
    <3> QED BY <3>1, <3>2, <3>3 DEF OneOf
  <2>3. CASE DecideException(r)
    <3> DEFINE row == [created[r] EXCEPT !.open = FALSE]
    <3>1. /\ row \in Created /\ row.status = created[r].status /\ row.on = created[r].on
          /\ row.issued = created[r].issued /\ row.open = FALSE /\ row.escalated = created[r].escalated
      BY <1>0 DEF Created
    <3>2. created[r].status # "absent"
      BY <2>3 DEF DecideException, RecordsInv, FileInv, NoRow
    <3>3. row # NoRow
      BY <3>1, <3>2 DEF NoRow
    <3> HIDE DEF row
    <3>4. ByHand(r, row)
      BY <2>3 DEF DecideException, row
    <3> QED BY <3>1, <3>3, <3>4 DEF OneOf
  <2>4. CASE SetMembership(r)
    <3> DEFINE row == [created[r] EXCEPT !.status = IF @ = "active" THEN "inactive" ELSE "active"]
    <3>1. /\ row \in Created /\ row.status \in {"active", "inactive"} /\ row.on = created[r].on
          /\ row.issued = created[r].issued /\ row.escalated = created[r].escalated
      BY <1>0 DEF Created
    <3>2. row # NoRow
      BY <3>1 DEF NoRow
    <3> HIDE DEF row
    <3>3. ByHand(r, row) /\ created[r].status \in {"active", "inactive"}
      BY <2>4 DEF SetMembership, row
    <3> QED BY <3>1, <3>2, <3>3 DEF OneOf
  <2>5. CASE EscalateAfterOcr(r)
    <3> DEFINE row == [created[r] EXCEPT !.open = TRUE, !.escalated = created[r].status]
    <3>1. created[r].issued # None /\ created[r].escalated = "no" /\ created[r].status \in {"paid", "reversed"}
      BY <1>0, <2>5 DEF EscalateAfterOcr, Matched, RowInv, Standing
    <3>2. /\ row \in Created /\ row.status = created[r].status /\ row.on = created[r].on
          /\ row.issued = created[r].issued /\ row.escalated = created[r].status
      BY <1>0, <3>1 DEF Created
    <3>3. row # NoRow
      BY <3>1, <3>2 DEF NoRow
    <3> HIDE DEF row
    <3>4. ByHand(r, row)
      BY <2>5 DEF EscalateAfterOcr, row
    <3> QED BY <3>1, <3>2, <3>3, <3>4 DEF OneOf
  <2> QED BY <2>1, <2>2, <2>3, <2>4, <2>5 DEF Changes
<1>2. byHand' \in 0..MaxByHand
  BY <1>0, <1>1, OneMore DEF ByHand
<1>3. created' = [created EXCEPT ![r] = row]
  BY <1>1 DEF ByHand
<1>4. /\ created' \in [Rows -> Created] /\ created'[r] = row
      /\ \A q \in Rows \ {r} : created'[q] = created[q]
  BY <1>0, <1>1, <1>3
<1>5. created[r].status # "absent"
  <2>1. created[r] # NoRow => created[r].status # "absent"
    BY DEF RecordsInv, FileInv
  <2>2. CASE EscalateAfterOcr(r)
    BY <2>1, <2>2 DEF EscalateAfterOcr, Matched, NoRow
  <2>3. CASE DecideException(r)
    BY <2>1, <2>3 DEF DecideException, NoRow
  <2>4. CASE VoidIssuedItem(r) \/ LabelAsFraud(r) \/ SetMembership(r)
    BY <2>4 DEF VoidIssuedItem, LabelAsFraud, SetMembership
  <2> QED BY <2>2, <2>3, <2>4 DEF Changes
<1> QED BY <1>1, <1>2, <1>4, <1>5 DEF ByHand

LEMMA ChangesRows ==
  ASSUME RecordsInv, NEW r \in Rows, Changes(r)
  PROVE  RowsInv' /\ \A q \in Rows : Steady(q)
<1>0. TypeOK /\ RowInv /\ UNCHANGED <<kind, owner, alias, counted, tracked>>
  BY ChangesFacts DEF RecordsInv, accounts, records
<1> DEFINE new == {}
<1>1. ASSUME NEW q \in Rows PROVE Steady(q)
  <2>1. CASE q # r
    <3>1. created'[q] = created[q]
      BY <2>1, ChangesFacts
    <3> QED BY <1>0, <3>1 DEF Steady, RowInv
  <2>2. CASE q = r
    <3>1. created'[r].on = created[r].on /\ created'[r].issued = created[r].issued
      BY ChangesFacts
    <3>2. created[r].status # "absent"
      BY ChangesFacts
    <3>3. created[r] # NoRow
      BY <3>2 DEF NoRow
    <3>4. created'[r].status # "absent"
      BY <3>2, ChangesFacts DEF OneOf
    <3>5. created[r].issued # None => Standing(created'[r])
      BY <1>0, ChangesFacts DEF RowInv, Standing, OneOf
    <3> QED BY <2>2, <3>1, <3>2, <3>3, <3>4, <3>5 DEF Steady
  <2> QED BY <2>1, <2>2
<1>2. KindsStay /\ OwnersStay
  BY <1>0 DEF KindsStay, OwnersStay, TypeOK
<1>3. (\A q \in Rows \ new : Steady(q)) /\ (\A q \in new : Fresh(q))
  BY <1>1
<1> HIDE DEF new
<1>4. RowsInv'
  BY <1>0, <1>2, <1>3, RowsFrame
<1> QED BY <1>1, <1>4

LEMMA ChangesPaid ==
  ASSUME RecordsInv, Paid, NEW r \in Rows, Changes(r)
  PROVE  Paid'
<1>0. TypeOK /\ RowInv /\ UNCHANGED kind
  BY ChangesFacts DEF RecordsInv
<1>1. \A q \in Rows : created'[q].issued = created[q].issued
  BY ChangesRows DEF Steady
<1>2. \A q \in Rows \ {r} : created'[q] = created[q]
  BY ChangesFacts
<1>3. ASSUME NEW q \in Rows, kind'[q[1]] = "issued_items", created'[q].status = "paid"
      PROVE  \E p \in Rows : created'[p].issued = q /\ Covers(p)'
  <2>1. created[q].status = "paid"
    BY <1>2, <1>3, ChangesFacts DEF OneOf
  <2>2. PICK p \in Rows : created[p].issued = q /\ Covers(p)
    BY <1>0, <1>3, <2>1 DEF Paid
  <2>3. q # None
    BY UploadsAssumption
  <2>4. Covers(p)'
    <3>1. CASE p = r
      BY <1>0, <2>2, <2>3, <3>1, ChangesFacts DEF Covers, OneOf, RowInv, Standing
    <3>2. CASE p # r
      BY <1>2, <2>2, <3>2 DEF Covers
    <3> QED BY <3>1, <3>2
  <2> QED BY <1>1, <2>2, <2>4
<1>4. ASSUME NEW p \in Rows, created'[p].issued # None, created'[p].status = "paid"
      PROVE  /\ created'[created'[p].issued].status \in {"paid", "voided"}
             /\ \A s \in Rows \ {p} : created'[s].issued = created'[p].issued => created'[s].status # "paid"
  <2>1. created[p].status = "paid"
    BY <1>2, <1>4, ChangesFacts DEF OneOf
  <2>2. PICK y \in Rows : y = created'[p].issued /\ y = created[p].issued
    BY <1>0, <1>1, <1>4 DEF RowInv, Matches
  <2>3. /\ created[y].status \in {"paid", "voided"} /\ kind[y[1]] = "issued_items"
        /\ \A s \in Rows \ {p} : created[s].issued = y => created[s].status # "paid"
    BY <1>0, <1>4, <2>1, <2>2 DEF Paid, RowInv, Matches
  <2>4. created'[y].status \in {"paid", "voided"}
    BY <1>2, <2>3, ChangesFacts DEF OneOf
  <2>5. ASSUME NEW s \in Rows \ {p}, created'[s].issued = y PROVE created'[s].status # "paid"
    <3>1. created[s].status # "paid"
      BY <1>1, <2>3, <2>5
    <3> QED BY <1>2, <3>1, ChangesFacts DEF OneOf
  <2> QED BY <2>2, <2>4, <2>5
<1>5. ASSUME NEW q \in Rows, created'[q].status = "reversed", created'[q].open
      PROVE  created'[q].escalated = "reversed"
  <2>1. CASE q = r
    BY <1>0, <1>5, <2>1, ChangesFacts DEF Paid, OneOf
  <2>2. CASE q # r
    BY <1>2, <1>5, <2>2 DEF Paid
  <2> QED BY <2>1, <2>2
<1> QED BY <1>3, <1>4, <1>5 DEF Paid

-----------------------------------------------------------------------------
(***************************************************************************)
(* What the workers are at.                                                *)
(***************************************************************************)

\* A worker that loads a file goes on so, as long as nobody touches that file.
LEMMA LoadKept ==
  ASSUME RecordsInv, NEW v \in Workers, Loading(v), work'[v] = work[v], KindsStay, NEW grown,
         work[v].file \notin grown, counted' \subseteq counted \cup grown,
         \A r \in Rows : created[r] = NoRow /\ r[1] \notin grown => created'[r] = NoRow
  PROVE  LoadOf(v)'
<1>1. LoadOf(v)
  BY DEF RecordsInv, LoadInv
<1>2. kind'[work[v].file] # Absent /\ work[v].file \notin counted'
  BY <1>1 DEF LoadOf, KindsStay
<1>3. \A r \in Rows : r[1] = work[v].file /\ r[2] >= work[v].next => created'[r] = NoRow
  BY <1>1 DEF LoadOf
<1> QED BY <1>1, <1>2, <1>3 DEF LoadOf

LEMMA BackKept ==
  ASSUME RecordsInv, NEW v \in Workers, Backing(v), work'[v] = work[v], KindsStay,
         counted \subseteq counted', \A r : r[1] \in counted => (r \in tracked' <=> r \in tracked)
  PROVE  BackOf(v)'
<1> DEFINE f == work[v].file
<1>1. BackOf(v) /\ f \in counted /\ kind[f] \in Permitted /\ f \in Files /\ kind[f] # Absent
  BY KindsAreThere DEF RecordsInv, BackInv, BackOf, TypeOK, Permitted
<1>2. kind'[f] = kind[f]
  BY <1>1 DEF KindsStay
<1>3. \A r : r \in OfFile(f)' <=> r \in OfFile(f)
  BY <1>1 DEF OfFile
<1> QED BY <1>1, <1>2, <1>3 DEF BackOf

LEMMA WorkFrame ==
  ASSUME RecordsInv, KindsStay, NEW movers, NEW grown,
         \A w, v \in movers : w = v,
         \A v \in Workers \ movers : work'[v] = work[v] /\ (Loading(v) => work[v].file \notin grown),
         counted \subseteq counted', counted' \subseteq counted \cup grown,
         \A r : r[1] \in counted => (r \in tracked' <=> r \in tracked),
         \A r \in Rows : created[r] = NoRow /\ r[1] \notin grown => created'[r] = NoRow,
         \A w \in movers :
           /\ Loading(w)' => /\ LoadOf(w)'
                             /\ \A v \in Workers \ {w} : Loading(v) => work'[w].file # work[v].file
           /\ Backing(w)' => BackOf(w)'
  PROVE  LoadInv' /\ BackInv'
<1>1. \A v \in Workers \ movers : (Loading(v)' <=> Loading(v)) /\ (Backing(v)' <=> Backing(v))
  BY DEF Loading, Backing
<1>2. ASSUME NEW v \in Workers, Loading(v)' PROVE LoadOf(v)'
  <2>1. CASE v \in movers
    BY <1>2, <2>1
  <2>2. CASE v \notin movers
    BY <1>1, <1>2, <2>2, LoadKept
  <2> QED BY <2>1, <2>2
<1>3. ASSUME NEW w \in Workers, NEW v \in Workers, Loading(w)', Loading(v)', w # v
      PROVE  work'[w].file # work'[v].file
  <2>1. CASE w \in movers
    <3>1. v \notin movers
      BY <1>3, <2>1
    <3> QED BY <1>1, <1>3, <2>1, <3>1
  <2>2. CASE v \in movers
    <3>1. w \notin movers
      BY <1>3, <2>2
    <3> QED BY <1>1, <1>3, <2>2, <3>1
  <2>3. CASE w \notin movers /\ v \notin movers
    BY <1>1, <1>3, <2>3 DEF RecordsInv, LoadInv
  <2> QED BY <2>1, <2>2, <2>3
<1>4. ASSUME NEW v \in Workers, Backing(v)' PROVE BackOf(v)'
  <2>1. CASE v \in movers
    BY <1>4, <2>1
  <2>2. CASE v \notin movers
    BY <1>1, <1>4, <2>2, BackKept
  <2> QED BY <2>1, <2>2
<1>5. LoadInv'
  BY <1>2, <1>3 DEF LoadInv
<1> QED BY <1>4, <1>5 DEF BackInv

\* One worker moves, and nobody else does when no requests overlap.
LEMMA AloneFacts ==
  ASSUME SerialInv, NEW w \in Workers, \A v \in Workers \ {w} : work'[v] = work[v],
         \/ work[w].at # "idle" /\ UNCHANGED overlap
         \/ Meets(w)
  PROVE  /\ ~overlap' => ~overlap /\ \A v \in Workers \ {w} : work[v].at = "idle" /\ work'[v].at = "idle"
         /\ SerialInv'
         /\ ~Backing(w)' => CheckInv'
<1>1. ASSUME ~overlap'
      PROVE  ~overlap /\ \A v \in Workers \ {w} : work[v].at = "idle" /\ work'[v].at = "idle"
  <2>1. CASE work[w].at # "idle" /\ UNCHANGED overlap
    BY <1>1, <2>1 DEF SerialInv
  <2>2. CASE Meets(w)
    <3>1. ~overlap /\ Busy \ {w} = {}
      BY <1>1, <2>2 DEF Meets
    <3> QED BY <3>1 DEF Busy
  <2> QED BY <2>1, <2>2
<1>2. SerialInv'
  BY <1>1 DEF SerialInv
<1>3. ASSUME ~Backing(w)', ~overlap' PROVE \A v \in Workers : ~Backing(v)'
  BY <1>1, <1>3 DEF Backing
<1>4. ASSUME ~Backing(w)' PROVE CheckInv'
  BY <1>3, <1>4 DEF CheckInv, Backing
<1> QED BY <1>1, <1>2, <1>4

LEMMA QuietFacts ==
  ASSUME SerialInv, UNCHANGED work, overlap' = (overlap \/ Busy # {})
  PROVE  /\ ~overlap' => ~overlap /\ \A v \in Workers : work'[v].at = "idle"
         /\ SerialInv' /\ CheckInv'
<1>1. ASSUME ~overlap' PROVE ~overlap /\ \A v \in Workers : work'[v].at = "idle"
  BY <1>1 DEF Busy
<1> QED BY <1>1 DEF SerialInv, CheckInv, Backing

-----------------------------------------------------------------------------
(***************************************************************************)
(* The steps.                                                              *)
(***************************************************************************)

SerialInvs == SerialInv /\ CheckInv

LEMMA CreatesStep ==
  ASSUME IInv, NEW w \in Workers, Creates(w)
  PROVE  IInv'
<1>0. RecordsInv /\ TypeOK /\ work \in [Workers -> Work] /\ LoadOf(w) /\ OnRow(w) /\ Loading(w)
  BY DEF IInv, RecordsInv, LoadInv, Creates, OnRow
<1> DEFINE q      == Here(w)
           movers == {w}
           grown  == {work[w].file}
           new    == [work[w] EXCEPT !.next = @ + 1]
<1>1. /\ q \in Rows /\ q[1] = work[w].file /\ q[2] = work[w].next /\ work[w].next \in Nat
      /\ Grows(q) /\ UNCHANGED <<kind, passed, overlap, faults, byHand>>
  BY <1>0, HereFacts, WorkType DEF Creates, history
<1>2. /\ work' = [work EXCEPT ![w] = new] /\ new \in Work
      /\ new.at = work[w].at /\ new.file = work[w].file /\ new.next = work[w].next + 1
  <2>1. work[w] \in Work /\ work[w].next \in Nat
    BY <1>0, WorkType
  <2>2. new \in Work /\ new.at = work[w].at /\ new.file = work[w].file /\ new.next = work[w].next + 1
    BY <2>1 DEF Work
  <2>3. work' = [work EXCEPT ![w] = new]
    BY DEF Creates, Onward
  <2> QED BY <2>2, <2>3
<1>3. RowsInv' /\ created' \in [Rows -> Created] /\ \A r \in Rows \ {q} : Steady(r)
  BY <1>0, <1>1, GrowsRows
<1> HIDE DEF new, q
<1>4. work' \in [Workers -> Work] /\ work'[w] = new /\ \A v \in Workers \ {w} : work'[v] = work[v]
  BY <1>0, <1>2
<1>5. TypeOK'
  <2>1. \A v \in Workers : work'[v].at \in {"idle", "rows", "batch", "undoing", "decided"}
    BY <1>4 DEF Work
  <2> QED BY <1>0, <1>1, <1>3, <2>1 DEF TypeOK, Grows, KindsStay, OwnersStay, records
<1>6. LoadInv' /\ BackInv'
  <2>1. \A v \in Workers \ {w} : Loading(v) => work[v].file # work[w].file
    BY <1>0 DEF RecordsInv, LoadInv
  <2>2. \A r \in Rows : created[r] = NoRow /\ r # q => created'[r] = NoRow
    BY <1>3 DEF Steady
  <2>3. Loading(w)' /\ ~Backing(w)'
    BY <1>0, <1>2, <1>4 DEF Loading, Backing
  <2>4. LoadOf(w)'
    <3>1. \A r \in Rows : r[1] = work[w].file /\ r[2] >= work[w].next + 1 => created'[r] = NoRow
      <4>1. ASSUME NEW r \in Rows, r[1] = work[w].file, r[2] >= work[w].next + 1
            PROVE  created'[r] = NoRow
        <5>1. r[2] \in Nat /\ r[2] >= work[w].next /\ r # q
          BY <1>1, <4>1, RowsType
        <5> QED BY <1>0, <2>2, <4>1, <5>1 DEF LoadOf
      <4> QED BY <4>1
    <3>2. work[w].next + 1 >= 1
      BY <1>1
    <3>3. UNCHANGED <<kind, counted>>
      BY <1>1 DEF Grows, records
    <3> QED BY <1>0, <1>2, <1>4, <3>1, <3>2, <3>3 DEF LoadOf
  <2>5. KindsStay /\ UNCHANGED <<counted, tracked>>
    BY <1>1 DEF Grows, records
  <2>6. /\ \A a, b \in movers : a = b
        /\ \A v \in Workers \ movers : work'[v] = work[v] /\ (Loading(v) => work[v].file \notin grown)
        /\ \A r \in Rows : created[r] = NoRow /\ r[1] \notin grown => created'[r] = NoRow
        /\ \A a \in movers : /\ Loading(a)' => /\ LoadOf(a)'
                                               /\ \A v \in Workers \ {a} : Loading(v) => work'[a].file # work[v].file
                             /\ Backing(a)' => BackOf(a)'
    BY <1>1, <1>2, <1>4, <2>1, <2>2, <2>3, <2>4
  <2> HIDE DEF movers, grown
  <2> QED BY <1>0, <2>5, <2>6, WorkFrame
<1>7. SerialInvs'
  <2>1. ~Backing(w)'
    BY <1>0, <1>2, <1>4 DEF Loading, Backing
  <2>2. SerialInv /\ work[w].at # "idle"
    BY <1>0 DEF IInv, Loading
  <2> QED BY <1>1, <1>4, <2>1, <2>2, AloneFacts DEF SerialInvs
<1>8. PaidInv'
  BY <1>0, <1>1, GrowsPaid DEF IInv, PaidInv, Paid
<1> QED BY <1>3, <1>4, <1>5, <1>6, <1>7, <1>8 DEF IInv, RecordsInv, RowsInv, SerialInvs

\* Steps that leave the rows and the records as they are.
LEMMA StillFacts ==
  ASSUME RecordsInv, UNCHANGED <<kind, accounts, created, counted, tracked>>
  PROVE  /\ RowsInv' /\ KindsStay /\ (Paid => Paid')
         /\ UNCHANGED <<kind, owner, alias, created, counted, tracked>>
<1>1. UNCHANGED <<kind, owner, alias, created, counted, tracked>> /\ TypeOK
  BY DEF accounts, RecordsInv
<1>2. KindsStay
  BY <1>1 DEF KindsStay, TypeOK
<1>3. FileInv' /\ RowInv'
  BY <1>1 DEF RecordsInv, FileInv, RowInv, Matches
<1>4. RowsAreTracked' /\ ScopeIsKept'
  BY <1>1 DEF RecordsInv, RowsAreTracked, ScopeIsKept, OfFile, Made
<1>5. Paid => Paid'
  BY <1>1 DEF Paid, Covers
<1> QED BY <1>1, <1>2, <1>3, <1>4, <1>5 DEF RowsInv

\* A worker that moves on its own, while rows and records are as they were.
LEMMA StillFrame ==
  ASSUME RecordsInv, UNCHANGED <<kind, accounts, created, counted, tracked>>,
         NEW w \in Workers, NEW new \in Work, work' = [work EXCEPT ![w] = new],
         new.at \in {"rows", "batch"} =>
           Loading(w) /\ new.file = work[w].file /\ new.next >= work[w].next,
         Backing(w)' => BackOf(w)',
         reversed' = reversed, undone' \subseteq counted, passed' \subseteq Rows,
         overlap' \in BOOLEAN, faults' \in 0..MaxFaults, byHand' \in 0..MaxByHand
  PROVE  /\ RecordsInv' /\ work'[w] = new /\ \A v \in Workers \ {w} : work'[v] = work[v]
<1>0. TypeOK /\ work \in [Workers -> Work] /\ LoadInv
  BY DEF RecordsInv
<1>1. /\ RowsInv' /\ KindsStay
      /\ UNCHANGED <<kind, owner, alias, created, counted, tracked>>
  BY StillFacts
<1>2. work' \in [Workers -> Work] /\ work'[w] = new /\ \A v \in Workers \ {w} : work'[v] = work[v]
  BY <1>0
<1>3. TypeOK'
  <2>1. \A v \in Workers : work'[v].at \in {"idle", "rows", "batch", "undoing", "decided"}
    BY <1>2 DEF Work
  <2> QED BY <1>0, <1>1, <2>1 DEF TypeOK
<1> DEFINE movers == {w}
           grown  == {}
<1>4. ASSUME Loading(w)'
      PROVE  LoadOf(w)' /\ \A v \in Workers \ {w} : Loading(v) => work'[w].file # work[v].file
  <2>1. Loading(w) /\ new.file = work[w].file /\ new.next >= work[w].next
    BY <1>2, <1>4 DEF Loading
  <2>2. LoadOf(w) /\ \A v \in Workers \ {w} : Loading(v) => work[w].file # work[v].file
    BY <1>0, <2>1 DEF LoadInv
  <2>3. new.next \in Nat /\ work[w].next \in Nat
    BY <1>0, WorkType DEF Work
  <2>4. \A r \in Rows : r[1] = work[w].file /\ r[2] >= new.next => created[r] = NoRow
    <3>1. ASSUME NEW r \in Rows, r[1] = work[w].file, r[2] >= new.next PROVE created[r] = NoRow
      <4>1. r[2] \in Nat /\ r[2] >= work[w].next
        BY <2>1, <2>3, <3>1, RowsType
      <4> QED BY <2>2, <3>1, <4>1 DEF LoadOf
    <3> QED BY <3>1
  <2> QED BY <1>1, <1>2, <2>1, <2>2, <2>3, <2>4 DEF LoadOf
<1>5. /\ \A a, b \in movers : a = b
      /\ \A v \in Workers \ movers : work'[v] = work[v] /\ (Loading(v) => work[v].file \notin grown)
      /\ \A r \in Rows : created[r] = NoRow /\ r[1] \notin grown => created'[r] = NoRow
      /\ \A a \in movers : /\ Loading(a)' => /\ LoadOf(a)'
                                             /\ \A v \in Workers \ {a} : Loading(v) => work'[a].file # work[v].file
                           /\ Backing(a)' => BackOf(a)'
      /\ counted \subseteq counted' /\ counted' \subseteq counted \cup grown
      /\ \A r : r[1] \in counted => (r \in tracked' <=> r \in tracked)
  BY <1>1, <1>2, <1>4
<1> HIDE DEF movers, grown
<1>6. LoadInv' /\ BackInv'
  BY <1>1, <1>5, WorkFrame
<1> QED BY <1>1, <1>2, <1>3, <1>6 DEF RecordsInv, RowsInv

LEMMA PassesStep ==
  ASSUME IInv, NEW w \in Workers, Passes(w)
  PROVE  IInv'
<1>0. RecordsInv /\ TypeOK /\ Loading(w)
  BY DEF IInv, RecordsInv, Passes, OnRow
<1> DEFINE new == [work[w] EXCEPT !.next = @ + 1]
<1>1. /\ UNCHANGED <<kind, accounts, created, records, passed, overlap, faults, byHand>>
      /\ work' = [work EXCEPT ![w] = new]
  BY DEF Passes, RowFails, Onward, history
<1>2. /\ new \in Work /\ new.at = work[w].at /\ new.file = work[w].file
      /\ new.next = work[w].next + 1 /\ new.next >= work[w].next
  <2>1. work[w] \in Work /\ work[w].next \in Nat
    BY <1>0, WorkType DEF RecordsInv
  <2> QED BY <2>1 DEF Work
<1> HIDE DEF new
<1>3. work'[w] = new
  BY <1>0, <1>1 DEF RecordsInv
<1>4. ~Backing(w)'
  BY <1>0, <1>2, <1>3 DEF Loading, Backing
<1>5. RecordsInv' /\ \A v \in Workers \ {w} : work'[v] = work[v]
  <2>1. /\ UNCHANGED <<kind, accounts, created, counted, tracked>> /\ reversed' = reversed
        /\ undone' \subseteq counted /\ passed' \subseteq Rows /\ overlap' \in BOOLEAN
        /\ faults' \in 0..MaxFaults /\ byHand' \in 0..MaxByHand
    BY <1>0, <1>1 DEF records, TypeOK
  <2> QED BY <1>0, <1>1, <1>2, <1>4, <2>1, StillFrame
<1>6. SerialInvs'
  BY <1>0, <1>1, <1>4, <1>5, AloneFacts DEF SerialInvs, IInv, Loading
<1>7. Paid => Paid'
  BY <1>0, <1>1, StillFacts DEF records
<1> QED BY <1>1, <1>5, <1>6, <1>7 DEF IInv, SerialInvs, PaidInv, Paid

LEMMA StillEnds ==
  ASSUME IInv, UNCHANGED <<kind, accounts, created, counted, tracked>>, ~overlap' => ~overlap,
         RecordsInv', SerialInvs'
  PROVE  IInv'
<1>1. RecordsInv /\ PaidInv
  BY DEF IInv
<1>2. Paid => Paid'
  BY <1>1, StillFacts
<1> QED BY <1>1, <1>2 DEF IInv, SerialInvs, PaidInv, Paid

LEMMA StopsStep ==
  ASSUME IInv, NEW w \in Workers, Stops(w)
  PROVE  IInv'
<1>0. RecordsInv /\ TypeOK /\ SerialInv
  BY DEF IInv, RecordsInv
<1>1. /\ UNCHANGED <<kind, accounts, created, counted, tracked>> /\ reversed' = reversed
      /\ work' = [work EXCEPT ![w] = Idle] /\ Idle \in Work /\ Idle.at = "idle"
      /\ UNCHANGED overlap /\ work[w].at # "idle"
  BY IdleType DEF Stops
<1>2. work'[w] = Idle /\ ~Backing(w)'
  BY <1>0, <1>1 DEF RecordsInv, Backing
<1>3. /\ undone' \subseteq counted /\ passed' \subseteq Rows /\ overlap' \in BOOLEAN
      /\ faults' \in 0..MaxFaults /\ byHand' \in 0..MaxByHand
  <2>1. undone' \subseteq counted
    BY <1>0 DEF Stops, TypeOK, RecordsInv, BackInv, BackOf
  <2>2. faults' \in 0..MaxFaults
    <3>1. faults \in 0..MaxFaults /\ faults' \in faults..MaxFaults
      BY <1>0 DEF Stops, TypeOK
    <3> QED BY <3>1, KindsAreThere
  <2> QED BY <1>0, <2>1, <2>2 DEF Stops, TypeOK
<1>4. RecordsInv' /\ \A v \in Workers \ {w} : work'[v] = work[v]
  <2> DEFINE new == Idle
  <2>1. new \in Work /\ work' = [work EXCEPT ![w] = new] /\ new.at \notin {"rows", "batch"}
    BY <1>1
  <2> HIDE DEF new
  <2> QED BY <1>0, <1>1, <1>2, <1>3, <2>1, StillFrame
<1>5. SerialInvs'
  BY <1>0, <1>1, <1>2, <1>4, AloneFacts DEF SerialInvs
<1> QED BY <1>1, <1>4, <1>5, StillEnds

\* A worker that backs a file out goes on with the same one, row by row.
LEMMA BackingGoesOn ==
  ASSUME IInv, NEW w \in Workers, Backing(w), UNCHANGED <<kind, accounts, created, counted, tracked>>,
         NEW new \in Work, work' = [work EXCEPT ![w] = new], reversed' = reversed,
         new.at \in {"undoing", "decided"}, new.file = work[w].file, new.todo = work[w].todo,
         new.next >= work[w].next, new.at = "decided" => new.next <= Len(work[w].todo),
         UNCHANGED <<undone, overlap>>, passed' \subseteq Rows, faults' \in 0..MaxFaults, byHand' \in 0..MaxByHand
  PROVE  /\ RecordsInv' /\ SerialInv' /\ work'[w] = new
         /\ ~overlap' => ~overlap /\ \A v \in Workers : v # w => work'[v].at = "idle"
<1>0. RecordsInv /\ TypeOK /\ SerialInv /\ BackOf(w)
  BY DEF IInv, RecordsInv, BackInv
<1>1. work'[w] = new /\ UNCHANGED <<kind, counted, tracked>>
  BY <1>0 DEF RecordsInv
<1>2. BackOf(w)'
  <2>1. new.next >= 1
    <3>1. new.next \in Nat /\ work[w].next \in Nat
      BY <1>0, WorkType DEF RecordsInv, Work
    <3> QED BY <1>0, <3>1 DEF BackOf
  <2>2. \A r : r \in OfFile(work[w].file) <=> r \in tracked /\ r[1] = work[w].file
    BY DEF OfFile
  <2> QED BY <1>0, <1>1, <2>1, <2>2 DEF BackOf, OfFile
<1>3. new.at \notin {"rows", "batch"} /\ undone' \subseteq counted /\ overlap' \in BOOLEAN
  BY <1>0 DEF TypeOK
<1>4. RecordsInv' /\ \A v \in Workers \ {w} : work'[v] = work[v]
  BY <1>0, <1>2, <1>3, StillFrame
<1>5. /\ SerialInv'
      /\ ~overlap' => ~overlap /\ \A v \in Workers \ {w} : work[v].at = "idle" /\ work'[v].at = "idle"
  BY <1>0, <1>4, AloneFacts DEF Backing
<1> QED BY <1>1, <1>4, <1>5

LEMMA RefuseRowStep ==
  ASSUME IInv, NEW w \in Workers, NEW r \in Rows, RefuseRow(w, r)
  PROVE  IInv'
<1>0. RecordsInv /\ TypeOK /\ work[w] \in Work /\ work[w].next \in Nat
  BY WorkType DEF IInv, RecordsInv
<1> DEFINE new == [work[w] EXCEPT !.next = @ + 1]
<1>1. /\ UNCHANGED <<kind, accounts, created, counted, tracked>> /\ reversed' = reversed
      /\ UNCHANGED <<undone, overlap>> /\ work' = [work EXCEPT ![w] = new]
      /\ work[w].at = "undoing" /\ r = work[w].todo[work[w].next] /\ Final(r)
      /\ passed' = passed \cup {r} /\ faults' = faults /\ byHand' = byHand
  BY DEF RefuseRow, PassedOver, Undoing, Onward, records
<1>2. /\ new \in Work /\ new.at = "undoing" /\ new.file = work[w].file /\ new.todo = work[w].todo
      /\ new.next = work[w].next + 1 /\ new.next >= work[w].next
  BY <1>0, <1>1 DEF Work
<1>3. Backing(w) /\ passed' \subseteq Rows /\ faults' \in 0..MaxFaults /\ byHand' \in 0..MaxByHand
  BY <1>0, <1>1 DEF Backing, TypeOK
<1> HIDE DEF new
<1>4. /\ RecordsInv' /\ SerialInv' /\ work'[w] = new
      /\ ~overlap' => ~overlap /\ \A v \in Workers : v # w => work'[v].at = "idle"
  BY <1>1, <1>2, <1>3, BackingGoesOn
<1>5. CheckInv'
  BY <1>2, <1>4 DEF CheckInv
<1> QED BY <1>1, <1>4, <1>5, StillEnds DEF SerialInvs

LEMMA ReadRowStep ==
  ASSUME IInv, NEW w \in Workers, NEW r \in Rows, ReadRow(w, r)
  PROVE  IInv'
<1>0. RecordsInv /\ TypeOK /\ RowInv /\ work[w] \in Work /\ work[w].next \in Nat /\ Len(work[w].todo) \in Nat
  BY WorkType DEF IInv, RecordsInv
<1> DEFINE check == CheckOf(r)
           new   == [work[w] EXCEPT !.at = "decided", !.check = check]
<1>1. /\ UNCHANGED <<kind, accounts, created, counted, tracked>> /\ reversed' = reversed
      /\ UNCHANGED <<undone, overlap>> /\ work' = [work EXCEPT ![w] = new]
      /\ work[w].at = "undoing" /\ r = work[w].todo[work[w].next] /\ ~Final(r)
      /\ work[w].next <= Len(work[w].todo)
      /\ passed' = passed /\ faults' = faults /\ byHand' = byHand
  BY DEF ReadRow, Undoing, records, history, CheckOf
<1>2. check \in Statuses
  <2>1. Matched(r) => created[r].issued \in Rows
    BY <1>0 DEF Matched, RowInv, Matches
  <2>2. created[r].issued \in Rows => created[created[r].issued].status \in Statuses
    BY <1>0, CreatedType
  <2> QED BY <2>1, <2>2 DEF CheckOf, Statuses
<1> HIDE DEF check
<1>3. /\ new \in Work /\ new.at = "decided" /\ new.file = work[w].file /\ new.todo = work[w].todo
      /\ new.next = work[w].next /\ new.next >= work[w].next /\ new.check = check
  <2>1. work[w] \in Work
    BY <1>0
  <2>2. new \in Work
    BY <1>2, <2>1 DEF Work
  <2>3. /\ new.at = "decided" /\ new.file = work[w].file /\ new.todo = work[w].todo
        /\ new.next = work[w].next /\ new.check = check
    BY <2>1 DEF Work
  <2> QED BY <1>0, <2>2, <2>3
<1>4. Backing(w) /\ passed' \subseteq Rows /\ faults' \in 0..MaxFaults /\ byHand' \in 0..MaxByHand
  BY <1>0, <1>1 DEF Backing, TypeOK
<1> HIDE DEF new
<1>5. /\ RecordsInv' /\ SerialInv' /\ work'[w] = new
      /\ ~overlap' => ~overlap /\ \A v \in Workers : v # w => work'[v].at = "idle"
  BY <1>1, <1>3, <1>4, BackingGoesOn
<1>6. CheckInv'
  <2>1. CheckOf(r)' = CheckOf(r) /\ (Final(r)' <=> Final(r))
    BY <1>1 DEF CheckOf, Matched, Final
  <2>2. ASSUME ~overlap', NEW v \in Workers, work'[v].at = "decided" PROVE v = w
    BY <1>5, <2>2
  <2>3. \A q \in Rows : q = work'[w].todo[work'[w].next] => q = r
    BY <1>1, <1>3, <1>5
  <2>4. work'[w].check = CheckOf(r)' /\ ~Final(r)'
    BY <1>1, <1>3, <1>5, <2>1 DEF check
  <2> QED BY <2>2, <2>3, <2>4 DEF CheckInv
<1> QED BY <1>1, <1>5, <1>6, StillEnds DEF SerialInvs

\* The row after the one that was decided on.
LEMMA NextRow ==
  ASSUME NEW x \in Work
  PROVE  LET new == [x EXCEPT !.at = "undoing", !.next = @ + 1, !.check = "absent"] IN
         /\ new \in Work /\ new.at = "undoing" /\ new.file = x.file /\ new.todo = x.todo
         /\ new.next = x.next + 1 /\ new.next >= x.next
<1>1. x.next \in Nat /\ "absent" \in Statuses
  BY DEF Work, Statuses
<1>2. PICK n \in Nat : n = x.next + 1 /\ n >= x.next
  BY <1>1
<1> DEFINE new == [x EXCEPT !.at = "undoing", !.next = n, !.check = "absent"]
<1>3. new \in Work
  BY <1>1 DEF Work
<1>4. new.at = "undoing" /\ new.file = x.file /\ new.todo = x.todo /\ new.next = n
  BY DEF Work
<1>5. new = [x EXCEPT !.at = "undoing", !.next = @ + 1, !.check = "absent"]
  BY <1>2
<1> HIDE DEF new
<1> QED BY <1>2, <1>3, <1>4, <1>5

LEMMA RowRaisesStep ==
  ASSUME IInv, NEW w \in Workers, RowRaises(w)
  PROVE  IInv'
<1>0. RecordsInv /\ TypeOK /\ work[w] \in Work /\ work[w].next \in Nat
  BY WorkType DEF IInv, RecordsInv
<1> DEFINE new == [work[w] EXCEPT !.at = "undoing", !.next = @ + 1, !.check = "absent"]
<1>1. /\ UNCHANGED <<kind, accounts, created, counted, tracked>> /\ reversed' = reversed
      /\ UNCHANGED <<undone, overlap>> /\ work' = [work EXCEPT ![w] = new]
      /\ work[w].at = "decided" /\ faults < MaxFaults /\ faults' = faults + 1 /\ byHand' = byHand
      /\ passed' = passed \cup {work[w].todo[work[w].next]}
  BY DEF RowRaises, records
<1>2. /\ new \in Work /\ new.at = "undoing" /\ new.file = work[w].file /\ new.todo = work[w].todo
      /\ new.next = work[w].next + 1 /\ new.next >= work[w].next
  BY <1>0, NextRow
<1>3. Backing(w) /\ faults' \in 0..MaxFaults /\ byHand' \in 0..MaxByHand
  BY <1>0, <1>1, KindsAreThere DEF Backing, TypeOK
<1>6. passed' \subseteq Rows
  <2>1. work[w].next \in 1..Len(work[w].todo)
    BY <1>0, <1>1, <1>3, WorkType DEF RecordsInv, BackInv, BackOf
  <2> QED BY <1>0, <1>1, <1>3, <2>1, UndoneRow DEF TypeOK
<1> HIDE DEF new
<1>4. /\ RecordsInv' /\ SerialInv' /\ work'[w] = new
      /\ ~overlap' => ~overlap /\ \A v \in Workers : v # w => work'[v].at = "idle"
  BY <1>1, <1>2, <1>3, <1>6, BackingGoesOn
<1>5. CheckInv'
  BY <1>2, <1>4 DEF CheckInv
<1> QED BY <1>1, <1>4, <1>5, StillEnds DEF SerialInvs

LEMMA BackOutUploadStep ==
  ASSUME IInv, NEW w \in Workers, NEW f \in Files, BackOutUpload(w, f)
  PROVE  IInv'
<1>0. RecordsInv /\ TypeOK /\ SerialInv
  BY DEF IInv, RecordsInv
<1>1. PICK rows \in SetToSeqs(OfFile(f)) :
        work' = [work EXCEPT ![w] = [Idle EXCEPT !.at = "undoing", !.file = f, !.next = 1, !.todo = rows]]
  BY DEF BackOutUpload
<1> DEFINE new == [Idle EXCEPT !.at = "undoing", !.file = f, !.next = 1, !.todo = rows]
<1>2. /\ rows \in Seq(OfFile(f)) /\ \A k \in 1..Len(rows) : rows[k] \in OfFile(f)
      /\ \A r \in OfFile(f) : \E k \in 1..Len(rows) : rows[k] = r
  <2>1. OfFile(f) \subseteq Rows
    BY <1>0 DEF OfFile, TypeOK
  <2>2. IsFiniteSet(OfFile(f))
    BY <2>1, RowsAreFinite, FS_Subset
  <2> QED BY <2>2, OrderFacts
<1>3. /\ new \in Work /\ new.at = "undoing" /\ new.file = f /\ new.next = 1 /\ new.todo = rows
  <2>1. rows \in Seq(Rows)
    BY <1>0, <1>2 DEF OfFile, TypeOK
  <2> QED BY <2>1 DEF Idle, Work, Statuses
<1>4. /\ UNCHANGED <<kind, accounts, created, counted, tracked>> /\ reversed' = reversed
      /\ UNCHANGED undone /\ work' = [work EXCEPT ![w] = new] /\ Meets(w)
      /\ passed' = passed /\ faults' = faults /\ byHand' = byHand /\ kind[f] \in Permitted /\ OfFile(f) # {}
  BY <1>1 DEF BackOutUpload, records
<1> HIDE DEF new
<1>5. work'[w] = new /\ f \in counted
  <2>1. PICK r \in OfFile(f) : TRUE
    BY <1>4
  <2> QED BY <1>0, <1>4, <2>1 DEF RecordsInv, FileInv, OfFile
<1>6. BackOf(w)'
  <2>1. UNCHANGED <<kind, counted, tracked>> /\ new.next >= 1 /\ new.at # "decided"
    BY <1>3, <1>4
  <2>2. /\ \A k \in 1..Len(rows) : rows[k] \in tracked /\ rows[k][1] = f
        /\ \A r \in tracked : r[1] = f => \E k \in 1..Len(rows) : rows[k] = r
    BY <1>2 DEF OfFile
  <2>3. work'[w].file = f /\ work'[w].todo = rows /\ work'[w].next >= 1 /\ work'[w].at # "decided"
    BY <1>3, <1>5, <2>1
  <2> QED BY <1>4, <1>5, <2>1, <2>2, <2>3 DEF BackOf, OfFile
<1>7. /\ undone' \subseteq counted /\ passed' \subseteq Rows /\ overlap' \in BOOLEAN
      /\ faults' \in 0..MaxFaults /\ byHand' \in 0..MaxByHand /\ new.at \notin {"rows", "batch"}
  BY <1>0, <1>3, <1>4 DEF TypeOK, Meets
<1>8. RecordsInv' /\ \A v \in Workers \ {w} : work'[v] = work[v]
  BY <1>0, <1>3, <1>4, <1>6, <1>7, StillFrame
<1>9. /\ SerialInv'
      /\ ~overlap' => ~overlap /\ \A v \in Workers \ {w} : work[v].at = "idle" /\ work'[v].at = "idle"
  BY <1>0, <1>4, <1>8, AloneFacts
<1>10. CheckInv'
  BY <1>3, <1>5, <1>9 DEF CheckInv
<1> QED BY <1>4, <1>8, <1>9, <1>10, StillEnds DEF SerialInvs

LEMMA CommitRowStep ==
  ASSUME IInv, NEW w \in Workers, NEW r \in Rows, CommitRow(w, r)
  PROVE  IInv'
<1>0. /\ RecordsInv /\ TypeOK /\ SerialInv /\ work \in [Workers -> Work] /\ work[w] \in Work
      /\ work[w].next \in Nat /\ BackOf(w)
  BY WorkType, CommitRowFacts DEF IInv, RecordsInv, BackInv
<1> DEFINE new == [work[w] EXCEPT !.at = "undoing", !.next = @ + 1, !.check = "absent"]
<1>1. /\ work' = [work EXCEPT ![w] = new] /\ work[w].at = "decided" /\ r = work[w].todo[work[w].next]
      /\ UNCHANGED <<kind, owner, alias, counted, tracked, undone, passed, overlap, faults, byHand>>
      /\ reversed' = reversed \cup {r} /\ r \in tracked
  BY <1>0, CommitRowFacts DEF CommitRow, accounts, history
<1>2. /\ new \in Work /\ new.at = "undoing" /\ new.file = work[w].file /\ new.todo = work[w].todo
      /\ new.next = work[w].next + 1 /\ new.next >= work[w].next
  BY <1>0, NextRow
<1> HIDE DEF new
<1>3. /\ work' \in [Workers -> Work] /\ work'[w] = new /\ \A v \in Workers \ {w} : work'[v] = work[v]
  BY <1>0, <1>1, <1>2
<1>4. RowsInv' /\ created' \in [Rows -> Created] /\ \A q \in Rows : Steady(q)
  BY <1>0, CommitRowRows
<1>5. TypeOK'
  <2>1. \A v \in Workers : work'[v].at \in {"idle", "rows", "batch", "undoing", "decided"}
    BY <1>3 DEF Work
  <2> QED BY <1>0, <1>1, <1>4, <2>1 DEF TypeOK
<1>6. LoadInv' /\ BackInv'
  <2> DEFINE movers == {w}
             grown  == {}
  <2>1. BackOf(w)'
    <3>1. new.next >= 1 /\ new.at # "decided"
      BY <1>0, <1>2 DEF BackOf
    <3> QED BY <1>0, <1>1, <1>2, <1>3, <3>1 DEF BackOf, OfFile
  <2>2. KindsStay /\ ~Loading(w)'
    BY <1>0, <1>1, <1>2, <1>3 DEF KindsStay, TypeOK, Loading
  <2>3. /\ \A a, b \in movers : a = b
        /\ \A v \in Workers \ movers : work'[v] = work[v] /\ (Loading(v) => work[v].file \notin grown)
        /\ \A q \in Rows : created[q] = NoRow /\ q[1] \notin grown => created'[q] = NoRow
        /\ \A a \in movers : /\ Loading(a)' => /\ LoadOf(a)'
                                               /\ \A v \in Workers \ {a} : Loading(v) => work'[a].file # work[v].file
                             /\ Backing(a)' => BackOf(a)'
        /\ counted \subseteq counted' /\ counted' \subseteq counted \cup grown
        /\ \A q : q[1] \in counted => (q \in tracked' <=> q \in tracked)
    BY <1>1, <1>3, <1>4, <2>1, <2>2 DEF Steady
  <2> HIDE DEF movers, grown
  <2> QED BY <1>0, <2>2, <2>3, WorkFrame
<1>7. /\ SerialInv'
      /\ ~overlap' => ~overlap /\ \A v \in Workers \ {w} : work[v].at = "idle" /\ work'[v].at = "idle"
  BY <1>0, <1>1, <1>3, AloneFacts
<1>8. ~overlap' => ~Final(r) /\ work[w].check = CheckOf(r)
  BY <1>1, <1>7 DEF IInv, CheckInv
<1>9. PaidInv'
  BY <1>0, <1>7, <1>8, CommitRowPaid DEF IInv, PaidInv, Paid
<1>10. CheckInv'
  BY <1>2, <1>3, <1>7 DEF CheckInv
<1> QED BY <1>3, <1>4, <1>5, <1>6, <1>7, <1>9, <1>10 DEF IInv, RecordsInv, RowsInv

LEMMA TakesStep ==
  ASSUME IInv, NEW w \in Workers, Takes(w)
  PROVE  IInv'
<1>0. RecordsInv /\ TypeOK /\ SerialInv /\ work \in [Workers -> Work]
  BY DEF IInv, RecordsInv
<1>1. PICK f \in Files : \E k \in Kinds :
        /\ kind[f] = Absent
        /\ kind' = [kind EXCEPT ![f] = k]
        /\ \/ UNCHANGED work
           \/ \E at \in {"rows", "batch"} : work' = [work EXCEPT ![w] = Begun(f, at)]
  BY DEF Takes
<1>2. PICK k \in Kinds :
        /\ kind[f] = Absent
        /\ kind' = [kind EXCEPT ![f] = k]
        /\ \/ UNCHANGED work
           \/ \E at \in {"rows", "batch"} : work' = [work EXCEPT ![w] = Begun(f, at)]
  BY <1>1
<1>3. /\ work[w].at = "idle" /\ Meets(w) /\ byHand' \in 0..MaxByHand
      /\ UNCHANGED <<owner, alias, created, counted, tracked, reversed, undone, passed, faults>>
  BY DEF Takes, accounts, records
<1>4. f \notin counted /\ \A r \in Rows : r[1] = f => created[r] = NoRow
  BY <1>0, <1>2 DEF RecordsInv, FileInv
<1>5. /\ KindsStay /\ OwnersStay /\ kind'[f] = k /\ k # Absent
      /\ \A g \in Files \ {f} : kind'[g] = kind[g]
  BY <1>0, <1>2, <1>3, KindsAreThere DEF KindsStay, OwnersStay, TypeOK
<1>6. /\ work' \in [Workers -> Work] /\ \A v \in Workers \ {w} : work'[v] = work[v]
      /\ \/ work'[w].at = "idle"
         \/ work'[w].at \in {"rows", "batch"} /\ work'[w].file = f /\ work'[w].next = 1
  <2>1. CASE UNCHANGED work
    BY <1>0, <1>3, <2>1
  <2>2. CASE \E at \in {"rows", "batch"} : work' = [work EXCEPT ![w] = Begun(f, at)]
    <3>1. PICK at \in {"rows", "batch"} : work' = [work EXCEPT ![w] = Begun(f, at)]
      BY <2>2
    <3>2. /\ Begun(f, at) \in Work /\ Begun(f, at).at = at /\ Begun(f, at).file = f
          /\ Begun(f, at).next = 1
      <4>1. /\ Begun(f, at).at = at /\ Begun(f, at).file = f /\ Begun(f, at).next = 1
        BY DEF Begun, Idle
      <4>2. Begun(f, at) \in Work
        <5>1. /\ <<>> \in Seq(Rows) /\ "absent" \in Statuses
              /\ at \in {"idle", "rows", "batch", "undoing", "decided"}
          BY DEF Statuses
        <5> QED BY <5>1 DEF Begun, Idle, Work
      <4> QED BY <4>1, <4>2
    <3> QED BY <1>0, <3>1, <3>2
  <2> QED BY <1>2, <2>1, <2>2
<1>7. \A r \in Rows : Steady(r)
  BY <1>0, <1>3 DEF Steady, RecordsInv, RowInv
<1>8. RowsInv'
  <2> DEFINE new == {}
  <2>1. (\A r \in Rows \ new : Steady(r)) /\ (\A q \in new : Fresh(q))
    BY <1>7
  <2> HIDE DEF new
  <2> QED BY <1>0, <1>3, <1>5, <2>1, RowsFrame
<1>9. TypeOK'
  <2>1. \A v \in Workers : work'[v].at \in {"idle", "rows", "batch", "undoing", "decided"}
    BY <1>6 DEF Work
  <2>2. overlap' \in BOOLEAN
    BY <1>3 DEF Meets
  <2> QED BY <1>0, <1>3, <1>5, <2>1, <2>2 DEF TypeOK, KindsStay
<1>10. LoadInv' /\ BackInv'
  <2> DEFINE movers == {w}
             grown  == {f}
  <2>1. \A v \in Workers : Loading(v) => work[v].file # f
    BY <1>0, <1>2 DEF RecordsInv, LoadInv, LoadOf
  <2>2. ~Backing(w)'
    BY <1>6 DEF Backing
  <2>3. Loading(w)' => LoadOf(w)' /\ work'[w].file = f
    BY <1>3, <1>4, <1>5, <1>6 DEF Loading, LoadOf
  <2>4. /\ \A a, b \in movers : a = b
        /\ \A v \in Workers \ movers : work'[v] = work[v] /\ (Loading(v) => work[v].file \notin grown)
        /\ \A r \in Rows : created[r] = NoRow /\ r[1] \notin grown => created'[r] = NoRow
        /\ \A a \in movers : /\ Loading(a)' => /\ LoadOf(a)'
                                               /\ \A v \in Workers \ {a} : Loading(v) => work'[a].file # work[v].file
                             /\ Backing(a)' => BackOf(a)'
        /\ counted \subseteq counted' /\ counted' \subseteq counted \cup grown
        /\ \A r : r[1] \in counted => (r \in tracked' <=> r \in tracked)
    BY <1>3, <1>6, <2>1, <2>2, <2>3
  <2> HIDE DEF movers, grown
  <2> QED BY <1>0, <1>5, <2>4, WorkFrame
<1>11. SerialInvs' /\ (~overlap' => ~overlap)
  <2>1. ~Backing(w)'
    BY <1>6 DEF Backing
  <2> QED BY <1>0, <1>3, <1>6, <2>1, AloneFacts DEF SerialInvs
<1>12. Paid => Paid'
  <2>1. ASSUME NEW r \in Rows, kind'[r[1]] = "issued_items", created[r].status # "absent"
        PROVE  kind[r[1]] = "issued_items"
    BY <1>4, <1>5, <2>1, RowsType DEF NoRow
  <2>2. ASSUME Paid PROVE Paid'
    <3>1. ASSUME NEW r \in Rows, kind'[r[1]] = "issued_items", created'[r].status = "paid"
          PROVE  \E q \in Rows : created'[q].issued = r /\ Covers(q)'
      BY <1>3, <2>1, <2>2, <3>1 DEF Paid, Covers
    <3> QED BY <1>3, <2>2, <3>1 DEF Paid
  <2> QED BY <2>2
<1> QED BY <1>6, <1>8, <1>9, <1>10, <1>11, <1>12
        DEF IInv, RecordsInv, RowsInv, SerialInvs, PaidInv, Paid

LEMMA FinishStep ==
  ASSUME IInv, NEW w \in Workers, Finishes(w)
  PROVE  IInv'
<1> DEFINE f == work[w].file
<1>0. RecordsInv /\ TypeOK /\ SerialInv /\ work \in [Workers -> Work]
  BY DEF IInv, RecordsInv
<1>1. /\ work[w].at = "rows" /\ TrackCreatedRecords(w)
      /\ counted' = counted \cup {f} /\ work' = [work EXCEPT ![w] = Idle]
      /\ UNCHANGED <<kind, owner, alias, created, reversed, undone, passed, overlap, faults, byHand>>
  BY DEF Finishes, Finish, accounts, history
<1>2. Loading(w) /\ f \in Files /\ f \notin counted /\ kind[f] # Absent
  BY <1>0, <1>1 DEF Loading, RecordsInv, LoadInv, LoadOf
<1>3. /\ work'[w] = Idle /\ work' \in [Workers -> Work] /\ \A v \in Workers \ {w} : work'[v] = work[v]
      /\ ~Loading(w)' /\ ~Backing(w)'
  BY <1>0, <1>1, IdleType DEF Loading, Backing
<1>4. tracked' = tracked \cup IF kind[f] = "fraud_training_examples" THEN {} ELSE Made(f)
  BY <1>1 DEF TrackCreatedRecords
<1>5. OfFile(f) = {}
  BY <1>0, <1>2 DEF RecordsInv, FileInv, OfFile
<1>6. PICK g \in Files : g = f
  BY <1>2
<1>7. \A r : r[1] # g => (r \in tracked' <=> r \in tracked)
  BY <1>4, <1>6 DEF Made
<1>8. RowsAreTracked'
  <2>1. ASSUME NEW x \in counted', kind'[x] # "fraud_training_examples" PROVE OfFile(x)' = Made(x)'
    <3>1. Made(x)' = Made(x)
      BY <1>1 DEF Made
    <3>2. CASE x = g
      <4>1. tracked' = tracked \cup Made(g)
        BY <1>1, <1>4, <1>6, <2>1, <3>2
      <4>2. \A r \in tracked : r[1] # g
        BY <1>5, <1>6 DEF OfFile
      <4>3. OfFile(x)' = Made(g)
        BY <3>2, <4>1, <4>2 DEF OfFile, Made
      <4> QED BY <3>1, <3>2, <4>3
    <3>3. CASE x # g
      <4>1. x \in counted /\ OfFile(x) = Made(x)
        BY <1>0, <1>1, <1>6, <2>1, <3>3 DEF RecordsInv, RowsAreTracked
      <4>2. OfFile(x)' = OfFile(x)
        BY <1>7, <3>3 DEF OfFile
      <4> QED BY <3>1, <4>1, <4>2
    <3> QED BY <3>2, <3>3
  <2> QED BY <2>1 DEF RowsAreTracked
<1>9. FileInv' /\ RowInv' /\ ScopeIsKept'
  <2>1. ASSUME NEW x \in Files, kind'[x] = Absent
        PROVE  x \notin counted' /\ \A r \in Rows : r[1] = x => created'[r] = NoRow
    BY <1>0, <1>1, <1>2, <2>1 DEF RecordsInv, FileInv
  <2>2. \A r \in tracked' : r[1] \in counted'
    BY <1>0, <1>1, <1>4 DEF RecordsInv, FileInv, Made
  <2>3. FileInv'
    BY <1>0, <1>1, <2>1, <2>2 DEF FileInv, RecordsInv
  <2>4. RowInv' /\ ScopeIsKept'
    BY <1>0, <1>1 DEF RecordsInv, RowInv, ScopeIsKept, Matches
  <2> QED BY <2>3, <2>4
<1>10. TypeOK'
  <2>1. \A v \in Workers : work'[v].at \in {"idle", "rows", "batch", "undoing", "decided"}
    BY <1>3 DEF Work
  <2>2. tracked' \subseteq Rows /\ reversed' \subseteq tracked'
    BY <1>0, <1>1, <1>4 DEF TypeOK, Made
  <2>3. counted' \subseteq Files /\ undone' \subseteq counted'
    BY <1>0, <1>1, <1>2 DEF TypeOK
  <2> QED BY <1>0, <1>1, <2>1, <2>2, <2>3 DEF TypeOK
<1>11. LoadInv' /\ BackInv'
  <2> DEFINE movers == {w}
             grown  == {g}
  <2>1. \A v \in Workers \ {w} : Loading(v) => work[v].file # g
    BY <1>0, <1>2, <1>6 DEF RecordsInv, LoadInv
  <2>2. KindsStay
    BY <1>0, <1>1 DEF KindsStay, TypeOK
  <2>3. /\ \A a, b \in movers : a = b
        /\ \A v \in Workers \ movers : work'[v] = work[v] /\ (Loading(v) => work[v].file \notin grown)
        /\ \A r \in Rows : created[r] = NoRow /\ r[1] \notin grown => created'[r] = NoRow
        /\ \A a \in movers : /\ Loading(a)' => /\ LoadOf(a)'
                                               /\ \A v \in Workers \ {a} : Loading(v) => work'[a].file # work[v].file
                             /\ Backing(a)' => BackOf(a)'
        /\ counted \subseteq counted' /\ counted' \subseteq counted \cup grown
        /\ \A r : r[1] \in counted => (r \in tracked' <=> r \in tracked)
    BY <1>1, <1>2, <1>3, <1>6, <1>7, <2>1
  <2> HIDE DEF movers, grown
  <2> QED BY <1>0, <2>2, <2>3, WorkFrame
<1>12. SerialInvs'
  BY <1>0, <1>1, <1>3, AloneFacts DEF SerialInvs
<1>13. PaidInv'
  BY <1>1 DEF IInv, PaidInv, Paid, Covers
<1> QED BY <1>3, <1>8, <1>9, <1>10, <1>11, <1>12, <1>13 DEF IInv, RecordsInv, SerialInvs

\* A step of nobody's request: no worker moves.
LEMMA QuietFrame ==
  ASSUME IInv, UNCHANGED work, overlap' = (overlap \/ Busy # {}), KindsStay, UNCHANGED records,
         NEW grown, \A v \in Workers : Loading(v) => work[v].file \notin grown,
         \A r \in Rows : created[r] = NoRow /\ r[1] \notin grown => created'[r] = NoRow
  PROVE  LoadInv' /\ BackInv' /\ SerialInvs' /\ (~overlap' => ~overlap)
<1>0. RecordsInv /\ SerialInv
  BY DEF IInv
<1> DEFINE movers == {}
<1>1. /\ \A a, b \in movers : a = b
      /\ \A v \in Workers \ movers : work'[v] = work[v] /\ (Loading(v) => work[v].file \notin grown)
      /\ \A a \in movers : /\ Loading(a)' => /\ LoadOf(a)'
                                             /\ \A v \in Workers \ {a} : Loading(v) => work'[a].file # work[v].file
                           /\ Backing(a)' => BackOf(a)'
      /\ counted \subseteq counted' /\ counted' \subseteq counted \cup grown
      /\ \A r : r[1] \in counted => (r \in tracked' <=> r \in tracked)
  BY DEF records
<1> HIDE DEF movers
<1>2. LoadInv' /\ BackInv'
  BY <1>0, <1>1, WorkFrame
<1> QED BY <1>0, <1>2, QuietFacts DEF SerialInvs

LEMMA TypesStep ==
  ASSUME IInv, NEW f \in Files, Types(f)
  PROVE  IInv'
<1> DEFINE q == <<f, 1>>
<1>0. RecordsInv /\ TypeOK
  BY DEF IInv, RecordsInv
<1>1. /\ kind[f] = Absent /\ Grows(q) /\ UNCHANGED <<work, passed, faults>> /\ UNCHANGED records
      /\ overlap' = (overlap \/ Busy # {}) /\ byHand' \in 0..MaxByHand /\ KindsStay /\ OwnersStay
  BY DEF Types, Grows
<1>2. q \in Rows /\ q[1] = f
  BY FirstLine
<1> HIDE DEF q
<1>3. RowsInv' /\ created' \in [Rows -> Created] /\ \A r \in Rows \ {q} : Steady(r)
  BY <1>0, <1>1, <1>2, GrowsRows
<1>4. LoadInv' /\ BackInv' /\ SerialInvs' /\ (~overlap' => ~overlap)
  <2> DEFINE grown == {f}
  <2>1. \A v \in Workers : Loading(v) => work[v].file \notin grown
    BY <1>0, <1>1 DEF RecordsInv, LoadInv, LoadOf
  <2>2. \A r \in Rows : created[r] = NoRow /\ r[1] \notin grown => created'[r] = NoRow
    BY <1>2, <1>3 DEF Steady
  <2> HIDE DEF grown
  <2> QED BY <1>1, <2>1, <2>2, QuietFrame
<1>5. TypeOK'
  <2>1. overlap' \in BOOLEAN
    BY <1>1
  <2> QED BY <1>0, <1>1, <1>3, <2>1 DEF TypeOK, KindsStay, OwnersStay, records
<1>6. PaidInv'
  BY <1>0, <1>1, <1>2, <1>4, GrowsPaid DEF IInv, PaidInv, Paid
<1>7. work' \in [Workers -> Work]
  BY <1>0, <1>1 DEF RecordsInv
<1> QED BY <1>3, <1>4, <1>5, <1>6, <1>7 DEF IInv, RecordsInv, RowsInv, SerialInvs

LEMMA ChangesStep ==
  ASSUME IInv, NEW r \in Rows, Changes(r)
  PROVE  IInv'
<1>0. RecordsInv /\ TypeOK
  BY DEF IInv, RecordsInv
<1>1. /\ UNCHANGED <<kind, accounts, records, work, passed, faults>>
      /\ overlap' = (overlap \/ Busy # {}) /\ byHand' \in 0..MaxByHand /\ created' \in [Rows -> Created]
  BY <1>0, ChangesFacts
<1>2. RowsInv' /\ \A q \in Rows : Steady(q)
  BY <1>0, ChangesRows
<1>3. KindsStay
  BY <1>0, <1>1 DEF KindsStay, TypeOK
<1>4. LoadInv' /\ BackInv' /\ SerialInvs' /\ (~overlap' => ~overlap)
  <2> DEFINE grown == {}
  <2>1. /\ \A v \in Workers : Loading(v) => work[v].file \notin grown
        /\ \A q \in Rows : created[q] = NoRow /\ q[1] \notin grown => created'[q] = NoRow
    BY <1>2 DEF Steady
  <2> HIDE DEF grown
  <2> QED BY <1>1, <1>3, <2>1, QuietFrame
<1>5. TypeOK'
  <2>1. overlap' \in BOOLEAN
    BY <1>1
  <2> QED BY <1>0, <1>1, <2>1 DEF TypeOK, accounts, records
<1>6. PaidInv'
  BY <1>0, <1>4, ChangesPaid DEF IInv, PaidInv, Paid
<1>7. work' \in [Workers -> Work]
  BY <1>0, <1>1 DEF RecordsInv
<1> QED BY <1>2, <1>4, <1>5, <1>6, <1>7 DEF IInv, RecordsInv, RowsInv, SerialInvs

-----------------------------------------------------------------------------
(***************************************************************************)
(* What was undone, and what a back-out has behind it: for any overlap.    *)
(***************************************************************************)

ReversedInv == \A q \in reversed : kind[q[1]] = "check_images" => created[q].status \in {"reversed", "returned"}

ThoroughInv == \A w \in Workers : Backing(w) =>
  \A k \in 1..Len(work[w].todo) : k < work[w].next => work[w].todo[k] \in reversed \cup passed

UndoingInv == ReversedInv /\ ThoroughInv

\* A back-out goes from a row to the next once the row is undone or passed over.
Proceeds(w) == Backing(w)' =>
  \/ work'[w].next = 1
  \/ /\ Backing(w) /\ work'[w].todo = work[w].todo
     /\ \/ work'[w].next = work[w].next
        \/ /\ work'[w].next = work[w].next + 1
           /\ work[w].todo[work[w].next] \in reversed' \cup passed'

LEMMA ThoroughFrame ==
  ASSUME RecordsInv, ThoroughInv, reversed \subseteq reversed', passed \subseteq passed',
         \A w \in Workers : Proceeds(w)
  PROVE  ThoroughInv'
<1> SUFFICES ASSUME NEW w \in Workers, Backing(w)', NEW k \in 1..Len(work'[w].todo), k < work'[w].next
             PROVE  work'[w].todo[k] \in reversed' \cup passed'
  BY DEF ThoroughInv
<1>1. work'[w].next # 1 /\ Proceeds(w)
  OBVIOUS
<1>2. /\ Backing(w) /\ work'[w].todo = work[w].todo
      /\ \/ work'[w].next = work[w].next
         \/ /\ work'[w].next = work[w].next + 1
            /\ work[w].todo[work[w].next] \in reversed' \cup passed'
  BY <1>1 DEF Proceeds
<1>3. work[w].next \in Nat
  BY WorkType DEF RecordsInv
<1>4. CASE k < work[w].next
  BY <1>2, <1>4 DEF ThoroughInv
<1>5. CASE k = work[w].next
  BY <1>2, <1>5
<1> QED BY <1>2, <1>3, <1>4, <1>5

\* A step that moves one worker, which does not back out, or none.
LEMMA OthersProceed ==
  ASSUME work \in [Workers -> Work], NEW w, NEW new, new.at \notin {"undoing", "decided"},
         work' = work \/ work' = [work EXCEPT ![w] = new]
  PROVE  \A v \in Workers : Proceeds(v)
<1> SUFFICES ASSUME NEW v \in Workers PROVE Proceeds(v)
  OBVIOUS
<1>1. CASE v = w /\ work' = [work EXCEPT ![w] = new]
  BY <1>1 DEF Proceeds, Backing
<1>2. CASE work'[v] = work[v]
  BY <1>2 DEF Proceeds, Backing
<1> QED BY <1>1, <1>2

LEMMA OnwardProceeds ==
  ASSUME work \in [Workers -> Work], NEW w \in Workers, Loading(w), Onward(w)
  PROVE  \A v \in Workers : Proceeds(v)
<1> DEFINE new == [work[w] EXCEPT !.next = @ + 1]
<1>1. work' = [work EXCEPT ![w] = new] /\ work[w] \in Work
  BY DEF Onward
<1>2. new.at = work[w].at
  BY <1>1 DEF Work
<1> HIDE DEF new
<1> QED BY <1>1, <1>2, OthersProceed DEF Loading

\* A step of a back-out, on row r.
LEMMA BackingProceeds ==
  ASSUME work \in [Workers -> Work], NEW w \in Workers, Backing(w), NEW new, work' = [work EXCEPT ![w] = new],
         new.todo = work[w].todo,
         \/ new.next = work[w].next
         \/ new.next = work[w].next + 1 /\ work[w].todo[work[w].next] \in reversed' \cup passed'
  PROVE  \A v \in Workers : Proceeds(v)
<1> SUFFICES ASSUME NEW v \in Workers PROVE Proceeds(v)
  OBVIOUS
<1>1. CASE v = w
  BY <1>1 DEF Proceeds
<1>2. CASE work'[v] = work[v]
  BY <1>2 DEF Proceeds, Backing
<1> QED BY <1>1, <1>2

\* Records that were reversed are of rows that were submitted and counted.
LEMMA ReversedRows ==
  ASSUME RecordsInv, NEW q \in reversed
  PROVE  q \in Rows /\ q[1] \in Files /\ q[1] \in counted /\ kind[q[1]] # Absent
<1>1. q \in tracked /\ q \in Rows
  BY DEF RecordsInv, TypeOK
<1>2. q[1] \in counted /\ q[1] \in Files
  BY <1>1, RowsType DEF RecordsInv, FileInv
<1> QED BY <1>1, <1>2 DEF RecordsInv, FileInv

LEMMA ReversedFrame ==
  ASSUME RecordsInv, ReversedInv, KindsStay, reversed' = reversed,
         \A q \in reversed : kind[q[1]] = "check_images" =>
           created'[q].status = created[q].status \/ created'[q].status = "returned"
  PROVE  ReversedInv'
<1> SUFFICES ASSUME NEW q \in reversed, kind'[q[1]] = "check_images"
             PROVE  created'[q].status \in {"reversed", "returned"}
  BY DEF ReversedInv
<1>1. kind[q[1]] = "check_images"
  BY ReversedRows DEF KindsStay
<1> QED BY <1>1 DEF ReversedInv

\* Neither is a row that comes into being, nor the issue it pays, of a reversed image.
LEMMA GrowsReversed ==
  ASSUME RecordsInv, ReversedInv, NEW q \in Rows, Grows(q)
  PROVE  ReversedInv'
<1>1. TypeOK /\ RowInv /\ q \in Rows /\ q[1] \notin counted /\ KindsStay /\ UNCHANGED records
  BY DEF RecordsInv, Grows
<1>2. ASSUME NEW r \in reversed, kind[r[1]] = "check_images"
      PROVE  created'[r] = created[r]
  <2>1. r \in Rows \ {q}
    BY <1>1, ReversedRows
  <2>2. ~(created'[q].issued # None /\ r = created'[q].issued)
    BY <1>1, <1>2, GrowsFacts DEF Matches
  <2>3. r # None
    BY <2>1, UploadsAssumption
  <2>4. \A s \in Rows \ {q} : \/ created'[s] = created[s]
                              \/ /\ s = created'[q].issued /\ created[s].issued = None
                                 /\ created[s].status \notin {"absent", "voided"}
                                 /\ created'[s] = [created[s] EXCEPT !.status = "paid"]
    BY <1>1, GrowsFacts
  <2> QED BY <2>1, <2>2, <2>3, <2>4
<1> QED BY <1>1, <1>2, ReversedFrame DEF records

LEMMA CommitRowReversed ==
  ASSUME RecordsInv, ReversedInv, NEW w \in Workers, NEW r \in Rows, CommitRow(w, r)
  PROVE  ReversedInv'
<1> DEFINE check == work[w].check
<1>1. /\ TypeOK /\ RowInv /\ kind' = kind /\ reversed' = reversed \cup {r} /\ created' = Undone(r, check)
      /\ kind[r[1]] \in Permitted /\ created[r].status # "absent"
  BY CommitRowFacts DEF RecordsInv, CommitRow
<1> HIDE DEF check
<1> SUFFICES ASSUME NEW q \in reversed', kind[q[1]] = "check_images"
             PROVE  created'[q].status \in {"reversed", "returned"}
  BY <1>1 DEF ReversedInv
<1>2. CASE q = r
  <2>1. created'[r].status = CASE kind[r[1]] = "issued_items" -> "voided"
                               [] kind[r[1]] = "users" -> "inactive"
                               [] kind[r[1]] = "check_images" -> "reversed"
                               [] OTHER -> created[r].status
    BY <1>1, UndoneFacts
  <2> QED BY <1>2, <2>1
<1>3. CASE q # r
  <2>1. q \in reversed /\ q \in Rows \ {r} /\ q # None
    BY <1>1, <1>3, ReversedRows, UploadsAssumption
  <2>2. q # created[r].issued
    BY <1>1, <2>1 DEF RowInv, Matches
  <2>3. created'[q] = created[q]
    BY <1>1, <2>1, <2>2, UndoneFacts
  <2> QED BY <2>1, <2>3 DEF ReversedInv
<1> QED BY <1>2, <1>3

LEMMA ChangesReversed ==
  ASSUME RecordsInv, ReversedInv, NEW r \in Rows, Changes(r)
  PROVE  ReversedInv'
<1>1. UNCHANGED <<kind, accounts, records, work, passed, faults>> /\ TypeOK
  BY ChangesFacts DEF RecordsInv
<1>2. KindsStay
  BY <1>1 DEF KindsStay, TypeOK
<1>3. ASSUME NEW q \in reversed, kind[q[1]] = "check_images"
      PROVE  created'[q].status = created[q].status \/ created'[q].status = "returned"
  <2>1. q \in Rows /\ created[q].status \in {"reversed", "returned"}
    BY <1>3, ReversedRows DEF ReversedInv
  <2>2. CASE q = r
    <3>1. OneOf(created[r], created'[r], r)
      BY ChangesFacts
    <3> QED BY <1>3, <2>1, <2>2, <3>1 DEF OneOf
  <2>3. CASE q # r
    BY <2>1, <2>3, ChangesFacts
  <2> QED BY <2>2, <2>3
<1> QED BY <1>1, <1>2, <1>3, ReversedFrame DEF records

LEMMA NextUndoingInv == IInv /\ UndoingInv /\ [Next]_vars => UndoingInv'
<1> SUFFICES ASSUME IInv, UndoingInv, [Next]_vars PROVE UndoingInv'
  OBVIOUS
<1>0. /\ RecordsInv /\ TypeOK /\ work \in [Workers -> Work] /\ ReversedInv /\ ThoroughInv
      /\ Idle.at \notin {"undoing", "decided"}
  BY IdleType DEF IInv, RecordsInv, UndoingInv
<1>1. ASSUME NEW w \in Workers, Creates(w) PROVE UndoingInv'
  <2>1. Grows(Here(w)) /\ Loading(w) /\ Onward(w) /\ UNCHANGED <<reversed, passed>>
    BY <1>1 DEF Creates, OnRow, Grows, records, history
  <2>2. Here(w) \in Rows
    BY <2>1 DEF Grows
  <2> QED BY <1>0, <2>1, <2>2, GrowsReversed, OnwardProceeds, ThoroughFrame DEF UndoingInv
<1>2. ASSUME NEW w \in Workers, Passes(w) PROVE UndoingInv'
  <2>1. Loading(w) /\ Onward(w) /\ UNCHANGED <<kind, created, reversed, passed>>
    BY <1>2 DEF Passes, OnRow, RowFails, records, history
  <2>2. KindsStay
    BY <1>0, <2>1 DEF KindsStay, TypeOK
  <2> QED BY <1>0, <2>1, <2>2, ReversedFrame, OnwardProceeds, ThoroughFrame DEF UndoingInv
<1>3. ASSUME NEW w \in Workers, Takes(w) PROVE UndoingInv'
  <2>1. PICK f \in Files, k \in Kinds :
          /\ kind[f] = Absent
          /\ kind' = [kind EXCEPT ![f] = k]
          /\ \/ UNCHANGED work
             \/ \E at \in {"rows", "batch"} : work' = [work EXCEPT ![w] = Begun(f, at)]
    BY <1>3 DEF Takes
  <2>2. KindsStay /\ UNCHANGED <<created, reversed, passed>>
    BY <1>0, <1>3, <2>1 DEF Takes, KindsStay, TypeOK, records
  <2>3. ASSUME NEW at \in {"rows", "batch"} PROVE Begun(f, at).at \notin {"undoing", "decided"}
    BY DEF Begun, Idle
  <2>4. \A v \in Workers : Proceeds(v)
    BY <1>0, <2>1, <2>3, OthersProceed
  <2> QED BY <1>0, <2>2, <2>4, ReversedFrame, ThoroughFrame DEF UndoingInv
<1>4. ASSUME NEW w \in Workers, Finishes(w) PROVE UndoingInv'
  <2>1. work' = [work EXCEPT ![w] = Idle] /\ UNCHANGED <<kind, created, reversed, passed>>
    BY <1>4 DEF Finishes, Finish, history
  <2>2. KindsStay
    BY <1>0, <2>1 DEF KindsStay, TypeOK
  <2> QED BY <1>0, <2>1, <2>2, ReversedFrame, OthersProceed, ThoroughFrame DEF UndoingInv
<1>5. ASSUME NEW w \in Workers, Stops(w) PROVE UndoingInv'
  <2>1. work' = [work EXCEPT ![w] = Idle] /\ UNCHANGED <<kind, created, reversed, passed>>
    BY <1>5 DEF Stops
  <2>2. KindsStay
    BY <1>0, <2>1 DEF KindsStay, TypeOK
  <2> QED BY <1>0, <2>1, <2>2, ReversedFrame, OthersProceed, ThoroughFrame DEF UndoingInv
<1>6. ASSUME NEW f \in Files, Types(f) PROVE UndoingInv'
  <2>1. Grows(<<f, 1>>) /\ work' = work /\ UNCHANGED <<reversed, passed>>
    BY <1>6 DEF Types, Grows, records
  <2>2. <<f, 1>> \in Rows
    BY <2>1 DEF Grows
  <2> QED BY <1>0, <2>1, <2>2, GrowsReversed, OthersProceed, ThoroughFrame DEF UndoingInv
<1>7. ASSUME NEW w \in Workers, NEW f \in Files, BackOutUpload(w, f) PROVE UndoingInv'
  <2>1. PICK rows : work' = [work EXCEPT ![w] =
                      [Idle EXCEPT !.at = "undoing", !.file = f, !.next = 1, !.todo = rows]]
    BY <1>7 DEF BackOutUpload
  <2> DEFINE new == [Idle EXCEPT !.at = "undoing", !.file = f, !.next = 1, !.todo = rows]
  <2>2. new.next = 1
    BY DEF Idle
  <2> HIDE DEF new
  <2>3. work' = [work EXCEPT ![w] = new] /\ UNCHANGED <<kind, created, reversed, passed>>
    BY <1>7, <2>1 DEF BackOutUpload, records, new
  <2>4. \A v \in Workers : Proceeds(v)
    BY <1>0, <2>2, <2>3 DEF Proceeds, Backing
  <2>5. KindsStay
    BY <1>0, <2>3 DEF KindsStay, TypeOK
  <2> QED BY <1>0, <2>3, <2>4, <2>5, ReversedFrame, ThoroughFrame DEF UndoingInv
<1>8. ASSUME NEW w \in Workers, NEW r \in Rows, RefuseRow(w, r) PROVE UndoingInv'
  <2> DEFINE new == [work[w] EXCEPT !.next = @ + 1]
  <2>1. /\ work' = [work EXCEPT ![w] = new] /\ Backing(w) /\ r = work[w].todo[work[w].next]
        /\ passed' = passed \cup {r} /\ UNCHANGED <<kind, created, reversed>>
    BY <1>8 DEF RefuseRow, PassedOver, Undoing, Onward, records, Backing
  <2>2. new.todo = work[w].todo /\ new.next = work[w].next + 1
    BY <1>0 DEF Work
  <2> HIDE DEF new
  <2>3. KindsStay
    BY <1>0, <2>1 DEF KindsStay, TypeOK
  <2> QED BY <1>0, <2>1, <2>2, <2>3, ReversedFrame, BackingProceeds, ThoroughFrame DEF UndoingInv
<1>9. ASSUME NEW w \in Workers, NEW r \in Rows, ReadRow(w, r) PROVE UndoingInv'
  <2>1. PICK check : work' = [work EXCEPT ![w] = [work[w] EXCEPT !.at = "decided", !.check = check]]
    BY <1>9 DEF ReadRow
  <2> DEFINE new == [work[w] EXCEPT !.at = "decided", !.check = check]
  <2>2. new.todo = work[w].todo /\ new.next = work[w].next
    BY <1>0 DEF Work
  <2> HIDE DEF new
  <2>3. work' = [work EXCEPT ![w] = new] /\ Backing(w) /\ UNCHANGED <<kind, created, reversed, passed>>
    BY <1>9, <2>1 DEF ReadRow, Undoing, Backing, records, history, new
  <2>4. KindsStay
    BY <1>0, <2>3 DEF KindsStay, TypeOK
  <2> QED BY <1>0, <2>2, <2>3, <2>4, ReversedFrame, BackingProceeds, ThoroughFrame DEF UndoingInv
<1>10. ASSUME NEW w \in Workers, NEW r \in Rows, CommitRow(w, r) PROVE UndoingInv'
  <2> DEFINE new == [work[w] EXCEPT !.at = "undoing", !.next = @ + 1, !.check = "absent"]
  <2>1. /\ work' = [work EXCEPT ![w] = new] /\ Backing(w) /\ r = work[w].todo[work[w].next]
        /\ reversed' = reversed \cup {r} /\ UNCHANGED passed
    BY <1>10 DEF CommitRow, Backing, history
  <2>2. new.todo = work[w].todo /\ new.next = work[w].next + 1
    BY <1>0, NextRow
  <2> HIDE DEF new
  <2> QED BY <1>0, <1>10, <2>1, <2>2, CommitRowReversed, BackingProceeds, ThoroughFrame DEF UndoingInv
<1>11. ASSUME NEW w \in Workers, RowRaises(w) PROVE UndoingInv'
  <2> DEFINE new == [work[w] EXCEPT !.at = "undoing", !.next = @ + 1, !.check = "absent"]
  <2>1. /\ work' = [work EXCEPT ![w] = new] /\ Backing(w)
        /\ passed' = passed \cup {work[w].todo[work[w].next]} /\ UNCHANGED <<kind, created, reversed>>
    BY <1>11 DEF RowRaises, Backing, records
  <2>2. new.todo = work[w].todo /\ new.next = work[w].next + 1
    BY <1>0, NextRow
  <2> HIDE DEF new
  <2>3. KindsStay
    BY <1>0, <2>1 DEF KindsStay, TypeOK
  <2> QED BY <1>0, <2>1, <2>2, <2>3, ReversedFrame, BackingProceeds, ThoroughFrame DEF UndoingInv
<1>12. ASSUME NEW r \in Rows, Changes(r) PROVE UndoingInv'
  <2>1. work' = work /\ UNCHANGED <<reversed, passed>>
    BY <1>0, <1>12, ChangesFacts DEF records
  <2> QED BY <1>0, <1>12, <2>1, ChangesReversed, OthersProceed, ThoroughFrame DEF UndoingInv
<1>13. CASE UNCHANGED vars
  BY <1>0, <1>13 DEF vars, UndoingInv, ReversedInv, ThoroughInv, Backing
<1> QED BY <1>0, <1>1, <1>2, <1>3, <1>4, <1>5, <1>6, <1>7, <1>8, <1>9, <1>10, <1>11, <1>12, <1>13, StepShape

-----------------------------------------------------------------------------
(***************************************************************************)
(* The theorems.                                                           *)
(***************************************************************************)

LEMMA InitIInv == Init => IInv
<1> SUFFICES ASSUME Init PROVE IInv
  OBVIOUS
<1>1. NoRow \in Created /\ \A r \in Rows : created[r] = NoRow
  BY DEF Init, NoRow, Created
<1>2. Idle \in Work /\ \A w \in Workers : work[w] = Idle /\ work[w].at = "idle"
  BY IdleType DEF Init
<1>3. TypeOK /\ work \in [Workers -> Work]
  <2>1. created \in [Rows -> Created] /\ work \in [Workers -> Work]
    BY <1>1, <1>2 DEF Init
  <2>2. owner \in [References -> Owners \cup {Absent}]
    BY UploadsAssumption DEF Init
  <2>3. faults \in 0..MaxFaults /\ byHand \in 0..MaxByHand
    BY KindsAreThere DEF Init
  <2> QED BY <1>2, <2>1, <2>2, <2>3 DEF Init, TypeOK
<1>4. LoadInv /\ BackInv /\ SerialInv /\ CheckInv
  BY <1>2 DEF LoadInv, BackInv, SerialInv, CheckInv, Loading, Backing
<1>5. FileInv /\ RowInv /\ RowsAreTracked /\ ScopeIsKept
  BY <1>1 DEF Init, FileInv, RowInv, RowsAreTracked, ScopeIsKept, NoRow
<1>6. PaidInv
  BY <1>1 DEF PaidInv, Paid, NoRow
<1> QED BY <1>3, <1>4, <1>5, <1>6 DEF IInv, RecordsInv

LEMMA NextIInv == IInv /\ [Next]_vars => IInv'
<1> SUFFICES ASSUME IInv, [Next]_vars PROVE IInv'
  OBVIOUS
<1>1. CASE Next
  <2>1. RecordsInv
    BY DEF IInv
  <2> QED BY <1>1, <2>1, StepShape, CreatesStep, PassesStep, TakesStep, FinishStep, StopsStep, TypesStep,
             BackOutUploadStep, RefuseRowStep, ReadRowStep, CommitRowStep, RowRaisesStep, ChangesStep
<1>2. CASE UNCHANGED vars
  <2>1. /\ UNCHANGED <<kind, owner, alias, created, counted, tracked, reversed, undone>>
        /\ UNCHANGED <<work, passed, overlap, faults, byHand>>
    BY <1>2 DEF vars
  <2>2. RecordsInv'
    BY <2>1 DEF IInv, RecordsInv, TypeOK, LoadInv, LoadOf, Loading, BackInv, BackOf, Backing, OfFile, FileInv,
                RowInv, Matches, RowsAreTracked, Made, ScopeIsKept
  <2>3. SerialInv' /\ CheckInv'
    BY <2>1 DEF IInv, SerialInv, CheckInv, Final, CheckOf, Matched
  <2>4. PaidInv'
    BY <2>1 DEF IInv, PaidInv, Paid, Covers
  <2> QED BY <2>2, <2>3, <2>4 DEF IInv
<1> QED BY <1>1, <1>2

LEMMA Invariance == Spec => [](IInv /\ UndoingInv)
<1>1. Init => UndoingInv
  BY DEF Init, UndoingInv, ReversedInv, ThoroughInv, Backing, Idle
<1> QED BY <1>1, InitIInv, NextIInv, NextUndoingInv, PTL DEF Spec

\* For any files and uploaders, whatever overlaps, stops or fails: the counts of an upload
\* come with a record of every row it created and of no other, and what a customer's file
\* loads is on the customer's own accounts.
THEOREM RecordsAreTrue == Spec => []UploadsAgree
<1>1. IInv => UploadsAgree
  BY DEF IInv, RecordsInv, UploadsAgree
<1> QED BY <1>1, Invariance, PTL

\* Whatever overlaps, an image's payment that was backed out never stands again; and for
\* any interleaving of OCR, labels and decisions between the requests, as long as none
\* overlaps another: a check is paid only if a payment of it stands, was returned, or was
\* escalated by OCR before it was backed out; at most one stands; and nothing that was
\* reversed waits for a decision, but what OCR escalates then.
THEOREM PaymentsAreOfIssues == Spec => []PaidAsPresented
<1>1. IInv /\ UndoingInv => PaidAsPresented
  BY DEF IInv, PaidInv, Paid, UndoingInv, ReversedInv, PaidAsPresented
<1> QED BY <1>1, Invariance, PTL

\* An account number goes on meaning the account it means, whoever asks.
THEOREM NumbersStay == Spec => NumberWins
<1>1. ASSUME IInv, Next, NEW n \in References, NEW f \in Files, Visible(n, Scope[f])
      PROVE  AccountByNumber(n, Scope[f])' = AccountByNumber(n, Scope[f])
  <2>1. owner'[n] = owner[n]
    <3>1. OwnersStay \/ UNCHANGED owner
      BY <1>1, StepShape, ChangesFacts
      DEF IInv, Creates, Grows, Passes, RowFails, Takes, Finishes, Finish, Stops, Types, BackOutUpload,
          RefuseRow, ReadRow, CommitRow, RowRaises, accounts
    <3> QED BY <1>1, <3>1 DEF OwnersStay, Visible
  <2>2. Visible(n, Scope[f])'
    BY <1>1, <2>1 DEF Visible
  <2> QED BY <1>1, <2>2 DEF AccountByNumber
<1>2. ASSUME UNCHANGED vars, NEW n \in References, NEW f \in Files
      PROVE  AccountByNumber(n, Scope[f])' = AccountByNumber(n, Scope[f])
  BY <1>2 DEF vars, AccountByNumber, Visible
<1>3. IInv /\ [Next]_vars =>
        [\A n \in References, f \in Files :
           Visible(n, Scope[f]) => AccountByNumber(n, Scope[f])' = AccountByNumber(n, Scope[f])]_vars
  BY <1>1, <1>2
<1> QED BY <1>3, Invariance, PTL DEF Spec, NumberWins

\* Whatever overlaps a back-out, stops another or has changed its rows: an upload is marked
\* only when each of its records was undone or was looked at and passed over.
THEOREM WhatCanIsUndone == Spec => BackOutIsThorough
<1>1. ASSUME IInv, ThoroughInv, Next, NEW f \in undone' \ undone
      PROVE  OfFile(f) \subseteq reversed \cup passed
  <2>1. \/ \E w \in Workers : Stops(w)
        \/ UNCHANGED undone
    BY <1>1, StepShape, ChangesFacts
    DEF IInv, Creates, Grows, Passes, RowFails, Takes, Finishes, Finish, Types, BackOutUpload,
        RefuseRow, ReadRow, CommitRow, RowRaises, records
  <2>2. PICK w \in Workers :
          Backing(w) /\ work[w].next > Len(work[w].todo) /\ undone' = undone \cup {work[w].file}
    BY <1>1, <2>1 DEF Stops
  <2>3. work[w].file = f /\ RecordsInv
    BY <1>1, <2>2 DEF IInv
  <2> SUFFICES ASSUME NEW r \in OfFile(f) PROVE r \in reversed \cup passed
    OBVIOUS
  <2>4. PICK k \in 1..Len(work[w].todo) : work[w].todo[k] = r
    BY <2>2, <2>3 DEF RecordsInv, BackInv, BackOf
  <2>5. k < work[w].next
    BY <2>2, <2>3, WorkType DEF RecordsInv
  <2> QED BY <1>1, <2>2, <2>4, <2>5 DEF ThoroughInv
<1>2. ASSUME UNCHANGED vars PROVE undone' \ undone = {}
  BY <1>2 DEF vars
<1>3. IInv /\ UndoingInv /\ [Next]_vars =>
        [\A f \in undone' \ undone : OfFile(f) \subseteq reversed \cup passed]_vars
  BY <1>1, <1>2 DEF UndoingInv
<1> QED BY <1>3, Invariance, PTL DEF Spec, BackOutIsThorough

=============================================================================
