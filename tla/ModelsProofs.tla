---------------------------- MODULE ModelsProofs ----------------------------
(***************************************************************************)
(* Theorems about Models: what holds for any banks, customers, labels and  *)
(* workers, and any thresholds and bounds.                                 *)
(***************************************************************************)
EXTENDS Models, FiniteSetTheorems, TLAPS

(***************************************************************************)
(* The inductive invariant.                                                *)
(***************************************************************************)

Work == [at: {"idle", "fitting", "activating"}, slot: Slots, data: SUBSET Labels, forced: BOOLEAN,
         model: Nat, previous: Nat, activated: 0..MaxSwitches, pool: SUBSET Banks, read: 0..MaxSwitches]

\* What was read: labels, of which banks and when.
Read(x) == x.data \in SUBSET Labels /\ x.pool \in SUBSET Banks /\ x.read \in 0..MaxSwitches

\* Whose labels may be in a model of a slot, and that they were pooled: a bank that has
\* left since left later.
DataOf(slot, seed, x) == x.read <= clock /\ \A l \in x.data :
  /\ slot \in Customers => OfCustomer[l] = slot
  /\ slot \in Banks /\ ~seed => OfBank[l] = slot
  /\ slot = Shared \/ seed =>
       /\ l \in Examples => l \in approved
       /\ OfBank[l] \in x.pool
       /\ source[OfBank[l]] = "private" => changed[OfBank[l]] > x.read

\* What a worker goes on with was so when it began: the labels it read, the slot of the
\* version it activates, the time.
WorkInv == \A w \in Workers :
  /\ work[w].activated <= clock
  /\ work[w].at = "fitting" => work[w].model = 0
  /\ work[w].model # 0 => models[work[w].model].slot = work[w].slot
  /\ work[w].at # "idle" /\ work[w].model = 0 => DataOf(work[w].slot, FALSE, work[w])

ModelsInv == \A m \in 1..Len(models) :
  /\ models[m].activated <= clock
  /\ DataOf(models[m].slot, models[m].seed, models[m])

\* As long as work does not overlap: one worker is at work, what it found active is still
\* active, and a slot has one active model.
SerialInv == ~overlap =>
  /\ \A w, v \in Workers : w # v => work[w].at = "idle" \/ work[v].at = "idle"
  /\ \A w \in Workers, s \in Slots :
       work[w].at = "activating" /\ work[w].slot = s => work[w].previous \in Previous(s)
  /\ \A s \in Slots : \A i, j \in Active(s) : i = j

IInv == /\ TypeOK /\ work \in [Workers -> Work]
        /\ WorkInv /\ ModelsInv /\ SerialInv

-----------------------------------------------------------------------------
(* Facts about the data.                                                   *)

LEMMA ConstantFacts ==
  /\ MaxSwitches \in Nat /\ MaxByHand \in Nat /\ MaxModels \in Nat
  /\ Shared \in Slots /\ Banks \subseteq Slots /\ Customers \subseteq Slots
  /\ Shared \notin Banks /\ Shared \notin Customers
  /\ \A b \in Banks : b \notin Customers
BY ModelsAssumption DEF Slots

LEMMA ModelType ==
  ASSUME NEW rows \in Seq(MlModel), NEW m \in 1..Len(rows)
  PROVE  /\ rows[m] \in MlModel /\ rows[m].slot \in Slots /\ rows[m].status \in {"active", "retired"}
         /\ rows[m].data \in SUBSET Labels /\ rows[m].seed \in BOOLEAN
         /\ rows[m].activated \in 0..MaxSwitches /\ Read(rows[m])
<1>1. rows[m] \in MlModel
  OBVIOUS
<1> QED BY <1>1 DEF MlModel, Read

LEMMA WorkType ==
  ASSUME work \in [Workers -> Work], NEW w \in Workers
  PROVE  /\ work[w] \in Work /\ work[w].at \in {"idle", "fitting", "activating"}
         /\ work[w].slot \in Slots /\ work[w].data \in SUBSET Labels
         /\ work[w].model \in Nat /\ work[w].previous \in Nat /\ work[w].activated \in 0..MaxSwitches
         /\ Read(work[w])
<1>1. work[w] \in Work
  OBVIOUS
<1> QED BY <1>1 DEF Work, Read

LEMMA IdleType == Idle \in Work /\ Idle.at = "idle" /\ Idle.model = 0 /\ Idle.previous = 0 /\ Idle.activated = 0
BY ConstantFacts DEF Idle, Work

\* A set of numbers all of which are the same has at most one.
LEMMA AtMostOne ==
  ASSUME NEW S, \A i, j \in S : i = j
  PROVE  IsFiniteSet(S) /\ Cardinality(S) <= 1
<1>1. CASE S = {}
  BY <1>1, FS_EmptySet
<1>2. CASE S # {}
  <2>1. PICK x : x \in S
    BY <1>2
  <2>2. IsFiniteSet({x}) /\ Cardinality({x}) = 1
    BY FS_Singleton
  <2>3. S = {x}
    BY <2>1
  <2> QED BY <2>2, <2>3
<1> QED BY <1>1, <1>2

\* The rows after an activation of m that retires p.
Turned(rows, after, m, p, at) ==
  /\ after \in Seq(MlModel) /\ Len(after) = Len(rows)
  /\ \A i \in 1..Len(rows) :
       /\ after[i].slot = rows[i].slot /\ after[i].data = rows[i].data /\ after[i].seed = rows[i].seed
       /\ after[i].pool = rows[i].pool /\ after[i].read = rows[i].read
       /\ after[i].status = IF i = m /\ i # p THEN "active"
                            ELSE IF i = p /\ i # m THEN "retired" ELSE rows[i].status
       /\ after[i].activated = IF i = m THEN at ELSE rows[i].activated

LEMMA ActivatedFacts ==
  ASSUME NEW rows \in Seq(MlModel), NEW w, NEW m \in 1..Len(rows), w.activated \in 0..MaxSwitches,
         m = IF w.model = 0 THEN Len(rows) ELSE w.model
  PROVE  Turned(rows, Activated(rows, w), m, w.previous, w.activated)
<1> DEFINE after == Activated(rows, w)
           row(i) == IF i = m /\ i # w.previous
                       THEN [rows[i] EXCEPT !.status = "active", !.activated = w.activated]
                     ELSE IF i = m THEN [rows[i] EXCEPT !.activated = w.activated]
                     ELSE IF i = w.previous THEN [rows[i] EXCEPT !.status = "retired"]
                     ELSE rows[i]
<1>1. after = [i \in 1..Len(rows) |-> row(i)]
  BY DEF Activated
<1>2. ASSUME NEW i \in 1..Len(rows)
      PROVE  /\ row(i) \in MlModel
             /\ row(i).slot = rows[i].slot /\ row(i).data = rows[i].data /\ row(i).seed = rows[i].seed
             /\ row(i).pool = rows[i].pool /\ row(i).read = rows[i].read
             /\ row(i).status = IF i = m /\ i # w.previous THEN "active"
                                ELSE IF i = w.previous /\ i # m THEN "retired" ELSE rows[i].status
             /\ row(i).activated = IF i = m THEN w.activated ELSE rows[i].activated
  <2>1. rows[i] \in MlModel
    BY ModelType
  <2>2. CASE i = m /\ i # w.previous
    BY <2>1, <2>2 DEF MlModel
  <2>3. CASE i = m /\ i = w.previous
    BY <2>1, <2>3 DEF MlModel
  <2>4. CASE i # m /\ i = w.previous
    BY <2>1, <2>4 DEF MlModel
  <2>5. CASE i # m /\ i # w.previous
    BY <2>1, <2>5 DEF MlModel
  <2> QED BY <2>2, <2>3, <2>4, <2>5
<1> HIDE DEF row, after
<1>3. Len(rows) \in Nat
  OBVIOUS
<1>4. after \in Seq(MlModel) /\ Len(after) = Len(rows) /\ \A i \in 1..Len(rows) : after[i] = row(i)
  BY <1>1, <1>2, <1>3
<1>5. Turned(rows, after, m, w.previous, w.activated)
  BY <1>2, <1>4 DEF Turned
<1> QED BY <1>5 DEF after

LEMMA AppendFacts ==
  ASSUME NEW rows \in Seq(MlModel), NEW row \in MlModel
  PROVE  /\ Append(rows, row) \in Seq(MlModel) /\ Len(rows) \in Nat
         /\ Len(Append(rows, row)) = Len(rows) + 1
         /\ Append(rows, row)[Len(rows) + 1] = row
         /\ \A i \in 1..Len(rows) : Append(rows, row)[i] = rows[i]
OBVIOUS

\* A new row, or with yes = TRUE a copy.
LEMMA NewRowFacts ==
  ASSUME NEW slot \in Slots, NEW from, Read(from), NEW yes \in BOOLEAN
  PROVE  LET row == NewRow(slot, from, yes) IN
         /\ row \in MlModel /\ row.slot = slot /\ row.data = from.data /\ row.seed = yes
         /\ row.pool = from.pool /\ row.read = from.read
         /\ row.status = "retired" /\ row.activated = 0
BY ConstantFacts DEF NewRow, MlModel, Read

-----------------------------------------------------------------------------
(* What an activation leaves active.                                       *)

\* rows are the models, and perhaps one more that is not active.
Extends(rows) ==
  /\ rows \in Seq(MlModel) /\ Len(models) <= Len(rows) /\ Len(rows) <= Len(models) + 1
  /\ \A i \in 1..Len(models) : rows[i] = models[i]
  /\ \A i \in 1..Len(rows) : i > Len(models) => rows[i].status = "retired"

LEMMA TurnedFacts ==
  ASSUME models \in Seq(MlModel), NEW rows, Extends(rows), NEW m \in 1..Len(rows), NEW p \in 0..Len(models),
         NEW at, Turned(rows, models', m, p, at), p # 0 => models[p].slot = rows[m].slot
  PROVE  /\ \A s \in Slots : s # rows[m].slot => Active(s)' = Active(s)
         /\ p \in Previous(rows[m].slot) /\ (\A i, j \in Active(rows[m].slot) : i = j) =>
              \A i : i \in Active(rows[m].slot)' <=> i = m
<1> DEFINE slot == rows[m].slot
<1>0. Len(models) \in Nat /\ Len(rows) \in Nat /\ Len(models') = Len(rows)
  BY DEF Extends, Turned
<1>1. ASSUME NEW i \in 1..Len(rows)
      PROVE  /\ models'[i].slot = rows[i].slot
             /\ models'[i].status = IF i = m /\ i # p THEN "active"
                                    ELSE IF i = p /\ i # m THEN "retired" ELSE rows[i].status
  BY DEF Turned
<1>2. ASSUME NEW i \in 1..Len(rows), rows[i].status = "active"
      PROVE  i \in 1..Len(models) /\ rows[i] = models[i]
  <2>1. i \in 1..Len(models)
    BY <1>0, <1>2 DEF Extends
  <2> QED BY <2>1 DEF Extends
<1>3. ASSUME NEW s \in Slots, s # slot PROVE Active(s)' = Active(s)
  <2>1. ASSUME NEW i \in Active(s)' PROVE i \in Active(s)
    <3>1. i \in 1..Len(rows) /\ rows[i].slot = s /\ models'[i].status = "active"
      BY <1>0, <1>1, <2>1 DEF Active
    <3>2. i # m
      BY <1>3, <3>1
    <3>3. rows[i].status = "active"
      BY <1>1, <3>1, <3>2
    <3> QED BY <1>2, <3>1, <3>3 DEF Active
  <2>2. ASSUME NEW i \in Active(s) PROVE i \in Active(s)'
    <3>1. /\ i \in 1..Len(models) /\ i \in 1..Len(rows) /\ rows[i] = models[i]
          /\ rows[i].slot = s /\ rows[i].status = "active"
      BY <1>0, <2>2 DEF Active, Extends
    <3>2. i # m /\ i # p
      BY <1>3, <3>1
    <3> QED BY <1>0, <1>1, <3>1, <3>2 DEF Active
  <2> QED BY <2>1, <2>2
<1>4. ASSUME p \in Previous(slot), \A i, j \in Active(slot) : i = j, NEW i
      PROVE  i \in Active(slot)' <=> i = m
  <2>s. slot = rows[m].slot
    OBVIOUS
  <2> HIDE DEF slot
  <2>1. PICK s : s = slot
    OBVIOUS
  <2>2. ASSUME i \in 1..Len(rows), rows[i].slot = s, models'[i].status = "active" PROVE i = m
    <3>1. SUFFICES ASSUME i # m PROVE FALSE
      OBVIOUS
    <3>2. i # p /\ rows[i].status = "active"
      BY <1>1, <2>2, <3>1
    <3>3. i \in Active(slot)
      BY <1>2, <2>1, <2>2, <3>2 DEF Active
    <3>4. p \in Active(slot)
      BY <1>4, <3>3 DEF Previous
    <3> QED BY <1>4, <3>2, <3>3, <3>4
  <2>3. models'[m].slot = s /\ models'[m].status = "active"
    <3>1. CASE m # p
      BY <1>1, <2>s, <2>1, <3>1
    <3>2. CASE m = p
      <4>1. p # 0
        BY <1>0, <3>2
      <4>2. p \in Active(slot)
        BY <1>4, <4>1 DEF Previous
      <4>3. models[p].status = "active" /\ rows[p] = models[p]
        BY <4>2 DEF Active, Extends
      <4> QED BY <1>1, <2>s, <2>1, <3>2, <4>3
    <3> QED BY <3>1, <3>2
  <2>4. i \in Active(s)' <=> i \in 1..Len(rows) /\ rows[i].slot = s /\ models'[i].status = "active"
    BY <1>0, <1>1 DEF Active
  <2>5. rows[m].slot = s
    BY <2>s, <2>1
  <2>6. i \in Active(s)' <=> i = m
    BY <2>2, <2>3, <2>4, <2>5
  <2> QED BY <2>1, <2>6
<1> QED BY <1>3, <1>4

-----------------------------------------------------------------------------
(***************************************************************************)
(* The steps.                                                              *)
(***************************************************************************)

Types == TypeOK /\ work \in [Workers -> Work]

LEMMA SameActive ==
  ASSUME UNCHANGED models
  PROVE  \A s : Active(s)' = Active(s) /\ Previous(s)' = Previous(s)
BY DEF Active, Previous

\* Labels come, go and are approved; the models stay as they are.
LEMMA LabelStep ==
  ASSUME IInv, NEW l \in Labels, Label(l) \/ RetractFraudExample(l) \/ ApproveFraudExample(l)
  PROVE  IInv'
<1>1. /\ UNCHANGED <<source, changed, models, work, clock, overlap, byHand>>
      /\ approved \subseteq approved' /\ approved' \subseteq Examples
      /\ label' \in [Labels -> {"absent", "kept", "retracted"}]
  BY DEF IInv, TypeOK, Label, RetractFraudExample, ApproveFraudExample, tenant
<1>2. TypeOK' /\ work' \in [Workers -> Work]
  BY <1>1 DEF IInv, TypeOK
<1>3. WorkInv'
  BY <1>1 DEF IInv, WorkInv, DataOf
<1>4. ModelsInv'
  BY <1>1 DEF IInv, ModelsInv, DataOf
<1>5. \A s : Active(s)' = Active(s) /\ Previous(s)' = Previous(s)
  BY <1>1, SameActive
<1>6. SerialInv'
  BY <1>1, <1>5 DEF IInv, SerialInv
<1> QED BY <1>2, <1>3, <1>4, <1>6 DEF IInv

\* A worker that begins, goes on or gives up, while the models stay as they are.
LEMMA WorkFrame ==
  ASSUME IInv, NEW w \in Workers, NEW new \in Work, work' = [work EXCEPT ![w] = new],
         UNCHANGED <<tenant, labels, models, clock>>,
         new.activated <= clock, new.at = "fitting" => new.model = 0,
         new.model \in 0..Len(models), new.previous \in 0..Len(models),
         new.model # 0 => models[new.model].slot = new.slot,
         new.previous # 0 => models[new.previous].slot = new.slot,
         new.at # "idle" /\ new.model = 0 => DataOf(new.slot, FALSE, new),
         byHand' \in 0..MaxByHand,
         \/ work[w].at # "idle" /\ UNCHANGED overlap
         \/ overlap' = (overlap \/ Busy),
         ~overlap' /\ new.at = "activating" => new.previous \in Previous(new.slot)
  PROVE  IInv'
<1>0. TypeOK /\ work \in [Workers -> Work] /\ WorkInv /\ ModelsInv /\ SerialInv
  BY DEF IInv
<1>1. /\ work' \in [Workers -> Work] /\ work'[w] = new
      /\ \A v \in Workers \ {w} : work'[v] = work[v]
  BY <1>0
<1>2. UNCHANGED <<source, changed, label, approved, models, clock>>
  BY DEF tenant, labels
<1>3. ~overlap' => ~overlap /\ \A v \in Workers \ {w} : work[v].at = "idle"
  <2>1. CASE work[w].at # "idle" /\ UNCHANGED overlap
    BY <1>0, <2>1 DEF SerialInv
  <2>2. CASE overlap' = (overlap \/ Busy)
    BY <2>2 DEF Busy
  <2> QED BY <2>1, <2>2
<1>4. TypeOK'
  <2>1. \A v \in Workers :
          /\ work'[v].at \in {"idle", "fitting", "activating"}
          /\ work'[v].model \in 0..Len(models) /\ work'[v].previous \in 0..Len(models)
          /\ work'[v].previous # 0 => models[work'[v].previous].slot = work'[v].slot
    BY <1>0, <1>1, WorkType DEF TypeOK, Work
  <2>2. overlap' \in BOOLEAN
    BY <1>0 DEF TypeOK
  <2> QED BY <1>0, <1>2, <2>1, <2>2 DEF TypeOK
<1>5. WorkInv'
  <2>2. \A v \in Workers \ {w} :
          /\ work'[v].activated <= clock'
          /\ work'[v].at = "fitting" => work'[v].model = 0
          /\ work'[v].model # 0 => models'[work'[v].model].slot = work'[v].slot
          /\ work'[v].at # "idle" /\ work'[v].model = 0 => DataOf(work'[v].slot, FALSE, work'[v])
    BY <1>0, <1>1, <1>2 DEF WorkInv, DataOf
  <2>3. \A v \in Workers :
          /\ work'[v].activated <= clock'
          /\ work'[v].at = "fitting" => work'[v].model = 0
          /\ work'[v].model # 0 => models'[work'[v].model].slot = work'[v].slot
          /\ work'[v].at # "idle" /\ work'[v].model = 0 => DataOf(work'[v].slot, FALSE, work'[v])
    BY <1>1, <1>2, <2>2
  <2> QED BY <1>2, <2>3 DEF WorkInv, DataOf
<1>6. ModelsInv'
  BY <1>0, <1>2 DEF ModelsInv, DataOf
<1>7. SerialInv'
  <2>1. ASSUME ~overlap'
        PROVE  /\ \A u, v \in Workers : u # v => work'[u].at = "idle" \/ work'[v].at = "idle"
               /\ \A v \in Workers, s \in Slots :
                    work'[v].at = "activating" /\ work'[v].slot = s => work'[v].previous \in Previous(s)
               /\ \A s \in Slots : \A i, j \in Active(s) : i = j
    <3>1. \A v \in Workers \ {w} : work'[v].at = "idle"
      BY <1>1, <1>3, <2>1
    <3> QED BY <1>0, <1>1, <1>3, <2>1, <3>1 DEF SerialInv
  <2>2. \A s : Active(s)' = Active(s) /\ Previous(s)' = Previous(s)
    BY <1>2, SameActive
  <2> QED BY <1>2, <2>1, <2>2 DEF SerialInv
<1> QED BY <1>1, <1>4, <1>5, <1>6, <1>7 DEF IInv

LEMMA LoadedFacts ==
  ASSUME NEW slot \in Slots, NEW x, x.data = LoadLabeledDecisions(slot),
         x.pool = {b \in Banks : source[b] = "shared"}, x.read = clock, clock \in 0..MaxSwitches
  PROVE  Read(x) /\ DataOf(slot, FALSE, x)
<1>1. LoadLabeledDecisions(slot) \in SUBSET Labels /\ clock <= clock
  BY ConstantFacts DEF LoadLabeledDecisions
<1>2. Read(x)
  BY <1>1 DEF Read
<1>3. ASSUME NEW l \in x.data
      PROVE  /\ slot \in Customers => OfCustomer[l] = slot
             /\ slot \in Banks => OfBank[l] = slot
             /\ slot = Shared => /\ l \in Examples => l \in approved
                                /\ OfBank[l] \in Banks /\ source[OfBank[l]] = "shared"
  BY <1>1, <1>3, ModelsAssumption DEF LoadLabeledDecisions
<1>4. \A b \in Banks : source[b] = "shared" => b \in x.pool
  OBVIOUS
<1> QED BY <1>1, <1>2, <1>3, <1>4 DEF DataOf

LEMMA TrainStep ==
  ASSUME IInv, NEW w \in Workers, NEW slot \in Slots, NEW forced \in BOOLEAN, Train(w, slot, forced)
  PROVE  IInv'
<1>0. TypeOK /\ Len(models) \in Nat /\ clock \in 0..MaxSwitches
  BY DEF IInv, TypeOK
<1>1. PICK data \in SUBSET Labels, pool \in SUBSET Banks, read \in 0..MaxSwitches :
        /\ data = LoadLabeledDecisions(slot) /\ pool = {b \in Banks : source[b] = "shared"}
        /\ read = clock
  <2>1. LoadLabeledDecisions(slot) \in SUBSET Labels
    BY DEF LoadLabeledDecisions
  <2> QED BY <1>0, <2>1
<1>n. PICK new : new = [Idle EXCEPT !.at = "fitting", !.slot = slot, !.data = data, !.forced = forced,
                                   !.pool = pool, !.read = read]
  OBVIOUS
<1>2. /\ work' = [work EXCEPT ![w] = new] /\ overlap' = (overlap \/ Busy)
      /\ UNCHANGED <<tenant, labels, models, clock>> /\ byHand' = byHand
  BY <1>1, <1>n DEF Train
<1>3. /\ new \in Work /\ new.at = "fitting" /\ new.slot = slot /\ new.data = data
      /\ new.pool = pool /\ new.read = read
      /\ new.model = 0 /\ new.previous = 0 /\ new.activated = 0
  <2>1. "fitting" \in {"idle", "fitting", "activating"} /\ 0 \in 0..MaxSwitches /\ 0 \in Nat
    BY ConstantFacts
  <2> QED BY <1>n, <2>1 DEF Work, Idle
<1>4. DataOf(slot, FALSE, new)
  BY <1>0, <1>1, <1>3, LoadedFacts
<1>5. 0 \in 0..Len(models) /\ 0 <= clock /\ byHand' \in 0..MaxByHand
  BY <1>0, <1>2, ConstantFacts DEF TypeOK
<1> QED BY <1>2, <1>3, <1>4, <1>5, WorkFrame

LEMMA PreviousFacts ==
  ASSUME models \in Seq(MlModel), NEW slot \in Slots, NEW p \in Previous(slot)
  PROVE  p \in 0..Len(models) /\ p \in Nat /\ (p # 0 => models[p].slot = slot /\ models[p].status = "active")
<1>1. Len(models) \in Nat
  OBVIOUS
<1> QED BY <1>1 DEF Previous, Active

LEMMA PromoteStep ==
  ASSUME IInv, NEW w \in Workers, Promote(w)
  PROVE  IInv'
<1>0. /\ TypeOK /\ work \in [Workers -> Work] /\ WorkInv /\ SerialInv
      /\ models \in Seq(MlModel) /\ clock \in 0..MaxSwitches
  BY DEF IInv, TypeOK
<1>1. /\ work[w] \in Work /\ work[w].slot \in Slots /\ work[w].at = "fitting" /\ work[w].model = 0
  BY <1>0, WorkType DEF Promote, WorkInv
<1>2. PICK p \in Previous(work[w].slot) :
        work' = [work EXCEPT ![w].at = "activating", ![w].previous = p, ![w].activated = clock]
  BY DEF Promote
<1>3. p \in 0..Len(models) /\ p \in Nat /\ (p # 0 => models[p].slot = work[w].slot)
  BY <1>0, <1>1, PreviousFacts
<1>4. PICK old \in Work, at \in 0..MaxSwitches : old = work[w] /\ at = clock
  BY <1>0, <1>1
<1> DEFINE new == [old EXCEPT !.at = "activating", !.previous = p, !.activated = at]
<1>5. /\ work' = [work EXCEPT ![w] = new]
      /\ new \in Work /\ new.at = "activating" /\ new.previous = p /\ new.activated = clock
      /\ new.slot = work[w].slot /\ new.data = work[w].data /\ new.model = 0
      /\ new.pool = work[w].pool /\ new.read = work[w].read
  <2>1. work' = [work EXCEPT ![w] = new]
    BY <1>0, <1>2, <1>4
  <2>2. /\ new \in Work /\ new.at = "activating" /\ new.previous = p /\ new.activated = at
        /\ new.slot = old.slot /\ new.data = old.data /\ new.model = old.model
        /\ new.pool = old.pool /\ new.read = old.read
    <3>1. "activating" \in {"idle", "fitting", "activating"}
      OBVIOUS
    <3> QED BY <1>3, <3>1 DEF Work
  <2> QED BY <1>1, <1>4, <2>1, <2>2
<1> HIDE DEF new
<1>6. UNCHANGED <<tenant, labels, models, clock, overlap, byHand>>
  BY DEF Promote
<1>7. /\ 0 \in 0..Len(models) /\ clock <= clock
      /\ byHand \in 0..MaxByHand
  BY <1>0, ConstantFacts DEF TypeOK
<1>8. DataOf(new.slot, FALSE, new)
  <2>1. DataOf(work[w].slot, FALSE, work[w])
    BY <1>0, <1>1 DEF WorkInv
  <2> QED BY <1>5, <2>1 DEF DataOf
<1> QED BY <1>1, <1>2, <1>3, <1>5, <1>6, <1>7, <1>8, WorkFrame

LEMMA TrainFailsStep ==
  ASSUME IInv, NEW w \in Workers, TrainFails(w)
  PROVE  IInv'
<1>1. /\ work[w].at # "idle" /\ work' = [work EXCEPT ![w] = Idle]
      /\ UNCHANGED <<tenant, labels, models, clock, overlap, byHand>>
  BY DEF TrainFails
<1>2. /\ 0 \in 0..Len(models) /\ 0 <= clock /\ byHand \in 0..MaxByHand
  BY ConstantFacts DEF IInv, TypeOK
<1> QED BY <1>1, <1>2, IdleType, WorkFrame

LEMMA ByHandStep ==
  ASSUME IInv, NEW w \in Workers, NEW m \in 1..Len(models), ByHand(w, m)
  PROVE  IInv'
<1>0. /\ TypeOK /\ models \in Seq(MlModel) /\ clock \in 0..MaxSwitches /\ byHand \in 0..MaxByHand
      /\ Len(models) \in Nat
  BY DEF IInv, TypeOK
<1>1. PICK slot \in Slots : slot = models[m].slot
  BY <1>0, ModelType
<1>2. PICK p \in Previous(slot) :
        work' = [work EXCEPT ![w] = [Idle EXCEPT !.at = "activating", !.slot = slot,
                                       !.model = m, !.previous = p, !.activated = clock]]
  BY <1>1 DEF ByHand
<1>3. p \in 0..Len(models) /\ p \in Nat /\ (p # 0 => models[p].slot = slot)
  BY <1>0, PreviousFacts
<1>4. m \in Nat /\ m # 0 /\ m \in 0..Len(models)
  BY <1>0
<1>5. PICK at \in 0..MaxSwitches : at = clock
  BY <1>0
<1> DEFINE new == [Idle EXCEPT !.at = "activating", !.slot = slot, !.model = m, !.previous = p,
                               !.activated = at]
<1>6. /\ work' = [work EXCEPT ![w] = new]
      /\ new \in Work /\ new.at = "activating" /\ new.previous = p /\ new.activated = clock
      /\ new.slot = slot /\ new.model = m
  <2>1. work' = [work EXCEPT ![w] = new]
    BY <1>2, <1>5
  <2>2. /\ new \in Work /\ new.at = "activating" /\ new.previous = p /\ new.activated = at
        /\ new.slot = slot /\ new.model = m
    <3>1. "activating" \in {"idle", "fitting", "activating"} /\ Idle \in Work
      BY IdleType
    <3> QED BY <1>3, <1>4, <3>1 DEF Work
  <2> QED BY <1>5, <2>1, <2>2
<1> HIDE DEF new
<1>7. /\ UNCHANGED <<tenant, labels, models, clock>>
      /\ overlap' = (overlap \/ Busy) /\ byHand' = byHand + 1 /\ byHand < MaxByHand
  BY DEF ByHand
<1>8. clock <= clock /\ byHand' \in 0..MaxByHand
  BY <1>0, <1>7, ConstantFacts
<1> QED BY <1>1, <1>2, <1>3, <1>4, <1>6, <1>7, <1>8, WorkFrame

-----------------------------------------------------------------------------
(* The steps that change the models.                                       *)

\* Whoever is at work goes on as it was, or is done.
GoOn == /\ work' \in [Workers -> Work]
        /\ \A v \in Workers : work'[v] = work[v] \/ work'[v] = Idle
        /\ byHand' = byHand

\* The models keep their slots, and none goes.
Kept == /\ models' \in Seq(MlModel) /\ Len(models) \in Nat /\ Len(models) <= Len(models')
        /\ \A i \in 1..Len(models) : models'[i].slot = models[i].slot

\* Time does not go back, and what is changed is changed now.
Later == /\ clock' \in 0..MaxSwitches /\ clock <= clock'
         /\ source' \in [Banks -> {"shared", "private"}]
         /\ changed' \in [Banks -> 0..MaxSwitches]
         /\ overlap' \in BOOLEAN /\ UNCHANGED labels
         /\ \A b \in Banks : \/ source'[b] = source[b] /\ changed'[b] = changed[b]
                            \/ source'[b] = "shared" \/ changed'[b] > clock

\* What was read stays pooled: a bank that leaves, leaves later.
LEMMA DataKept ==
  ASSUME IInv, Later, NEW slot, NEW seed, NEW x, Read(x), DataOf(slot, seed, x)
  PROVE  DataOf(slot, seed, x)'
<1>1. /\ clock \in Nat /\ clock' \in Nat /\ clock <= clock' /\ x.read \in Nat /\ x.read <= clock
      /\ UNCHANGED approved /\ x.read <= clock'
  BY ConstantFacts DEF IInv, TypeOK, Later, labels, Read, DataOf
<1>2. ASSUME NEW l \in x.data, slot = Shared \/ seed, source'[OfBank[l]] = "private"
      PROVE  changed'[OfBank[l]] > x.read
  <2>1. PICK b \in Banks : b = OfBank[l]
    BY ModelsAssumption DEF Read
  <2>2. source[b] = "private" => changed[b] > x.read
    BY <1>2, <2>1 DEF DataOf
  <2>3. source'[b] = "private" /\ source'[b] # "shared"
    BY <1>2, <2>1
  <2>4. changed'[b] \in Nat
    BY ConstantFacts DEF Later
  <2>5. CASE source'[b] = source[b] /\ changed'[b] = changed[b]
    BY <2>1, <2>2, <2>3, <2>5
  <2>6. CASE changed'[b] > clock
    BY <1>1, <2>1, <2>4, <2>6
  <2> QED BY <2>3, <2>5, <2>6 DEF Later
<1> QED BY <1>1, <1>2 DEF DataOf

LEMMA WorkKept ==
  ASSUME IInv, GoOn, Kept, Later
  PROVE  TypeOK' /\ WorkInv'
<1>0. /\ TypeOK /\ work \in [Workers -> Work] /\ WorkInv
      /\ clock \in Nat /\ clock' \in Nat /\ clock <= clock' /\ Len(models') \in Nat
  BY ConstantFacts DEF IInv, TypeOK, Later, Kept
<1>1. UNCHANGED <<label, approved>> /\ byHand' = byHand
  BY DEF Later, labels, GoOn
<1>2. ASSUME NEW v \in Workers
      PROVE  /\ work'[v].at \in {"idle", "fitting", "activating"}
             /\ work'[v].model \in 0..Len(models') /\ work'[v].previous \in 0..Len(models')
             /\ work'[v].previous # 0 => models'[work'[v].previous].slot = work'[v].slot
             /\ work'[v].activated <= clock'
             /\ work'[v].at = "fitting" => work'[v].model = 0
             /\ work'[v].model # 0 => models'[work'[v].model].slot = work'[v].slot
             /\ work'[v].at # "idle" /\ work'[v].model = 0 => DataOf(work[v].slot, FALSE, work[v])'
  <2>1. CASE work'[v] = Idle
    BY <1>0, <2>1, IdleType
  <2>2. CASE work'[v] = work[v]
    <3>1. /\ work[v].at \in {"idle", "fitting", "activating"}
          /\ work[v].model \in 0..Len(models) /\ work[v].previous \in 0..Len(models)
          /\ work[v].previous # 0 => models[work[v].previous].slot = work[v].slot
      BY <1>0 DEF TypeOK
    <3>2. work[v].model \in Nat /\ work[v].previous \in Nat /\ work[v].activated \in Nat
      BY <1>0, WorkType, ConstantFacts
    <3>3. /\ work[v].activated <= clock
          /\ work[v].at = "fitting" => work[v].model = 0
          /\ work[v].model # 0 => models[work[v].model].slot = work[v].slot
          /\ work[v].at # "idle" /\ work[v].model = 0 => DataOf(work[v].slot, FALSE, work[v])
      BY <1>0 DEF WorkInv
    <3>4. /\ work[v].model \in 0..Len(models') /\ work[v].previous \in 0..Len(models')
          /\ work[v].previous # 0 => models'[work[v].previous].slot = work[v].slot
          /\ work[v].model # 0 => models'[work[v].model].slot = work[v].slot
      BY <1>0, <3>1, <3>2, <3>3 DEF Kept
    <3>5. work[v].activated <= clock'
      BY <1>0, <3>2, <3>3
    <3>6. work[v].at # "idle" /\ work[v].model = 0 => DataOf(work[v].slot, FALSE, work[v])'
      <4>1. PICK x, slot : x = work[v] /\ slot = work[v].slot
        OBVIOUS
      <4>2. Read(x) /\ work'[v] = x /\ work'[v].slot = slot
        BY <1>0, <2>2, <4>1, WorkType
      <4>3. ASSUME DataOf(slot, FALSE, x) PROVE DataOf(slot, FALSE, x)'
        BY <4>2, <4>3, DataKept
      <4> QED BY <3>3, <4>1, <4>2, <4>3
    <3> QED BY <2>2, <3>1, <3>3, <3>4, <3>5, <3>6
  <2> QED BY <2>1, <2>2 DEF GoOn
<1>3. TypeOK'
  BY <1>0, <1>1, <1>2 DEF TypeOK, Later, Kept
<1>4. WorkInv'
  BY <1>1, <1>2 DEF WorkInv
<1> QED BY <1>3, <1>4

\* The models are the rows, or what an activation made of them.
LEMMA RowsKept ==
  ASSUME IInv, Later, NEW rows, Extends(rows),
         \A i \in 1..Len(rows) : i > Len(models) =>
           rows[i].activated = 0 /\ DataOf(rows[i].slot, rows[i].seed, rows[i]),
         \/ models' = rows
         \/ \E m \in 1..Len(rows), p \in 0..Len(models), at \in 0..MaxSwitches :
              at <= clock' /\ Turned(rows, models', m, p, at)
  PROVE  Kept /\ ModelsInv'
<1>0. /\ TypeOK /\ models \in Seq(MlModel) /\ Len(models) \in Nat /\ ModelsInv
      /\ rows \in Seq(MlModel) /\ Len(rows) \in Nat
      /\ clock \in Nat /\ clock' \in Nat /\ clock <= clock' /\ approved' = approved
  BY ConstantFacts DEF IInv, TypeOK, Later, labels, Extends
<1>1. ASSUME NEW i \in 1..Len(rows)
      PROVE  rows[i].activated <= clock /\ DataOf(rows[i].slot, rows[i].seed, rows[i])
  <2>1. CASE i \in 1..Len(models)
    BY <1>0, <2>1 DEF ModelsInv, Extends
  <2>2. CASE i > Len(models)
    BY <1>0, <2>2
  <2> QED BY <1>0, <2>1, <2>2
<1>2. ASSUME NEW i \in 1..Len(rows) PROVE rows[i].activated \in Nat
  BY <1>0, ModelType, ConstantFacts
<1>3. /\ models' \in Seq(MlModel) /\ Len(models') = Len(rows)
      /\ \A i \in 1..Len(rows) :
           /\ models'[i].slot = rows[i].slot /\ models'[i].data = rows[i].data /\ models'[i].seed = rows[i].seed
           /\ models'[i].pool = rows[i].pool /\ models'[i].read = rows[i].read
           /\ models'[i].activated <= clock'
  <2>1. CASE models' = rows
    BY <1>0, <1>1, <1>2, <2>1
  <2>2. CASE \E m \in 1..Len(rows), p \in 0..Len(models), at \in 0..MaxSwitches :
               at <= clock' /\ Turned(rows, models', m, p, at)
    <3>1. PICK m \in 1..Len(rows), p \in 0..Len(models), at \in 0..MaxSwitches :
            at <= clock' /\ Turned(rows, models', m, p, at)
      BY <2>2
    <3>2. ASSUME NEW i \in 1..Len(rows) PROVE models'[i].activated <= clock'
      <4>1. models'[i].activated = at \/ models'[i].activated = rows[i].activated
        BY <3>1 DEF Turned
      <4> QED BY <1>0, <1>1, <1>2, <3>1, <4>1
    <3> QED BY <3>1, <3>2 DEF Turned
  <2> QED BY <2>1, <2>2
<1>4. Kept
  BY <1>0, <1>3 DEF Kept, Extends
<1>5. ASSUME NEW i \in 1..Len(models')
      PROVE  models'[i].activated <= clock' /\ DataOf(models[i].slot, models[i].seed, models[i])'
  <2>1. PICK x, slot, seed : x = rows[i] /\ slot = rows[i].slot /\ seed = rows[i].seed
    OBVIOUS
  <2>2. i \in 1..Len(rows) /\ Read(x) /\ DataOf(slot, seed, x)
    BY <1>0, <1>1, <1>3, <2>1, ModelType
  <2>3. DataOf(slot, seed, x)'
    BY <2>2, DataKept
  <2>4. PICK y : y = models'[i]
    OBVIOUS
  <2>5. y.data = x.data /\ y.pool = x.pool /\ y.read = x.read /\ y.slot = slot /\ y.seed = seed
    BY <1>3, <2>1, <2>2, <2>4
  <2>6. DataOf(slot, seed, y)'
    BY <2>3, <2>5 DEF DataOf
  <2> QED BY <1>3, <2>2, <2>4, <2>5, <2>6
<1>6. ModelsInv'
  BY <1>0, <1>5 DEF ModelsInv
<1> QED BY <1>4, <1>6

\* No one is at work any more.
LEMMA SerialKept ==
  ASSUME ~overlap' => /\ \A v \in Workers : work'[v].at = "idle"
                      /\ \A s \in Slots : \A i, j \in Active(s)' : i = j
  PROVE  SerialInv'
BY DEF SerialInv

\* The rows with one more.
LEMMA OneMore ==
  ASSUME IInv, NEW row \in MlModel, row.status = "retired", row.activated = 0,
         DataOf(row.slot, row.seed, row)
  PROVE  LET rows == Append(models, row) IN
         /\ Extends(rows) /\ Len(rows) = Len(models) + 1 /\ rows[Len(rows)] = row
         /\ \A i \in 1..Len(rows) : i > Len(models) =>
              rows[i].activated = 0 /\ DataOf(rows[i].slot, rows[i].seed, rows[i])
<1>1. models \in Seq(MlModel) /\ Len(models) \in Nat
  BY DEF IInv, TypeOK
<1> DEFINE rows == Append(models, row)
<1>2. /\ rows \in Seq(MlModel) /\ Len(rows) = Len(models) + 1 /\ rows[Len(models) + 1] = row
      /\ \A i \in 1..Len(models) : rows[i] = models[i]
  BY <1>1, AppendFacts
<1> HIDE DEF rows
<1>3. \A i \in 1..Len(rows) : i > Len(models) => i = Len(models) + 1
  BY <1>1, <1>2
<1>4. Extends(rows)
  BY <1>1, <1>2, <1>3 DEF Extends
<1>5. rows[Len(rows)] = row
  BY <1>2
<1>6. \A i \in 1..Len(rows) : i > Len(models) =>
        rows[i].activated = 0 /\ DataOf(rows[i].slot, rows[i].seed, rows[i])
  BY <1>2, <1>3
<1> QED BY <1>2, <1>4, <1>5, <1>6 DEF rows

LEMMA NotPromotedStep ==
  ASSUME IInv, NEW w \in Workers, NotPromoted(w)
  PROVE  IInv'
<1>0. /\ TypeOK /\ work \in [Workers -> Work] /\ WorkInv /\ SerialInv
      /\ models \in Seq(MlModel) /\ Len(models) \in Nat
  BY DEF IInv, TypeOK
<1>1. PICK slot \in Slots, from \in Work, no \in BOOLEAN :
        /\ slot = work[w].slot /\ from = work[w] /\ no = FALSE
        /\ work[w].at = "fitting" /\ Read(from) /\ DataOf(slot, FALSE, from)
  <2>1. work[w].at = "fitting" /\ DataOf(work[w].slot, FALSE, work[w])
    BY <1>0 DEF NotPromoted, WorkInv
  <2>2. work[w] \in Work /\ work[w].slot \in Slots /\ Read(work[w])
    BY <1>0, WorkType
  <2> QED BY <2>1, <2>2
<1> DEFINE row == NewRow(slot, from, no)
           rows == Append(models, row)
<1>2. /\ models' = rows /\ work' = [work EXCEPT ![w] = Idle]
      /\ UNCHANGED <<source, changed, label, approved, clock, overlap, byHand>>
  BY <1>1 DEF NotPromoted, tenant, labels
<1>3. /\ row \in MlModel /\ row.slot = slot /\ row.data = from.data /\ row.seed = FALSE
      /\ row.pool = from.pool /\ row.read = from.read
      /\ row.status = "retired" /\ row.activated = 0
  BY <1>1, NewRowFacts
<1> HIDE DEF row
<1>d. DataOf(row.slot, row.seed, row)
  BY <1>1, <1>3 DEF DataOf
<1>4. /\ Extends(rows) /\ Len(rows) = Len(models) + 1
      /\ \A i \in 1..Len(rows) : i > Len(models) =>
           rows[i].activated = 0 /\ DataOf(rows[i].slot, rows[i].seed, rows[i])
  BY <1>3, <1>d, OneMore
<1> HIDE DEF rows
<1>5. GoOn /\ Later
  BY <1>0, <1>2, IdleType, ConstantFacts DEF GoOn, Later, labels, TypeOK
<1>6. Kept /\ ModelsInv'
  BY <1>2, <1>4, <1>5, RowsKept
<1>7. TypeOK' /\ WorkInv'
  BY <1>5, <1>6, WorkKept
<1>8. ASSUME NEW s \in Slots PROVE Active(s)' = Active(s)
  <2>1. ASSUME NEW i \in Active(s)' PROVE i \in Active(s)
    <3>1. i \in 1..Len(rows) /\ rows[i].slot = s /\ rows[i].status = "active"
      BY <1>2, <2>1 DEF Active
    <3>2. i \in 1..Len(models)
      BY <1>0, <1>4, <3>1 DEF Extends
    <3> QED BY <1>4, <3>1, <3>2 DEF Active, Extends
  <2>2. ASSUME NEW i \in Active(s) PROVE i \in Active(s)'
    <3>1. i \in 1..Len(models) /\ i \in 1..Len(models') /\ models'[i] = models[i]
      BY <1>0, <1>2, <1>4, <2>2 DEF Active, Extends
    <3> QED BY <2>2, <3>1 DEF Active
  <2> QED BY <2>1, <2>2
<1>9. SerialInv'
  <2>1. ~overlap => \A v \in Workers : work'[v].at = "idle"
    BY <1>0, <1>1, <1>2, IdleType DEF SerialInv
  <2>2. ~overlap => \A s \in Slots : \A i, j \in Active(s)' : i = j
    BY <1>0, <1>8 DEF SerialInv
  <2> QED BY <1>2, <2>1, <2>2, SerialKept
<1> QED BY <1>5, <1>6, <1>7, <1>9 DEF IInv, GoOn

\* After an activation that found the slot as it was left, its one active model is m.
LEMMA CommitActivationStep ==
  ASSUME IInv, NEW w \in Workers, CommitActivation(w)
  PROVE  /\ IInv'
         /\ ~overlap' => \A s \in Slots : Active(s) # {} => Active(s)' # {}
<1>0. /\ TypeOK /\ work \in [Workers -> Work] /\ WorkInv /\ SerialInv
      /\ models \in Seq(MlModel) /\ Len(models) \in Nat /\ clock \in 0..MaxSwitches
      /\ clock \in Nat
  BY ConstantFacts DEF IInv, TypeOK
<1>1. PICK slot \in Slots, from \in Work, p \in 0..Len(models), at \in 0..MaxSwitches, no \in BOOLEAN :
        /\ slot = work[w].slot /\ from = work[w] /\ p = work[w].previous /\ at = work[w].activated
        /\ no = FALSE /\ Read(from)
  <2>1. work[w] \in Work /\ work[w].slot \in Slots /\ Read(work[w]) /\ work[w].activated \in 0..MaxSwitches
    BY <1>0, WorkType
  <2>2. work[w].previous \in 0..Len(models)
    BY <1>0 DEF TypeOK
  <2> QED BY <2>1, <2>2
<1>2. /\ work[w].at = "activating" /\ work[w].model \in 0..Len(models) /\ at <= clock
      /\ p # 0 => models[p].slot = slot
      /\ work[w].model # 0 => models[work[w].model].slot = slot
      /\ work[w].model = 0 => DataOf(slot, FALSE, from)
  BY <1>0, <1>1 DEF CommitActivation, WorkInv, TypeOK
<1> DEFINE row == NewRow(slot, from, no)
<1>3. /\ row \in MlModel /\ row.slot = slot /\ row.data = from.data /\ row.seed = FALSE
      /\ row.pool = from.pool /\ row.read = from.read
      /\ row.status = "retired" /\ row.activated = 0
  BY <1>1, NewRowFacts
<1> DEFINE rows == IF work[w].model = 0 THEN Append(models, row) ELSE models
<1>4. /\ models' = Activated(rows, work[w]) /\ work' = [work EXCEPT ![w] = Idle]
      /\ UNCHANGED <<source, changed, label, approved, clock, overlap, byHand>>
  BY <1>1 DEF CommitActivation, tenant, labels
<1> HIDE DEF row
<1>d. work[w].model = 0 => DataOf(row.slot, row.seed, row)
  BY <1>2, <1>3 DEF DataOf
<1> DEFINE m == IF work[w].model = 0 THEN Len(rows) ELSE work[w].model
<1>5. /\ Extends(rows) /\ m \in 1..Len(rows) /\ rows[m].slot = slot
      /\ \A i \in 1..Len(rows) : i > Len(models) =>
           rows[i].activated = 0 /\ DataOf(rows[i].slot, rows[i].seed, rows[i])
  <2>1. CASE work[w].model = 0
    <3> DEFINE more == Append(models, row)
    <3>1. /\ Extends(more) /\ Len(more) = Len(models) + 1 /\ more[Len(more)] = row
          /\ \A i \in 1..Len(more) : i > Len(models) =>
               more[i].activated = 0 /\ DataOf(more[i].slot, more[i].seed, more[i])
      BY <1>3, <1>d, <2>1, OneMore
    <3>2. rows = more /\ m = Len(more)
      BY <2>1
    <3> HIDE DEF more, rows, m
    <3>3. m \in 1..Len(rows)
      BY <1>0, <3>1, <3>2
    <3> QED BY <1>3, <3>1, <3>2, <3>3
  <2>2. CASE work[w].model # 0
    <3>1. rows = models /\ m = work[w].model
      BY <2>2
    <3> HIDE DEF rows, m
    <3>2. \A i \in 1..Len(models) : ~(i > Len(models))
      BY <1>0
    <3> QED BY <1>0, <1>2, <2>2, <3>1, <3>2 DEF Extends
  <2> QED BY <2>1, <2>2
<1>6. Turned(rows, models', m, p, at)
  <2>1. rows \in Seq(MlModel)
    BY <1>5 DEF Extends
  <2>2. PICK n \in 1..Len(rows) : n = m
    BY <1>5
  <2>3. Turned(rows, Activated(rows, work[w]), n, work[w].previous, work[w].activated)
    <3>1. n = IF work[w].model = 0 THEN Len(rows) ELSE work[w].model
      BY <2>2
    <3>2. work[w].activated \in 0..MaxSwitches
      BY <1>1
    <3> HIDE DEF rows, m
    <3> QED BY <2>1, <3>1, <3>2, ActivatedFacts
  <2> HIDE DEF rows, m
  <2> QED BY <1>1, <1>4, <2>2, <2>3
<1> HIDE DEF rows, m
<1>8. GoOn /\ Later
  BY <1>0, <1>4, IdleType, ConstantFacts DEF GoOn, Later, labels, TypeOK
<1>9. Kept /\ ModelsInv'
  <2>1. at <= clock'
    BY <1>2, <1>4
  <2>2. \E k \in 1..Len(rows), q \in 0..Len(models), t \in 0..MaxSwitches :
          t <= clock' /\ Turned(rows, models', k, q, t)
    BY <1>5, <1>6, <2>1
  <2> QED BY <1>5, <1>8, <2>2, RowsKept
<1>10. TypeOK' /\ WorkInv'
  BY <1>8, <1>9, WorkKept
<1>11. /\ \A s \in Slots : s # slot => Active(s)' = Active(s)
       /\ p \in Previous(slot) /\ (\A i, j \in Active(slot) : i = j) =>
            \A i : i \in Active(slot)' <=> i = m
  <2>1. PICK r, n : r = rows /\ n = m
    OBVIOUS
  <2>2. /\ Extends(r) /\ n \in 1..Len(r) /\ Turned(r, models', n, p, at)
        /\ r[n].slot = slot
        /\ p # 0 => models[p].slot = slot
    BY <1>2, <1>5, <1>6, <2>1
  <2>3. /\ \A s \in Slots : s # r[n].slot => Active(s)' = Active(s)
        /\ p \in Previous(r[n].slot) /\ (\A i, j \in Active(r[n].slot) : i = j) =>
             \A i : i \in Active(r[n].slot)' <=> i = n
    <3>1. p # 0 => models[p].slot = r[n].slot
      BY <2>2
    <3> QED BY <1>0, <2>2, <3>1, TurnedFacts
  <2> QED BY <2>1, <2>2, <2>3
<1>12. ~overlap => \A i : i \in Active(slot)' <=> i = m
  BY <1>0, <1>1, <1>2, <1>11 DEF SerialInv
<1>13. SerialInv'
  <2>1. ~overlap => \A v \in Workers : work'[v].at = "idle"
    BY <1>0, <1>2, <1>4, IdleType DEF SerialInv
  <2>2. ASSUME ~overlap, NEW s \in Slots PROVE \A i, j \in Active(s)' : i = j
    <3>1. CASE s = slot
      BY <1>12, <2>2, <3>1
    <3>2. CASE s # slot
      BY <1>0, <1>11, <2>2, <3>2 DEF SerialInv
    <3> QED BY <3>1, <3>2
  <2> QED BY <1>4, <2>1, <2>2, SerialKept
<1>15. ~overlap' => \A s \in Slots : Active(s) # {} => Active(s)' # {}
  BY <1>4, <1>11, <1>12
<1> QED BY <1>8, <1>9, <1>10, <1>13, <1>15 DEF IInv, GoOn

LEMMA SwitchedFacts ==
  ASSUME IInv, NEW b \in Banks, NEW to \in {"shared", "private"}, Switched(b, to)
  PROVE  /\ GoOn /\ Later /\ clock' = clock + 1 /\ clock \in Nat
         /\ source' = [source EXCEPT ![b] = to] /\ changed' = [changed EXCEPT ![b] = clock + 1]
         /\ ~overlap' => ~overlap /\ \A v \in Workers : work'[v].at = "idle"
<1>0. /\ TypeOK /\ work \in [Workers -> Work] /\ MaxSwitches \in Nat /\ clock \in 0..MaxSwitches
      /\ source \in [Banks -> {"shared", "private"}] /\ changed \in [Banks -> 0..MaxSwitches]
  BY ConstantFacts DEF IInv, TypeOK
<1>1. /\ clock' = clock + 1 /\ clock' \in 0..MaxSwitches /\ clock <= clock' /\ clock \in Nat
      /\ source' = [source EXCEPT ![b] = to] /\ changed' = [changed EXCEPT ![b] = clock']
      /\ UNCHANGED <<label, approved, work, byHand>>
      /\ overlap' = (overlap \/ Busy)
  BY <1>0 DEF Switched, labels
<1>2. GoOn
  BY <1>0, <1>1 DEF GoOn
<1>3. overlap' \in BOOLEAN
  BY <1>1
<1>c. changed'[b] > clock /\ \A c \in Banks \ {b} : source'[c] = source[c] /\ changed'[c] = changed[c]
  BY <1>0, <1>1
<1>4. Later
  BY <1>0, <1>1, <1>3, <1>c DEF Later, labels
<1>5. ~overlap' => ~overlap /\ \A v \in Workers : work'[v].at = "idle"
  BY <1>1 DEF Busy
<1> QED BY <1>1, <1>2, <1>4, <1>5

LEMMA SwitchToSharedStep ==
  ASSUME IInv, NEW b \in Banks, SwitchToShared(b)
  PROVE  IInv'
<1>0. /\ TypeOK /\ SerialInv /\ ModelsInv /\ models \in Seq(MlModel)
      /\ source \in [Banks -> {"shared", "private"}] /\ changed \in [Banks -> 0..MaxSwitches]
  BY DEF IInv, TypeOK
<1>1. /\ GoOn /\ Later /\ models' = models
      /\ source' = [source EXCEPT ![b] = "shared"] /\ changed' = [changed EXCEPT ![b] = clock + 1]
      /\ ~overlap' => ~overlap /\ \A v \in Workers : work'[v].at = "idle"
  BY SwitchedFacts DEF SwitchToShared
<1>2. Extends(models) /\ \A i \in 1..Len(models) : ~(i > Len(models))
  BY <1>0 DEF Extends
<1>3. Kept /\ ModelsInv'
  BY <1>1, <1>2, RowsKept
<1>4. TypeOK' /\ WorkInv'
  BY <1>1, <1>3, WorkKept
<1>5. \A s : Active(s)' = Active(s)
  BY <1>1, SameActive
<1>6. SerialInv'
  <2>1. ~overlap' => \A s \in Slots : \A i, j \in Active(s)' : i = j
    BY <1>0, <1>1, <1>5 DEF SerialInv
  <2> QED BY <1>1, <2>1, SerialKept
<1> QED BY <1>1, <1>3, <1>4, <1>6 DEF IInv, GoOn

\* The bank's slot gets a copy of the shared model, or nothing.
LEMMA SwitchToBankOnlyStep ==
  ASSUME IInv, NEW b \in Banks, SwitchToBankOnly(b)
  PROVE  /\ IInv'
         /\ ~overlap' => \A s \in Slots : Active(s) # {} => Active(s)' # {}
<1>0. /\ TypeOK /\ SerialInv /\ ModelsInv /\ models \in Seq(MlModel)
      /\ source \in [Banks -> {"shared", "private"}] /\ changed \in [Banks -> 0..MaxSwitches]
      /\ clock \in Nat /\ Len(models) \in Nat
      /\ b \in Slots /\ b # Shared /\ b \notin Customers /\ Shared \in Slots
  BY ConstantFacts DEF IInv, TypeOK
<1>1. /\ GoOn /\ Later /\ clock' = clock + 1
      /\ source' = [source EXCEPT ![b] = "private"] /\ changed' = [changed EXCEPT ![b] = clock + 1]
      /\ ~overlap' => ~overlap /\ \A v \in Workers : work'[v].at = "idle"
  BY SwitchedFacts DEF SwitchToBankOnly
\* What is left to show of the models.
<1>3. ASSUME Kept, ModelsInv',
             ~overlap' => \A s \in Slots : \A i, j \in Active(s)' : i = j
      PROVE  IInv'
  <2>1. TypeOK' /\ WorkInv'
    BY <1>1, <1>3, WorkKept
  <2>2. SerialInv'
    BY <1>1, <1>3, SerialKept
  <2> QED BY <1>1, <1>3, <2>1, <2>2 DEF IInv, GoOn
<1>4. CASE UNCHANGED models
  <2>1. Extends(models) /\ \A i \in 1..Len(models) : ~(i > Len(models))
    BY <1>0 DEF Extends
  <2>2. Kept /\ ModelsInv'
    BY <1>1, <1>4, <2>1, RowsKept
  <2>3. \A s : Active(s)' = Active(s)
    BY <1>4, SameActive
  <2>4. ~overlap' => \A s \in Slots : \A i, j \in Active(s)' : i = j
    BY <1>0, <1>1, <2>3 DEF SerialInv
  <2>5. IInv'
    BY <1>3, <2>2, <2>4
  <2> QED BY <2>3, <2>5
<1>5. ASSUME NEW s \in Active(Shared), Seeded(b, s)
      PROVE  /\ IInv'
             /\ ~overlap' => \A t \in Slots : Active(t) # {} => Active(t)' # {}
  <2>1. PICK from : from = models[s] /\ Read(from) /\ DataOf(b, TRUE, from)
    <3>1. s \in 1..Len(models) /\ models[s].slot = Shared
      BY <1>5 DEF Active
    <3>2. Read(models[s]) /\ DataOf(Shared, models[s].seed, models[s])
      BY <1>0, <3>1, ModelType DEF ModelsInv
    <3>3. DataOf(b, TRUE, models[s])
      BY <1>0, <3>2 DEF DataOf
    <3> QED BY <3>2, <3>3
  <2>y. PICK yes \in BOOLEAN : yes = TRUE
    OBVIOUS
  <2> DEFINE row == NewRow(b, from, yes)
             rows == Append(models, row)
  <2>2. PICK p \in Previous(b) :
          models' = Activated(rows, [Idle EXCEPT !.previous = p, !.activated = clock + 1])
    BY <1>5, <2>1, <2>y DEF Seeded
  <2>3. p \in 0..Len(models) /\ p \in Nat /\ (p # 0 => models[p].slot = b)
    BY <1>0, PreviousFacts
  <2>4. /\ row \in MlModel /\ row.slot = b /\ row.data = from.data /\ row.seed = yes
        /\ row.pool = from.pool /\ row.read = from.read
        /\ row.status = "retired" /\ row.activated = 0
    BY <1>0, <2>1, NewRowFacts
  <2> HIDE DEF row
  <2>5. /\ Extends(rows) /\ Len(rows) = Len(models) + 1 /\ rows[Len(rows)] = row
        /\ \A i \in 1..Len(rows) : i > Len(models) =>
             rows[i].activated = 0 /\ DataOf(rows[i].slot, rows[i].seed, rows[i])
    <3>1. DataOf(row.slot, row.seed, row)
      BY <2>1, <2>y, <2>4 DEF DataOf
    <3> QED BY <2>4, <3>1, OneMore
  <2> HIDE DEF rows
  <2>6. PICK m \in 1..Len(rows), at \in 0..MaxSwitches :
          m = Len(rows) /\ at = clock + 1 /\ m = Len(models) + 1 /\ rows[m].slot = b /\ at <= clock'
    <3>1. clock + 1 \in 0..MaxSwitches /\ clock + 1 <= clock'
      BY <1>0, <1>1, ConstantFacts DEF Later
    <3>2. Len(rows) \in 1..Len(rows)
      BY <1>0, <2>5
    <3> QED BY <2>4, <2>5, <3>1, <3>2
  <2>7. Turned(rows, models', m, p, at)
    <3> DEFINE w == [Idle EXCEPT !.previous = p, !.activated = at]
    <3>1. w.activated = at /\ w.model = 0 /\ w.previous = p
      BY DEF Idle
    <3>2. models' = Activated(rows, w)
      BY <2>2, <2>6
    <3> HIDE DEF w
    <3>3. rows \in Seq(MlModel) /\ m = IF w.model = 0 THEN Len(rows) ELSE w.model
      BY <2>5, <2>6, <3>1 DEF Extends
    <3>4. Turned(rows, Activated(rows, w), m, w.previous, w.activated)
      BY <3>1, <3>3, ActivatedFacts
    <3> QED BY <3>1, <3>2, <3>4
  <2>8. Kept /\ ModelsInv'
    <3>1. \E k \in 1..Len(rows), q \in 0..Len(models), t \in 0..MaxSwitches :
            t <= clock' /\ Turned(rows, models', k, q, t)
      BY <2>3, <2>6, <2>7
    <3> QED BY <1>1, <2>5, <3>1, RowsKept
  <2>9. /\ \A t \in Slots : t # b => Active(t)' = Active(t)
        /\ p \in Previous(b) /\ (\A i, j \in Active(b) : i = j) =>
             \A i : i \in Active(b)' <=> i = m
    <3>1. models \in Seq(MlModel) /\ rows[m].slot = b /\ (p # 0 => models[p].slot = rows[m].slot)
      BY <1>0, <2>3, <2>6
    <3>2. Extends(rows) /\ p \in 0..Len(models) /\ m \in 1..Len(rows)
      BY <2>3, <2>5
    <3> QED BY <2>7, <3>1, <3>2, TurnedFacts
  <2>10. ~overlap => \A i : i \in Active(b)' <=> i = m
    BY <1>0, <2>9 DEF SerialInv
  <2>11. ASSUME ~overlap', NEW t \in Slots PROVE \A i, j \in Active(t)' : i = j
    <3>1. CASE t = b
      BY <1>1, <2>10, <2>11, <3>1
    <3>2. CASE t # b
      BY <1>0, <1>1, <2>9, <2>11, <3>2 DEF SerialInv
    <3> QED BY <3>1, <3>2
  <2>14. IInv'
    BY <1>3, <2>8, <2>11
  <2>15. ~overlap' => \A t \in Slots : Active(t) # {} => Active(t)' # {}
    BY <1>1, <2>9, <2>10
  <2> QED BY <2>14, <2>15
<1> QED BY <1>4, <1>5 DEF SwitchToBankOnly

-----------------------------------------------------------------------------
LEMMA InitIInv == Init => IInv
<1> SUFFICES ASSUME Init PROVE IInv
  OBVIOUS
<1>0. /\ models = <<>> /\ Len(models) = 0 /\ models \in Seq(MlModel)
      /\ work \in [Workers -> Work] /\ \A w \in Workers : work[w] = Idle
  BY IdleType DEF Init
<1>1. TypeOK
  <2>1. \A w \in Workers :
          /\ work[w].at \in {"idle", "fitting", "activating"}
          /\ work[w].model \in 0..Len(models) /\ work[w].previous \in 0..Len(models)
          /\ work[w].previous # 0 => models[work[w].previous].slot = work[w].slot
    BY <1>0, IdleType
  <2>2. /\ source \in [Banks -> {"shared", "private"}] /\ changed \in [Banks -> 0..MaxSwitches]
        /\ label \in [Labels -> {"absent", "kept", "retracted"}] /\ approved \subseteq Examples
    BY ConstantFacts DEF Init
  <2>3. clock \in 0..MaxSwitches /\ overlap \in BOOLEAN /\ byHand \in 0..MaxByHand
    <3>1. clock \in 0..MaxSwitches /\ byHand \in 0..MaxByHand
      BY ConstantFacts DEF Init
    <3>2. overlap \in BOOLEAN
      BY DEF Init
    <3> QED BY <3>1, <3>2
  <2> QED BY <1>0, <2>1, <2>2, <2>3 DEF TypeOK
<1>2. WorkInv
  <2>1. \A w \in Workers : work[w].activated <= clock /\ work[w].at = "idle" /\ work[w].model = 0
    BY <1>0, IdleType DEF Init
  <2> QED BY <2>1 DEF WorkInv
<1>3. ModelsInv
  BY <1>0 DEF ModelsInv
<1>4. \A s : Active(s) = {}
  BY <1>0 DEF Active
<1>5. SerialInv
  BY <1>0, <1>4, IdleType DEF SerialInv
<1> QED BY <1>0, <1>1, <1>2, <1>3, <1>5 DEF IInv

LEMMA NextIInv == IInv /\ [Next]_vars => IInv'
<1> SUFFICES ASSUME IInv, [Next]_vars PROVE IInv'
  OBVIOUS
<1>1. CASE \E l \in Labels : Label(l) \/ RetractFraudExample(l) \/ ApproveFraudExample(l)
  BY <1>1, LabelStep
<1>2. ASSUME NEW w \in Workers, NEW s \in Slots, RetrainJob(w, s) PROVE IInv'
  <2>1. Train(w, s, TRUE) \/ Train(w, s, FALSE)
    BY <1>2 DEF RetrainJob
  <2> QED BY <2>1, TrainStep
<1>3. ASSUME NEW w \in Workers,
             \/ RetrainSharedModel(w) \/ \E b \in Banks : RetrainNow(w, b)
             \/ \E c \in Customers : RetrainCustomerModel(w, c)
      PROVE  IInv'
  <2>1. \E s \in Slots : Train(w, s, FALSE)
    BY <1>3, ConstantFacts DEF RetrainSharedModel, RetrainNow, RetrainCustomerModel
  <2> QED BY <2>1, TrainStep
<1>4. ASSUME NEW w \in Workers, Promote(w) \/ NotPromoted(w) \/ TrainFails(w) \/ CommitActivation(w)
      PROVE  IInv'
  BY <1>4, PromoteStep, NotPromotedStep, TrainFailsStep, CommitActivationStep
<1>5. ASSUME NEW w \in Workers, NEW m \in 1..Len(models),
             ActivateSharedModel(w, m) \/ Activate(w, m) \/ ActivateCustomerModel(w, m)
      PROVE  IInv'
  BY <1>5, ByHandStep DEF ActivateSharedModel, Activate, ActivateCustomerModel
<1>6. ASSUME NEW b \in Banks, SwitchToBankOnly(b) \/ SwitchToShared(b) PROVE IInv'
  BY <1>6, SwitchToBankOnlyStep, SwitchToSharedStep
<1>7. CASE UNCHANGED vars
  <2>1. UNCHANGED <<source, changed, label, approved, models, work, clock, overlap, byHand>>
    BY <1>7 DEF vars
  <2>2. \A s : Active(s)' = Active(s) /\ Previous(s)' = Previous(s)
    BY <2>1, SameActive
  <2>3. TypeOK' /\ work' \in [Workers -> Work] /\ WorkInv' /\ ModelsInv'
    BY <2>1 DEF IInv, TypeOK, WorkInv, ModelsInv, DataOf
  <2>4. SerialInv'
    BY <2>1, <2>2 DEF IInv, SerialInv
  <2> QED BY <2>3, <2>4 DEF IInv
<1> QED BY <1>1, <1>2, <1>3, <1>4, <1>5, <1>6, <1>7 DEF Next

LEMMA Invariance == Spec => []IInv
BY InitIInv, NextIInv, PTL DEF Spec

-----------------------------------------------------------------------------
(***************************************************************************)
(* The theorems.                                                           *)
(***************************************************************************)

\* Types, and the key of the active models: as long as no work overlaps, a slot has at
\* most one active model, however runs, activations by hand and switches follow.
THEOREM OneModelAtATime == Spec => []RegistryAgrees
<1>1. ASSUME IInv PROVE RegistryAgrees
  <2>1. ~overlap => \A s \in Slots : Cardinality(Active(s)) <= 1
    BY <1>1, AtMostOne DEF IInv, SerialInv
  <2> QED BY <1>1, <2>1 DEF IInv, RegistryAgrees, OneActivePerSlot
<1> QED BY <1>1, Invariance, PTL

\* Whatever model scores a bank's exception, and whatever overlaps: another bank's labels
\* in it were pooled, the examples among them approved; and a bank that left with labels
\* in the active shared model left after they were read.
THEOREM DataIsUsedAsAgreed == Spec => []SharingIsAgreed
<1>1. ASSUME IInv PROVE SharingIsAgreed
  <2>1. TypeOK /\ ModelsInv /\ models \in Seq(MlModel)
    BY <1>1 DEF IInv, TypeOK
  <2>2. ASSUME NEW b \in Banks, NEW mode \in MlScoringMode, NEW c \in {k \in Customers : BankOf[k] = b} \cup {None},
               NEW m \in ScoringSource(b, c, mode), NEW l \in models[m].data, OfBank[l] # b
        PROVE  /\ OfBank[l] \in models[m].pool
               /\ l \in Examples => l \in approved
               /\ source[b] = "private" => models[m].seed
    <3>1. \/ c \in Customers /\ BankOf[c] = b /\ m \in Active(c)
          \/ source[b] = "private" /\ m \in Active(b)
          \/ source[b] # "private" /\ m \in Active(Shared)
      BY <2>2 DEF ScoringSource, BankLevelModel
    <3>2. m \in 1..Len(models)
      BY <3>1 DEF Active
    <3>3. l \in Labels
      BY <2>1, <2>2, <3>2, ModelType
    <3>4. DataOf(models[m].slot, models[m].seed, models[m])
      BY <2>1, <3>2 DEF ModelsInv
    <3>5. CASE c \in Customers /\ BankOf[c] = b /\ m \in Active(c)
      <4>1. models[m].slot = c
        BY <3>5 DEF Active
      <4>2. OfCustomer[l] = c
        BY <2>2, <3>4, <3>5, <4>1 DEF DataOf
      <4>3. OfBank[l] = b
        BY <3>3, <3>5, <4>2, ModelsAssumption
      <4> QED BY <2>2, <4>3
    <3>6. CASE source[b] = "private" /\ m \in Active(b)
      <4>1. models[m].slot = b
        BY <3>6 DEF Active
      <4>2. models[m].seed
        <5>1. ~models[m].seed => OfBank[l] = b
          BY <2>2, <3>4, <4>1 DEF DataOf
        <5> QED BY <2>2, <5>1
      <4> QED BY <2>2, <3>4, <4>2 DEF DataOf
    <3>7. CASE source[b] # "private" /\ m \in Active(Shared)
      <4>1. models[m].slot = Shared
        BY <3>7 DEF Active
      <4> QED BY <2>2, <3>4, <3>7, <4>1 DEF DataOf
    <3> QED BY <3>1, <3>5, <3>6, <3>7
  <2>3. ForeignDataWasPooled
    BY <2>2 DEF ForeignDataWasPooled
  <2>4. ASSUME NEW m \in Active(Shared), NEW l \in models[m].data, source[OfBank[l]] = "private"
        PROVE  changed[OfBank[l]] > models[m].read
    <3>1. m \in 1..Len(models) /\ models[m].slot = Shared
      BY <2>4 DEF Active
    <3>2. DataOf(models[m].slot, models[m].seed, models[m])
      BY <2>1, <3>1 DEF ModelsInv
    <3> QED BY <2>4, <3>1, <3>2 DEF DataOf
  <2> QED BY <2>3, <2>4 DEF SharingIsAgreed, LeaversFeedNoRetrain
<1> QED BY <1>1, Invariance, PTL

\* A slot that has an active model is never left without one by a commit that found the
\* slot as its worker had read it, nor by a bank's switch.
THEOREM NeverWithoutAModel == Spec => SlotStaysFilled
<1>1. ASSUME IInv, IInv', [Next]_vars
      PROVE  \A s \in Slots : ~overlap' /\ Active(s) # {} => Active(s)' # {}
  <2>1. CASE UNCHANGED models
    BY <2>1, SameActive
  <2>2. ASSUME NEW w \in Workers, NotPromoted(w)
        PROVE  \A s \in Slots : ~overlap' /\ Active(s) # {} => Active(s)' # {}
    <3>1. /\ models \in Seq(MlModel) /\ Len(models) \in Nat
          /\ models' = Append(models, NewRow(work[w].slot, work[w], FALSE))
      BY <1>1, <2>2 DEF IInv, TypeOK, NotPromoted
    <3>2. Len(models') = Len(models) + 1 /\ \A i \in 1..Len(models) : models'[i] = models[i]
      BY <3>1
    <3>3. \A s \in Slots : \A i \in Active(s) : i \in Active(s)'
      BY <3>1, <3>2 DEF Active
    <3> QED BY <3>3
  <2>3. \/ UNCHANGED models
        \/ \E w \in Workers : NotPromoted(w) \/ CommitActivation(w)
        \/ \E b \in Banks : SwitchToBankOnly(b)
    BY <1>1 DEF Next, vars, Label, RetractFraudExample, ApproveFraudExample, RetrainJob, Train,
                RetrainSharedModel, RetrainNow, RetrainCustomerModel, Promote, TrainFails,
                ActivateSharedModel, Activate, ActivateCustomerModel, ByHand, SwitchToShared
  <2> QED BY <1>1, <2>1, <2>2, <2>3, CommitActivationStep, SwitchToBankOnlyStep
<1>2. IInv /\ IInv' /\ [Next]_vars
        => [\A s \in Slots : ~overlap' /\ Active(s) # {} => Active(s)' # {}]_vars
  BY <1>1
<1> QED BY <1>2, Invariance, PTL DEF Spec, SlotStaysFilled

=============================================================================
