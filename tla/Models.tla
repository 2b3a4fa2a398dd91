------------------------------- MODULE Models -------------------------------
(***************************************************************************)
(* The fraud-scoring models of one payment network: the registry of models *)
(* with its slots (ml/registry.py), training (ml/train.py), the nightly    *)
(* retrain (workers/tasks.py), the bank's choice between the shared model  *)
(* and one of its own (services/tenant_ml_service.py), the labels a model  *)
(* learns from, and which model scores an exception (ml/predict.py).  Left *)
(* out is what only delays: a new bank's ninety days on the shared model   *)
(* and the time between two runs for a slot.                               *)
(*                                                                         *)
(* A training run reads its labels, fits for minutes, reads the active     *)
(* model of its slot and commits: three steps, between which banks switch  *)
(* and other runs go on.  A model is the set of labels it was fitted on;   *)
(* which of two models is better is left open.  clock counts the switches, *)
(* the only events whose time is compared with another one's.              *)
(***************************************************************************)
EXTENDS Integers, Sequences, FiniteSets, SequencesExt

CONSTANTS
  Banks, Customers, BankOf,
  Labels,        \* decisions with features, each on an exception of its own
  OfBank, OfCustomer, \* whose exception; OfCustomer is None for the bank's own
  Examples,      \* those that are fraud-training examples
  Workers,       \* requests and the retrain job
  MinToTrain,    \* MIN_DECISIONS_TO_TRAIN
  MinNew,        \* ml_min_new_decisions_for_retrain
  MinOfBank,     \* ml_bank_model_min_decisions
  MaxModels, MaxSwitches, MaxByHand, \* bounds
  Shared, None

ASSUME ModelsAssumption ==
  /\ BankOf \in [Customers -> Banks]
  /\ OfBank \in [Labels -> Banks]
  /\ OfCustomer \in [Labels -> Customers \cup {None}]
  /\ \A l \in Labels : OfCustomer[l] # None => BankOf[OfCustomer[l]] = OfBank[l]
  /\ Examples \subseteq Labels
  /\ {MinToTrain, MinNew, MinOfBank, MaxModels, MaxSwitches, MaxByHand} \subseteq Nat
  /\ Shared \notin Banks \cup Customers /\ Banks \cap Customers = {} /\ None \notin Customers

\* A slot holds the versions of one model: the shared one, a bank's, a customer's.
Slots == {Shared} \cup Banks \cup Customers

\* History: pool, the banks on the shared model when the labels were read, and read, when
\* that was.
MlModel == [slot: Slots, status: {"active", "retired"}, data: SUBSET Labels,
            seed: BOOLEAN, activated: 0..MaxSwitches, pool: SUBSET Banks, read: 0..MaxSwitches]

VARIABLES
  source,   \* tenant.ml_model_source
  changed,  \* tenant.ml_source_changed_at
  label, approved,
  models,   \* rows of ml_model, in order of creation
  work,     \* what a worker is at
  clock,
  overlap, byHand \* history: work overlapped with work or a switch; how often activated by hand

vars == <<source, changed, label, approved, models, work, clock, overlap, byHand>>
tenant == <<source, changed>>
labels == <<label, approved>>

Idle == [at |-> "idle", slot |-> Shared, data |-> {}, forced |-> FALSE, model |-> 0, previous |-> 0, activated |-> 0,
         pool |-> {}, read |-> 0]

TypeOK ==
  /\ source \in [Banks -> {"shared", "private"}]
  /\ changed \in [Banks -> 0..MaxSwitches]
  /\ label \in [Labels -> {"absent", "kept", "retracted"}] /\ approved \subseteq Examples
  /\ models \in Seq(MlModel)
  /\ \A w \in Workers :
       /\ work[w].at \in {"idle", "fitting", "activating"}
       /\ work[w].model \in 0..Len(models) /\ work[w].previous \in 0..Len(models)
       \* what is about to be retired is of the slot that gets a new model
       /\ work[w].previous # 0 => models[work[w].previous].slot = work[w].slot
  /\ clock \in 0..MaxSwitches /\ overlap \in BOOLEAN /\ byHand \in 0..MaxByHand

Init ==
  /\ source = [b \in Banks |-> "shared"]
  /\ changed = [b \in Banks |-> 0]
  /\ label = [l \in Labels |-> "absent"] /\ approved = {}
  /\ models = <<>>
  /\ work = [w \in Workers |-> Idle]
  /\ clock = 0 /\ overlap = FALSE /\ byHand = 0

-----------------------------------------------------------------------------
(* Labels.                                                                 *)

\* A decision, or an example a bank submits.
Label(l) ==
  /\ label[l] = "absent"
  /\ label' = [label EXCEPT ![l] = "kept"]
  /\ UNCHANGED <<tenant, approved, models, work, clock, overlap, byHand>>

RetractFraudExample(l) ==
  /\ l \in Examples /\ label[l] = "kept"
  /\ label' = [label EXCEPT ![l] = "retracted"]
  /\ UNCHANGED <<tenant, approved, models, work, clock, overlap, byHand>>

\* The operator's, and for good.
ApproveFraudExample(l) ==
  /\ l \in Examples \ approved /\ label[l] = "kept"
  /\ approved' = approved \cup {l}
  /\ UNCHANGED <<tenant, label, models, work, clock, overlap, byHand>>

\* A mutant: a bank that left the pool is not left out.
LoadLabeledDecisions_AnyBank(slot) ==
  {l \in Labels :
     /\ label[l] = "kept"
     /\ slot \in Customers => OfCustomer[l] = slot
     /\ slot \in Banks => OfBank[l] = slot
     /\ slot = Shared => (l \in Examples => l \in approved)}

LoadLabeledDecisions(slot) ==
  {l \in Labels :
     /\ label[l] = "kept"
     /\ slot \in Customers => OfCustomer[l] = slot
     /\ slot \in Banks => OfBank[l] = slot
     /\ slot = Shared => source[OfBank[l]] = "shared" /\ (l \in Examples => l \in approved)}

-----------------------------------------------------------------------------
(* The registry.                                                           *)

Active(slot) == {m \in 1..Len(models) : models[m].slot = slot /\ models[m].status = "active"}

\* Any of them: the query has no order.
Previous(slot) == IF Active(slot) = {} THEN {0} ELSE Active(slot)

Busy == \E w \in Workers : work[w].at # "idle"

\* How the model rows are after a worker's commit: model 0 is a new row, and only
\* attributes that changed are written.  A mutant: the row itself is not spared.
Activated_Selfless(rows, w) ==
  LET m == IF w.model = 0 THEN Len(rows) ELSE w.model
  IN  [i \in 1..Len(rows) |->
         IF i = w.previous THEN [rows[i] EXCEPT !.status = "retired"]
         ELSE IF i = m THEN [rows[i] EXCEPT !.status = "active", !.activated = w.activated]
         ELSE rows[i]]

\* A mutant: the previous model is not retired.
Activated_KeepsPrevious(rows, w) ==
  LET m == IF w.model = 0 THEN Len(rows) ELSE w.model
  IN  [rows EXCEPT ![m].status = "active", ![m].activated = w.activated]

Activated(rows, w) ==
  LET m == IF w.model = 0 THEN Len(rows) ELSE w.model
  IN  [i \in 1..Len(rows) |->
         IF i = m /\ i # w.previous
           THEN [rows[i] EXCEPT !.status = "active", !.activated = w.activated]
         ELSE IF i = m THEN [rows[i] EXCEPT !.activated = w.activated]
         ELSE IF i = w.previous THEN [rows[i] EXCEPT !.status = "retired"]
         ELSE rows[i]]

\* Of the labels a worker read, or those of a model that is copied.
NewRow(slot, from, seed) ==
  [slot |-> slot, status |-> "retired", data |-> from.data, seed |-> seed, activated |-> 0,
   pool |-> from.pool, read |-> from.read]

-----------------------------------------------------------------------------
(* Training.                                                               *)

LeftSinceSharedTrained ==
  \E m \in Active(Shared), b \in Banks : source[b] = "private" /\ changed[b] > models[m].activated

\* Of the last run.
TrainedCount(slot) ==
  LET runs == {m \in 1..Len(models) : models[m].slot = slot}
  IN  IF runs = {} THEN 0 ELSE Cardinality(models[CHOOSE m \in runs : \A k \in runs : k <= m].data)

\* What the job counts of a customer's labels has the retracted ones in it.
Counted(slot) ==
  IF slot \in Customers THEN {l \in Labels : label[l] # "absent" /\ OfCustomer[l] = slot}
                        ELSE LoadLabeledDecisions(slot)

\* A bound: no work begins once some overlapped.
OneOverlap == ~overlap

Train(w, slot, forced) ==
  /\ work[w].at = "idle" /\ OneOverlap /\ Len(models) < MaxModels
  /\ Cardinality(LoadLabeledDecisions(slot)) >= MinToTrain
  /\ work' = [work EXCEPT ![w] = [Idle EXCEPT !.at = "fitting", !.slot = slot,
                                     !.data = LoadLabeledDecisions(slot), !.forced = forced,
                                     !.pool = {b \in Banks : source[b] = "shared"}, !.read = clock]]
  /\ overlap' = (overlap \/ Busy)
  /\ UNCHANGED <<tenant, labels, models, clock, byHand>>

\* Which banks have a model of their own the job reads once, as it begins: one that has had
\* one since may be back on the shared model.
RetrainJob(w, slot) ==
  IF slot = Shared /\ LeftSinceSharedTrained
    THEN Train(w, slot, TRUE)
    ELSE /\ slot \in Banks => changed[slot] # 0
         /\ Cardinality(Counted(slot)) - TrainedCount(slot) >= MinNew
         /\ Train(w, slot, FALSE)

\* By hand: the operator the shared model, an administrator the bank's own, while it
\* has one, and a customer's.
RetrainSharedModel(w) == Train(w, Shared, FALSE)
RetrainNow(w, b) == source[b] = "private" /\ Train(w, b, FALSE)
RetrainCustomerModel(w, c) == Train(w, c, FALSE)

\* Whether the challenger may win.
MayPromote(w, champion) ==
  \/ w.forced \/ champion = 0
  \/ ~(w.slot \in Banks /\ Cardinality(w.data) < MinOfBank)

\* Whether it may lose.
MayNotPromote(w, champion) == ~w.forced /\ champion # 0

Promote(w) ==
  /\ work[w].at = "fitting"
  /\ \E p \in Previous(work[w].slot) :
       /\ MayPromote(work[w], p)
       /\ work' = [work EXCEPT ![w].at = "activating", ![w].previous = p, ![w].activated = clock]
  /\ UNCHANGED <<tenant, labels, models, clock, overlap, byHand>>

NotPromoted(w) ==
  /\ work[w].at = "fitting" /\ Len(models) < MaxModels
  /\ \E p \in Previous(work[w].slot) : MayNotPromote(work[w], p)
  /\ models' = Append(models, NewRow(work[w].slot, work[w], FALSE))
  /\ work' = [work EXCEPT ![w] = Idle]
  /\ UNCHANGED <<tenant, labels, clock, overlap, byHand>>

\* An error.  The row the job leaves to say so is left out: nothing counts it.
TrainFails(w) ==
  /\ work[w].at = "fitting"
  /\ work' = [work EXCEPT ![w] = Idle]
  /\ UNCHANGED <<tenant, labels, models, clock, overlap, byHand>>

\* By hand, any version of the slot, whatever its status.
ByHand(w, m) ==
  /\ work[w].at = "idle" /\ OneOverlap /\ byHand < MaxByHand
  /\ \E p \in Previous(models[m].slot) :
       work' = [work EXCEPT ![w] = [Idle EXCEPT !.at = "activating", !.slot = models[m].slot,
                                      !.model = m, !.previous = p, !.activated = clock]]
  /\ overlap' = (overlap \/ Busy) /\ byHand' = byHand + 1
  /\ UNCHANGED <<tenant, labels, models, clock>>

ActivateSharedModel(w, m) == models[m].slot = Shared /\ ByHand(w, m)
Activate(w, m) == models[m].slot \in Banks /\ ByHand(w, m)
ActivateCustomerModel(w, m) == models[m].slot \in Customers /\ ByHand(w, m)

CommitActivation(w) ==
  /\ work[w].at = "activating"
  /\ work[w].model = 0 => Len(models) < MaxModels
  /\ models' = Activated(IF work[w].model = 0
                           THEN Append(models, NewRow(work[w].slot, work[w], FALSE))
                           ELSE models, work[w])
  /\ work' = [work EXCEPT ![w] = Idle]
  /\ UNCHANGED <<tenant, labels, clock, overlap, byHand>>

-----------------------------------------------------------------------------
(* The bank's choice.                                                      *)

Switched(b, to) ==
  /\ clock < MaxSwitches /\ clock' = clock + 1
  /\ source' = [source EXCEPT ![b] = to]
  /\ changed' = [changed EXCEPT ![b] = clock + 1]
  /\ overlap' = (overlap \/ Busy)
  /\ UNCHANGED <<labels, work, byHand>>

\* The copy of shared model s in the bank's slot.
Seeded(b, s) ==
  \E p \in Previous(b) :
    models' = Activated(Append(models, NewRow(b, models[s], TRUE)),
                        [Idle EXCEPT !.previous = p, !.activated = clock + 1])

\* The shared model is copied, unless there is none or its file is not what it was.
SwitchToBankOnly(b) ==
  /\ source[b] = "shared"
  /\ Switched(b, "private")
  /\ \/ Len(models) < MaxModels /\ \E s \in Active(Shared) : Seeded(b, s)
     \/ UNCHANGED models

SwitchToShared(b) ==
  /\ source[b] = "private"
  /\ Switched(b, "shared")
  /\ UNCHANGED models

-----------------------------------------------------------------------------
(* Scoring.                                                                *)

BankLevelModel(b) == IF source[b] = "private" THEN Active(b) ELSE Active(Shared)

\* customer_ml_setting.mode: it may change whenever it likes, so no state of it is
\* kept and the property below is about each.
MlScoringMode == {"auto", "customer", "global"}

\* The models one of which scores an exception of bank b, customer c or None, in the
\* customer's mode.
ScoringSource(b, c, mode) ==
  LET ofCustomer == IF c = None THEN {} ELSE IF mode = "global" THEN {} ELSE Active(c)
  IN  IF ofCustomer = {} THEN BankLevelModel(b) ELSE ofCustomer

-----------------------------------------------------------------------------
Next ==
  \/ \E l \in Labels : Label(l) \/ RetractFraudExample(l) \/ ApproveFraudExample(l)
  \/ \E w \in Workers, s \in Slots : RetrainJob(w, s)
  \/ \E w \in Workers :
       \/ RetrainSharedModel(w)
       \/ \E b \in Banks : RetrainNow(w, b)
       \/ \E c \in Customers : RetrainCustomerModel(w, c)
  \/ \E w \in Workers : Promote(w) \/ NotPromoted(w) \/ TrainFails(w) \/ CommitActivation(w)
  \/ \E w \in Workers, m \in 1..Len(models) :
       ActivateSharedModel(w, m) \/ Activate(w, m) \/ ActivateCustomerModel(w, m)
  \/ \E b \in Banks : SwitchToBankOnly(b) \/ SwitchToShared(b)

Spec == Init /\ [][Next]_vars

-----------------------------------------------------------------------------
(* Properties.                                                             *)

\* A slot has at most one active model, unless two activations overlap: each
\* retires the model it found and neither finds the other's.
OneActivePerSlot == ~overlap => \A s \in Slots : Cardinality(Active(s)) <= 1

\* Types, and the key of the active models.
RegistryAgrees == TypeOK /\ OneActivePerSlot

\* Whatever model scores a bank's exception, and however it came to its slot:
\* another bank's labels in it were pooled, that bank being on the shared model when they
\* were read, the examples among them approved; and a bank with a model of its own has
\* them only from the copy it started with.
ForeignDataWasPooled ==
  \A b \in Banks, mode \in MlScoringMode : \A c \in {k \in Customers : BankOf[k] = b} \cup {None} :
    \A m \in ScoringSource(b, c, mode) : \A l \in models[m].data :
      OfBank[l] # b => /\ OfBank[l] \in models[m].pool
                       /\ l \in Examples => l \in approved
                       /\ source[b] = "private" => models[m].seed

\* A bank that left with labels in the active shared model left after they were read,
\* whatever overlaps: no retrain since takes its labels in.  The job looks at the time of
\* the activation instead: who left between the two it never sees.
LeaversFeedNoRetrain ==
  \A m \in Active(Shared) : \A l \in models[m].data :
    source[OfBank[l]] = "private" => changed[OfBank[l]] > models[m].read

\* Labels of other banks are used as they agreed.
SharingIsAgreed == ForeignDataWasPooled /\ LeaversFeedNoRetrain

\* A slot that has an active model is never left without one, unless two
\* activations overlap.
SlotStaysFilled ==
  [][\A s \in Slots : ~overlap' /\ Active(s) # {} => Active(s)' # {}]_vars
=============================================================================
