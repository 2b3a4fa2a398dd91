-------------------------- MODULE IncomingProofs -----------------------------
(***************************************************************************)
(* Theorems about what comes in.  AchDebits: for any authorizations,       *)
(* entries and number of submissions handled at once.  BulkFiles: for a    *)
(* file of any length, any order of its records, any amounts and routing   *)
(* numbers, and any modulus of the entry hash.                             *)
(***************************************************************************)
EXTENDS BulkFiles, AchDebits, FiniteSetTheorems, TLAPS

-----------------------------------------------------------------------------
(* AchDebits.                                                               *)

(***************************************************************************)
(* The inductive invariant.  A submission commits what it judged earlier,  *)
(* so Judged says, of a submission under way and of a transaction alike,   *)
(* what that judgement still means.                                        *)
(***************************************************************************)

\* The earlier clearings in the window that the submission x had before it, as
\* far as they were not labelled since.
Earlier(x) == {u \in Cleared \cap x.read :
                 /\ txns[u].label = "none"
                 /\ txns[u].entry.date \in (x.entry.date - Window)..(x.entry.date - 1)}

\* The authorization a debit cleared under is of its receiver if any one was,
\* and neither its amount nor its count was exhausted.
ClearedUnder(x) ==
  /\ x.rule \in x.seen
  /\ (\E r \in x.seen : r.receiver = x.entry.receiver) => x.rule.receiver = x.entry.receiver
  /\ x.rule.max # None => x.entry.amount <= x.rule.max
  /\ x.rule.freq # None => Cardinality(Earlier(x)) < x.rule.freq

Judged(x) ==
  /\ x.read \subseteq OnFile /\ x.seen \subseteq Rules
  /\ x.entry.type = "debit" /\ x.why = {} => ClearedUnder(x)

JudgedInv == \A x \in pending \cup {txns[t] : t \in OnFile} : Judged(x)

\* Submissions under way each have a trace of their own, not on file yet, and
\* nothing is found against a credit.
PendingInv ==
  /\ IsFiniteSet(pending)
  /\ \A p \in pending : txns[p.trace] = None
  /\ \A p, q \in pending : p.trace = q.trace => p = q
  /\ \A p \in pending : p.entry.type = "credit" => p.why = {}

FileInv == IsFiniteSet(OnFile)

\* A transaction cleared, or has an exception, or is a fraud example; only a
\* debit has an exception.
TransactionInv == \A t \in OnFile :
  /\ txns[t].match = "matched" <=> txns[t].why = {}
  /\ txns[t].why = {} => txns[t].exception = "none"
  /\ txns[t].exception # "none" => txns[t].entry.type = "debit"

IInv == /\ TypeOK /\ JudgedInv /\ PendingInv /\ FileInv /\ TransactionInv
        /\ SettlementIsExplained /\ StatementsStand

-----------------------------------------------------------------------------
(* Type correctness.                                                       *)

LEMMA EntryType ==
  ASSUME NEW e \in Entries
  PROVE  e.type \in {"debit", "credit"} /\ e.amount \in Int /\ e.date \in Int
BY ConstantsAssumption

LEMMA RuleType ==
  ASSUME NEW r \in Rules
  PROVE  /\ r.max \in Nat \cup {None} /\ r.freq \in Nat \cup {None} /\ r # None
BY ConstantsAssumption DEF Authorization

LEMMA EvaluationType ==
  ASSUME NEW p \in Evaluation
  PROVE  /\ p.trace \in Traces /\ p.entry \in Entries /\ p.why \in SUBSET Verdicts
         /\ p.rule \in Rules \cup {None} /\ p.seen \in SUBSET Rules /\ p.read \in SUBSET Traces
BY DEF Evaluation

LEMMA TransactionType ==
  ASSUME NEW x \in Transaction
  PROVE  /\ x.entry \in Entries /\ x.match \in {"matched", "exception"}
         /\ x.settlement \in {"pending", "paid", "returned"}
         /\ x.exception \in {"none", "open", "pay", "return"}
         /\ x.label \in {"none", "active", "retracted"} /\ x.why \in SUBSET Reasons
         /\ x.rule \in Rules \cup {None} /\ x.seen \in SUBSET Rules /\ x.read \in SUBSET Traces
BY DEF Transaction

\* What an entry comes to is a set of verdicts and the authorization, if any.
LEMMA OutcomeType ==
  ASSUME NEW e, NEW o \in Outcomes(e)
  PROVE  o[1] \in SUBSET Verdicts /\ o[2] \in Rules \cup {None}
<1>1. Candidates(e) \subseteq Rules /\ Selected(e) \subseteq Rules
  BY DEF Candidates, Selected
<1>2. \A r : Exceeds(r, e) \in SUBSET Verdicts
  BY DEF Exceeds, Verdicts
<1> QED BY <1>1, <1>2 DEF Outcomes, Verdicts

\* The submission an Evaluate step adds.
Submission(t, e, o) ==
  [trace |-> t, entry |-> e, why |-> o[1], rule |-> o[2], seen |-> Candidates(e), read |-> OnFile]

LEMMA EvaluateStep ==
  ASSUME TypeOK, NEW t \in Traces, NEW e \in Entries, Evaluate(t, e)
  PROVE  \E o \in Outcomes(e) : /\ Submission(t, e, o) \in Evaluation
                                /\ pending' = pending \cup {Submission(t, e, o)}
<1>1. PICK o \in Outcomes(e) : pending' = pending \cup {Submission(t, e, o)}
  BY DEF Evaluate, Submission
<1>2. Candidates(e) \in SUBSET Rules /\ OnFile \in SUBSET Traces
  BY DEF Candidates, OnFile
<1>3. Submission(t, e, o) \in Evaluation
  BY <1>2, OutcomeType DEF Submission, Evaluation
<1> QED BY <1>1, <1>3

\* The transaction an Ingest step puts on file.
Row(p) == [entry |-> p.entry, match |-> Settled(p).match, settlement |-> Settled(p).settlement,
           exception |-> Settled(p).exception, label |-> "none", why |-> p.why, rule |-> p.rule,
           seen |-> p.seen, read |-> p.read]

LEMMA RowFacts ==
  ASSUME NEW p \in Evaluation
  PROVE  /\ Row(p) \in Transaction /\ Row(p) # None
         /\ Row(p).entry = p.entry /\ Row(p).why = p.why /\ Row(p).rule = p.rule
         /\ Row(p).seen = p.seen /\ Row(p).read = p.read
         /\ Row(p).match = IF p.why = {} THEN "matched" ELSE "exception"
         /\ Row(p).settlement = IF p.why = {} THEN "paid" ELSE "pending"
         /\ Row(p).exception = IF p.why = {} THEN "none" ELSE "open"
         /\ Row(p).label = "none"
<1>1. /\ Settled(p).match = IF p.why = {} THEN "matched" ELSE "exception"
      /\ Settled(p).settlement = IF p.why = {} THEN "paid" ELSE "pending"
      /\ Settled(p).exception = IF p.why = {} THEN "none" ELSE "open"
  BY DEF Settled
<1>2. Row(p) \in Transaction
  <2>1. p.why \in SUBSET Reasons
    BY EvaluationType DEF Reasons
  <2> QED BY <1>1, <2>1, EvaluationType DEF Row, Transaction
<1> QED BY <1>1, <1>2, NoneAssumption DEF Row

LEMMA IngestStep ==
  ASSUME TypeOK, NEW p \in pending, Ingest(p)
  PROVE  /\ p \in Evaluation /\ txns' = [txns EXCEPT ![p.trace] = Row(p)]
         /\ pending' = pending \ {p}
BY DEF TypeOK, Ingest, Row

\* The row a fraud example of what never came in makes.
Example(e) == [entry |-> e, match |-> "exception", settlement |-> "returned", exception |-> "none",
               label |-> "active", why |-> {"known_fraud"}, rule |-> None, seen |-> {}, read |-> {}]

LEMMA LabelRawStep ==
  ASSUME TypeOK, NEW t \in Traces, NEW e \in Entries, LabelRaw(t, e)
  PROVE  /\ txns[t] = None /\ \A p \in pending : p.trace # t
         /\ Example(e) \in Transaction /\ Example(e) # None
         /\ txns' = [txns EXCEPT ![t] = Example(e)] /\ txns'[t] = Example(e)
         /\ \A u \in Traces \ {t} : txns'[u] = txns[u]
         /\ txns' \in [Traces -> Transaction \cup {None}]
         /\ pending' = pending /\ statements' = statements
         /\ OnFile' = OnFile \cup {t} /\ t \notin OnFile
<1>1. Example(e) \in Transaction
  BY DEF Example, Transaction, Reasons
<1>2. Example(e) # None
  BY <1>1, NoneAssumption
<1>3. /\ txns[t] = None /\ \A p \in pending : p.trace # t
      /\ txns' = [txns EXCEPT ![t] = Example(e)]
      /\ pending' = pending /\ statements' = statements
  BY DEF LabelRaw, Example
<1>4. /\ txns'[t] = Example(e) /\ \A u \in Traces \ {t} : txns'[u] = txns[u]
      /\ txns' \in [Traces -> Transaction \cup {None}]
  BY <1>1, <1>3 DEF TypeOK
<1>5. OnFile' = OnFile \cup {t} /\ t \notin OnFile
  BY <1>2, <1>3, <1>4 DEF OnFile
<1> QED BY <1>1, <1>2, <1>3, <1>4, <1>5

\* What a person does to a transaction on file.
Amend(t) == \/ \E outcome \in {"pay", "return"} : Decide(t, outcome)
            \/ LabelTransaction(t) \/ RetractFraudExample(t)

\* y is x after a decision, a label or its withdrawal: what it was judged on
\* stays, and its settlement is a refusal or what it was.
Amended(x, y) ==
  /\ y.entry = x.entry /\ y.match = x.match /\ y.why = x.why
  /\ y.rule = x.rule /\ y.seen = x.seen /\ y.read = x.read
  /\ y.label = "none" => x.label = "none"
  /\ y.exception = x.exception \/ x.exception = "open"
  /\ \/ y.settlement = "returned" /\ Refused(y)
     \/ y.settlement = x.settlement /\ (Refused(y) <=> Refused(x))

LEMMA AmendStep ==
  ASSUME TypeOK, NEW t \in Traces, Amend(t)
  PROVE  /\ txns[t] \in Transaction /\ txns[t] # None /\ Amended(txns[t], txns'[t])
         /\ txns'[t] \in Transaction /\ txns'[t] # None
         /\ \A u \in Traces \ {t} : txns'[u] = txns[u]
         /\ txns' \in [Traces -> Transaction \cup {None}]
         /\ UNCHANGED <<status, blocked, pending, statements>> /\ OnFile' = OnFile
<1>1. txns[t] \in Transaction /\ txns[t] # None
  BY DEF TypeOK, Amend, Decide, LabelTransaction, RetractFraudExample
<1>2. ASSUME NEW y \in Transaction, txns' = [txns EXCEPT ![t] = y]
      PROVE  /\ txns'[t] = y /\ y # None /\ \A u \in Traces \ {t} : txns'[u] = txns[u]
             /\ txns' \in [Traces -> Transaction \cup {None}]
             /\ OnFile' = OnFile
  <2>1. /\ txns'[t] = y /\ \A u \in Traces \ {t} : txns'[u] = txns[u]
        /\ txns' \in [Traces -> Transaction \cup {None}]
    BY <1>2 DEF TypeOK
  <2>2. y # None
    BY NoneAssumption
  <2> QED BY <1>1, <2>1, <2>2 DEF OnFile
<1>3. UNCHANGED <<status, blocked, pending, statements>>
  BY DEF Amend, Decide, LabelTransaction, RetractFraudExample
<1> SUFFICES \E y \in Transaction : txns' = [txns EXCEPT ![t] = y] /\ Amended(txns[t], y)
  BY <1>1, <1>2, <1>3
<1>4. ASSUME NEW outcome \in {"pay", "return"}, Decide(t, outcome)
      PROVE  \E y \in Transaction : txns' = [txns EXCEPT ![t] = y] /\ Amended(txns[t], y)
  <2> DEFINE x == txns[t]
             y == [x EXCEPT !.exception = outcome,
                            !.settlement = IF outcome = "return" THEN "returned" ELSE @]
  <2>1. txns' = [txns EXCEPT ![t] = y] /\ x.exception = "open"
    BY <1>4 DEF Decide, TypeOK
  <2>2. /\ y \in Transaction /\ y.exception = outcome /\ y.label = x.label
        /\ y.settlement = IF outcome = "return" THEN "returned" ELSE x.settlement
        /\ y.entry = x.entry /\ y.match = x.match /\ y.why = x.why
        /\ y.rule = x.rule /\ y.seen = x.seen /\ y.read = x.read
    BY <1>1 DEF Transaction
  <2> HIDE DEF y
  <2>3. Amended(x, y)
    BY <2>1, <2>2 DEF Amended, Refused
  <2> QED BY <2>1, <2>2, <2>3
<1>5. ASSUME LabelTransaction(t)
      PROVE  \E y \in Transaction : txns' = [txns EXCEPT ![t] = y] /\ Amended(txns[t], y)
  <2> DEFINE x == txns[t]
             y == [x EXCEPT !.label = "active", !.settlement = "returned"]
  <2>1. txns' = [txns EXCEPT ![t] = y]
    BY <1>5 DEF LabelTransaction, TypeOK
  <2>2. /\ y \in Transaction /\ y.exception = x.exception /\ y.label = "active"
        /\ y.settlement = "returned"
        /\ y.entry = x.entry /\ y.match = x.match /\ y.why = x.why
        /\ y.rule = x.rule /\ y.seen = x.seen /\ y.read = x.read
    BY <1>1 DEF Transaction
  <2> HIDE DEF y
  <2>3. Amended(x, y)
    BY <2>2 DEF Amended, Refused
  <2> QED BY <2>1, <2>2, <2>3
<1>6. ASSUME RetractFraudExample(t)
      PROVE  \E y \in Transaction : txns' = [txns EXCEPT ![t] = y] /\ Amended(txns[t], y)
  <2> DEFINE x == txns[t]
             y == [x EXCEPT !.label = "retracted"]
  <2>1. txns' = [txns EXCEPT ![t] = y] /\ x.label = "active"
    BY <1>6 DEF RetractFraudExample, TypeOK
  <2>2. /\ y \in Transaction /\ y.exception = x.exception /\ y.label = "retracted"
        /\ y.settlement = x.settlement
        /\ y.entry = x.entry /\ y.match = x.match /\ y.why = x.why
        /\ y.rule = x.rule /\ y.seen = x.seen /\ y.read = x.read
    BY <1>1 DEF Transaction
  <2> HIDE DEF y
  <2>3. Amended(x, y)
    BY <2>1, <2>2 DEF Amended, Refused
  <2> QED BY <2>1, <2>2, <2>3
<1> QED BY <1>4, <1>5, <1>6 DEF Amend

\* The steps of Next, a person's on a transaction as one.
LEMMA NextSteps ==
  ASSUME Next
  PROVE  \/ \E t \in Traces, e \in Entries : Evaluate(t, e) \/ LabelRaw(t, e)
         \/ \E p \in pending : Ingest(p) \/ Reject(p)
         \/ \E r \in Rules : CreateAuthorization(r) \/ RevokeAuthorization(r)
         \/ \E b \in BOOLEAN : SetDebitBlock(b)
         \/ \E t \in Traces : Amend(t)
         \/ \E s \in Statements, S \in SUBSET Traces : SignStatement(s, S)
BY DEF Next, Amend

LEMMA TypeStep == TypeOK /\ PendingInv /\ [Next]_vars => TypeOK' /\ IsFiniteSet(pending)'
<1> SUFFICES ASSUME TypeOK, PendingInv, [Next]_vars PROVE TypeOK' /\ IsFiniteSet(pending')
  OBVIOUS
<1>0. IsFiniteSet(pending) /\ Cardinality(pending) \in Nat /\ Cardinality(pending) <= Slots
  BY FS_CardinalityType DEF TypeOK, PendingInv
<1>1. ASSUME NEW t \in Traces, NEW e \in Entries, Evaluate(t, e)
      PROVE  TypeOK' /\ IsFiniteSet(pending')
  <2>1. PICK p \in Evaluation : pending' = pending \cup {p}
    BY <1>1, EvaluateStep
  <2>2. Cardinality(pending) < Slots
    BY <1>1 DEF Evaluate
  <2>3. /\ IsFiniteSet(pending')
        /\ Cardinality(pending') = Cardinality(pending) \/ Cardinality(pending') = Cardinality(pending) + 1
    BY <1>0, <2>1, FS_AddElement
  <2>4. Cardinality(pending') <= Slots
    BY <1>0, <2>2, <2>3, ConstantsAssumption
  <2> QED BY <1>1, <2>1, <2>3, <2>4 DEF Evaluate, TypeOK
<1>2. ASSUME NEW p \in pending, pending' = pending \ {p}
      PROVE  IsFiniteSet(pending') /\ pending' \subseteq Evaluation /\ Cardinality(pending') <= Slots
  <2>1. IsFiniteSet(pending') /\ Cardinality(pending') = Cardinality(pending) - 1
    BY <1>0, <1>2, FS_RemoveElement
  <2> QED BY <1>0, <1>2, <2>1, ConstantsAssumption DEF TypeOK
<1>3. ASSUME NEW p \in pending, Ingest(p) PROVE TypeOK' /\ IsFiniteSet(pending')
  <2>1. txns' \in [Traces -> Transaction \cup {None}]
    BY <1>3, IngestStep, RowFacts DEF TypeOK
  <2>2. pending' = pending \ {p}
    BY <1>3 DEF Ingest
  <2> QED BY <1>2, <1>3, <2>1, <2>2 DEF Ingest, TypeOK
<1>4. ASSUME NEW p \in pending, Reject(p) PROVE TypeOK' /\ IsFiniteSet(pending')
  BY <1>2, <1>4 DEF Reject, TypeOK
<1>5. ASSUME NEW r \in Rules, CreateAuthorization(r) \/ RevokeAuthorization(r)
      PROVE  TypeOK' /\ IsFiniteSet(pending')
  BY <1>0, <1>5 DEF CreateAuthorization, RevokeAuthorization, TypeOK
<1>6. ASSUME NEW b \in BOOLEAN, SetDebitBlock(b) PROVE TypeOK' /\ IsFiniteSet(pending')
  BY <1>0, <1>6 DEF SetDebitBlock, TypeOK
<1>7. ASSUME NEW t \in Traces, Amend(t) PROVE TypeOK' /\ IsFiniteSet(pending')
  BY <1>0, <1>7, AmendStep DEF TypeOK
<1>8. ASSUME NEW s \in Statements, NEW S \in SUBSET Traces, SignStatement(s, S)
      PROVE  TypeOK' /\ IsFiniteSet(pending')
  BY <1>0, <1>8 DEF SignStatement, TypeOK
<1>9. ASSUME NEW t \in Traces, NEW e \in Entries, LabelRaw(t, e)
      PROVE  TypeOK' /\ IsFiniteSet(pending')
  BY <1>0, <1>9, LabelRawStep DEF LabelRaw, TypeOK
<1>10. CASE UNCHANGED vars
  BY <1>0, <1>10 DEF vars, TypeOK
<1> QED BY <1>1, <1>3, <1>4, <1>5, <1>6, <1>7, <1>8, <1>9, <1>10, NextSteps

-----------------------------------------------------------------------------
(* The judgements.                                                         *)

\* An entry that clears does so under an authorization that covers it: one of
\* its receiver if there is any, with amount and count to spare.
LEMMA ClearOutcome ==
  ASSUME FileInv, NEW e \in Entries, e.type = "debit", NEW o \in Outcomes(e), o[1] = {}
  PROVE  /\ o[2] \in Candidates(e) /\ o[2] \in Rules
         /\ (\E r \in Candidates(e) : r.receiver = e.receiver) => o[2].receiver = e.receiver
         /\ o[2].max # None => e.amount <= o[2].max
         /\ o[2].freq # None => PriorSettled(e) < o[2].freq
<1>1. Candidates(e) \subseteq Rules
  BY DEF Candidates
<1>2. PICK r \in Selected(e) : o = <<Exceeds(r, e), r>>
  BY DEF Outcomes
<1>3. o[2] = r /\ Exceeds(r, e) = {}
  BY <1>2
<1>4. /\ r \in Candidates(e)
      /\ (\E c \in Candidates(e) : c.receiver = e.receiver) => r.receiver = e.receiver
  BY <1>2 DEF Selected
<1>5. r \in Rules
  BY <1>1, <1>4
<1>6. r.max # None => e.amount <= r.max
  <2>1. "amount_exceeds_limit" \notin Exceeds(r, e)
    BY <1>3
  <2>2. r.max # None => ~(e.amount > r.max)
    BY <2>1 DEF Exceeds
  <2>3. e.amount \in Int /\ r.max \in Nat \cup {None}
    BY <1>5, EntryType, RuleType
  <2> QED BY <2>2, <2>3
<1>7. r.freq # None => PriorSettled(e) < r.freq
  <2>1. "frequency_exceeded" \notin Exceeds(r, e)
    BY <1>3
  <2>2. r.freq # None => ~(PriorSettled(e) >= r.freq)
    BY <2>1 DEF Exceeds
  <2>3. r.freq \in Nat \cup {None}
    BY <1>5, RuleType
  <2>4. PriorSettled(e) \in Int
    <3> DEFINE prior == {t \in OnFile : /\ txns[t].entry.type = "debit"
                                        /\ txns[t].settlement = "paid"
                                        /\ txns[t].entry.date \in (e.date - Window)..(e.date - 1)}
    <3>1. prior \subseteq OnFile
      OBVIOUS
    <3>2. IsFiniteSet(prior)
      BY <3>1, FS_Subset DEF FileInv
    <3>3. Cardinality(prior) \in Nat
      BY <3>2, FS_CardinalityType
    <3> QED BY <3>3 DEF PriorSettled
  <2> QED BY <2>2, <2>3, <2>4
<1> QED BY <1>1, <1>3, <1>4, <1>5, <1>6, <1>7

\* What was judged stays judged: a transaction on file stays there, with its
\* entry and its match, and once labelled never is as if it had not been.
LEMMA JudgedKept ==
  ASSUME FileInv, NEW x, Judged(x),
         \A u \in OnFile : /\ txns'[u] # None
                           /\ txns'[u].match = txns[u].match /\ txns'[u].entry = txns[u].entry
                           /\ txns'[u].label = "none" => txns[u].label = "none"
  PROVE  Judged(x)'
<1>1. x.read \subseteq OnFile /\ x.read \subseteq OnFile'
  BY DEF Judged, OnFile
<1>2. Earlier(x)' \subseteq Earlier(x) /\ Earlier(x) \subseteq OnFile
  BY <1>1 DEF Earlier, Cleared, OnFile
<1>3. PICK E : E = Earlier(x)'
  OBVIOUS
<1>4. /\ Cardinality(E) \in Nat /\ Cardinality(Earlier(x)) \in Nat
      /\ Cardinality(E) <= Cardinality(Earlier(x))
  BY <1>2, <1>3, FS_Subset, FS_CardinalityType DEF FileInv
<1>5. ASSUME ClearedUnder(x) PROVE ClearedUnder(x)'
  <2>1. x.rule \in Rules
    BY <1>5 DEF ClearedUnder, Judged
  <2>2. x.rule.freq \in Nat \cup {None}
    BY <2>1, RuleType
  <2>3. x.rule.freq # None => Cardinality(E) < x.rule.freq
    <3>1. x.rule.freq # None => Cardinality(Earlier(x)) < x.rule.freq
      BY <1>5 DEF ClearedUnder
    <3> QED BY <1>4, <2>2, <3>1
  <2> QED BY <1>3, <1>5, <2>3 DEF ClearedUnder
<1> QED BY <1>1, <1>5 DEF Judged

\* A new submission is judged by what is on file.
LEMMA JudgedEvaluate ==
  ASSUME IInv, NEW t \in Traces, NEW e \in Entries, NEW o \in Outcomes(e)
  PROVE  Judged(Submission(t, e, o))
<1> DEFINE x == Submission(t, e, o)
<1>1. /\ x.entry = e /\ x.why = o[1] /\ x.rule = o[2] /\ x.seen = Candidates(e) /\ x.read = OnFile
  BY DEF Submission
<1> HIDE DEF x
<1>3. ASSUME e.type = "debit", o[1] = {} PROVE ClearedUnder(x)
  <2>1. /\ o[2] \in Candidates(e)
        /\ (\E r \in Candidates(e) : r.receiver = e.receiver) => o[2].receiver = e.receiver
        /\ o[2].max # None => e.amount <= o[2].max
        /\ o[2].freq # None => PriorSettled(e) < o[2].freq
    BY <1>3, ClearOutcome DEF IInv
  <2>2. \A u \in OnFile :
          txns[u].match = "matched" /\ txns[u].label = "none" <=> txns[u].settlement = "paid"
    BY DEF IInv, TransactionInv, SettlementIsExplained, Refused
  <2>3. Earlier(x) = {u \in OnFile : /\ txns[u].entry.type = "debit"
                                     /\ txns[u].settlement = "paid"
                                     /\ txns[u].entry.date \in (e.date - Window)..(e.date - 1)}
    BY <1>1, <2>2 DEF Earlier, Cleared
  <2>4. Cardinality(Earlier(x)) = PriorSettled(e)
    BY <2>3 DEF PriorSettled
  <2> QED BY <1>1, <2>1, <2>4 DEF ClearedUnder
<1>4. Candidates(e) \subseteq Rules
  BY DEF Candidates
<1> QED BY <1>1, <1>3, <1>4 DEF Judged, x

\* Judgements say nothing of what a submission became: a transaction is judged
\* as the submission was that it comes from.
LEMMA JudgedAlike ==
  ASSUME NEW x, NEW y, y.entry = x.entry, y.why = x.why, y.rule = x.rule, y.seen = x.seen,
         y.read = x.read, Judged(x)
  PROVE  Judged(y)
BY DEF Judged, ClearedUnder, Earlier

LEMMA JudgedStep == IInv /\ [Next]_vars => JudgedInv'
<1> SUFFICES ASSUME IInv, [Next]_vars PROVE JudgedInv'
  OBVIOUS
<1>1. ASSUME \A u \in OnFile : /\ txns'[u] # None
                               /\ txns'[u].match = txns[u].match /\ txns'[u].entry = txns[u].entry
                               /\ txns'[u].label = "none" => txns[u].label = "none",
             NEW x, Judged(x)
      PROVE  Judged(x)'
  BY <1>1, JudgedKept DEF IInv
<1>2. ASSUME txns' = txns, pending' \subseteq pending PROVE JudgedInv'
  <2>1. OnFile' = OnFile
    BY <1>2 DEF OnFile
  <2>2. ASSUME NEW x \in pending' \cup {txns'[t] : t \in OnFile'} PROVE Judged(x)'
    <3>1. Judged(x)
      BY <1>2, <2>1, <2>2 DEF IInv, JudgedInv
    <3> QED BY <1>1, <1>2, <3>1 DEF OnFile
  <2> QED BY <2>2 DEF JudgedInv
<1>3. ASSUME NEW t \in Traces, NEW e \in Entries, Evaluate(t, e) PROVE JudgedInv'
  <2>1. PICK o \in Outcomes(e) : pending' = pending \cup {Submission(t, e, o)}
    BY <1>3, EvaluateStep DEF IInv
  <2>2. txns' = txns /\ OnFile' = OnFile
    BY <1>3 DEF Evaluate, OnFile
  <2>3. ASSUME NEW x \in pending' \cup {txns'[u] : u \in OnFile'} PROVE Judged(x)'
    <3>1. Judged(x)
      BY <2>1, <2>2, <2>3, JudgedEvaluate DEF IInv, JudgedInv
    <3> QED BY <1>1, <2>2, <3>1 DEF OnFile
  <2> QED BY <2>3 DEF JudgedInv
<1>4. ASSUME NEW p \in pending, Ingest(p) PROVE JudgedInv'
  <2>1. p \in Evaluation /\ txns' = [txns EXCEPT ![p.trace] = Row(p)] /\ pending' = pending \ {p}
    BY <1>4, IngestStep DEF IInv
  <2>2. txns[p.trace] = None /\ p.trace \in Traces
    BY <2>1, EvaluationType DEF IInv, PendingInv
  <2>3. /\ txns'[p.trace] = Row(p) /\ \A u \in OnFile : txns'[u] = txns[u]
        /\ OnFile' = OnFile \cup {p.trace}
    BY <2>1, <2>2, RowFacts DEF IInv, TypeOK, OnFile
  <2>4. Judged(Row(p))
    BY <2>1, RowFacts, JudgedAlike DEF IInv, JudgedInv
  <2>5. ASSUME NEW x \in pending' \cup {txns'[u] : u \in OnFile'} PROVE Judged(x)'
    <3>1. Judged(x)
      BY <2>1, <2>3, <2>4, <2>5 DEF IInv, JudgedInv
    <3>2. \A u \in OnFile : txns'[u] # None
      BY <2>3 DEF OnFile
    <3> QED BY <1>1, <2>3, <3>1, <3>2
  <2> QED BY <2>5 DEF JudgedInv
<1>5. ASSUME NEW p \in pending, Reject(p) PROVE JudgedInv'
  BY <1>2, <1>5 DEF Reject
<1>6. ASSUME NEW r \in Rules, CreateAuthorization(r) \/ RevokeAuthorization(r) PROVE JudgedInv'
  BY <1>2, <1>6 DEF CreateAuthorization, RevokeAuthorization
<1>7. ASSUME NEW b \in BOOLEAN, SetDebitBlock(b) PROVE JudgedInv'
  BY <1>2, <1>7 DEF SetDebitBlock
<1>8. ASSUME NEW t \in Traces, Amend(t) PROVE JudgedInv'
  <2>1. /\ txns[t] # None /\ txns'[t] # None /\ Amended(txns[t], txns'[t])
        /\ \A u \in Traces \ {t} : txns'[u] = txns[u]
        /\ OnFile' = OnFile /\ OnFile \subseteq Traces /\ pending' = pending
    BY <1>8, AmendStep DEF IInv, OnFile
  <2>3. ASSUME NEW u \in OnFile PROVE Judged(txns'[u])
    <3>1. Judged(txns[u])
      BY <2>3 DEF IInv, JudgedInv
    <3> QED BY <2>1, <3>1, JudgedAlike DEF Amended
  <2>4. \A u \in OnFile : /\ txns'[u] # None
                          /\ txns'[u].match = txns[u].match /\ txns'[u].entry = txns[u].entry
                          /\ txns'[u].label = "none" => txns[u].label = "none"
    BY <2>1 DEF OnFile, Amended
  <2>5. ASSUME NEW x \in pending' \cup {txns'[u] : u \in OnFile'} PROVE Judged(x)'
    <3>1. Judged(x)
      BY <2>1, <2>3, <2>5 DEF IInv, JudgedInv
    <3> QED BY <1>1, <2>4, <3>1
  <2> QED BY <2>5 DEF JudgedInv
<1>9. ASSUME NEW t \in Traces, NEW e \in Entries, LabelRaw(t, e) PROVE JudgedInv'
  <2>1. /\ txns'[t] = Example(e) /\ pending' = pending /\ t \notin OnFile
        /\ \A u \in Traces \ {t} : txns'[u] = txns[u]
        /\ OnFile' = OnFile \cup {t} /\ OnFile \subseteq Traces /\ Example(e) # None
    BY <1>9, LabelRawStep DEF IInv, OnFile
  <2>2. Judged(Example(e))
    BY DEF Judged, Example
  <2>3. \A u \in OnFile : txns'[u] = txns[u] /\ txns'[u] # None
    BY <2>1 DEF OnFile
  <2>4. ASSUME NEW x \in pending' \cup {txns'[u] : u \in OnFile'} PROVE Judged(x)'
    <3>1. Judged(x)
      BY <2>1, <2>2, <2>3, <2>4 DEF IInv, JudgedInv
    <3> QED BY <1>1, <2>3, <3>1
  <2> QED BY <2>4 DEF JudgedInv
<1>10. ASSUME NEW s \in Statements, NEW S \in SUBSET Traces, SignStatement(s, S) PROVE JudgedInv'
  BY <1>2, <1>10 DEF SignStatement
<1>11. CASE UNCHANGED vars
  BY <1>2, <1>11 DEF vars
<1> QED BY <1>3, <1>4, <1>5, <1>6, <1>7, <1>8, <1>9, <1>10, <1>11, NextSteps

-----------------------------------------------------------------------------
(* What is on file, and the statements over it.                            *)

LEMMA PendingStep == IInv /\ [Next]_vars => PendingInv' /\ FileInv'
<1> SUFFICES ASSUME IInv, [Next]_vars PROVE PendingInv' /\ FileInv'
  OBVIOUS
<1>0. IsFiniteSet(pending')
  BY TypeStep DEF IInv
<1>1. ASSUME OnFile' = OnFile, pending' \subseteq pending,
             \A t \in Traces : txns[t] = None => txns'[t] = None
      PROVE  PendingInv' /\ FileInv'
  <2>1. \A p \in pending : p.trace \in Traces
    BY EvaluationType DEF IInv, TypeOK
  <2> QED BY <1>0, <1>1, <2>1 DEF IInv, PendingInv, FileInv
<1>2. ASSUME NEW t \in Traces, NEW e \in Entries, Evaluate(t, e) PROVE PendingInv' /\ FileInv'
  <2>1. PICK o \in Outcomes(e) : pending' = pending \cup {Submission(t, e, o)}
    BY <1>2, EvaluateStep DEF IInv
  <2>2. /\ Submission(t, e, o).trace = t
        /\ Submission(t, e, o).entry.type = "credit" => Submission(t, e, o).why = {}
    BY DEF Submission, Outcomes
  <2>3. /\ txns' = txns /\ OnFile' = OnFile /\ txns[t] = None
        /\ \A p \in pending : p.trace # t
    BY <1>2 DEF Evaluate, OnFile
  <2> QED BY <1>0, <2>1, <2>2, <2>3 DEF IInv, PendingInv, FileInv
<1>3. ASSUME NEW p \in pending, Ingest(p) PROVE PendingInv' /\ FileInv'
  <2>1. /\ p \in Evaluation /\ p.trace \in Traces
        /\ txns' = [txns EXCEPT ![p.trace] = Row(p)] /\ pending' = pending \ {p}
    BY <1>3, IngestStep, EvaluationType DEF IInv
  <2>2. OnFile' = OnFile \cup {p.trace}
    BY <2>1, RowFacts DEF IInv, TypeOK, OnFile
  <2>3. FileInv'
    BY <2>2, FS_AddElement DEF IInv, FileInv
  <2>4. \A q \in pending' : q.trace # p.trace /\ txns'[q.trace] = None
    BY <2>1, EvaluationType DEF IInv, PendingInv, TypeOK
  <2> QED BY <1>0, <2>1, <2>3, <2>4 DEF IInv, PendingInv
<1>4. ASSUME NEW p \in pending, Reject(p) PROVE PendingInv' /\ FileInv'
  BY <1>1, <1>4 DEF Reject, OnFile
<1>5. ASSUME NEW r \in Rules, CreateAuthorization(r) \/ RevokeAuthorization(r)
      PROVE  PendingInv' /\ FileInv'
  BY <1>1, <1>5 DEF CreateAuthorization, RevokeAuthorization, OnFile
<1>6. ASSUME NEW b \in BOOLEAN, SetDebitBlock(b) PROVE PendingInv' /\ FileInv'
  BY <1>1, <1>6 DEF SetDebitBlock, OnFile
<1>7. ASSUME NEW t \in Traces, Amend(t) PROVE PendingInv' /\ FileInv'
  <2>1. /\ txns[t] # None /\ OnFile' = OnFile /\ pending' = pending
        /\ \A u \in Traces \ {t} : txns'[u] = txns[u]
    BY <1>7, AmendStep DEF IInv
  <2> QED BY <1>1, <2>1
<1>8. ASSUME NEW t \in Traces, NEW e \in Entries, LabelRaw(t, e) PROVE PendingInv' /\ FileInv'
  <2>1. /\ OnFile' = OnFile \cup {t} /\ pending' = pending /\ \A p \in pending : p.trace # t
        /\ \A u \in Traces \ {t} : txns'[u] = txns[u]
    BY <1>8, LabelRawStep DEF IInv
  <2>2. FileInv'
    BY <2>1, FS_AddElement DEF IInv, FileInv
  <2>3. \A p \in pending : p.trace \in Traces /\ txns'[p.trace] = None
    BY <2>1, EvaluationType DEF IInv, PendingInv, TypeOK
  <2> QED BY <1>0, <2>1, <2>2, <2>3 DEF IInv, PendingInv
<1>9. ASSUME NEW s \in Statements, NEW S \in SUBSET Traces, SignStatement(s, S)
      PROVE  PendingInv' /\ FileInv'
  BY <1>1, <1>9 DEF SignStatement, OnFile
<1>10. CASE UNCHANGED vars
  BY <1>1, <1>10 DEF vars, OnFile
<1> QED BY <1>2, <1>3, <1>4, <1>5, <1>6, <1>7, <1>8, <1>9, <1>10, NextSteps

Kept == TransactionInv /\ SettlementIsExplained /\ StatementsStand

LEMMA KeptStep == IInv /\ [Next]_vars => Kept'
<1> SUFFICES ASSUME IInv, [Next]_vars PROVE Kept'
  OBVIOUS
<1>0. \A t \in OnFile : t \in Traces /\ txns[t] \in Transaction
  BY DEF IInv, TypeOK, OnFile
<1>1. txns' = txns /\ statements' = statements => Kept'
  BY DEF IInv, Kept, TransactionInv, SettlementIsExplained, StatementsStand, Eligible, Refused, OnFile
<1>2. ASSUME NEW p \in pending, Ingest(p) PROVE Kept'
  <2>1. /\ p \in Evaluation /\ p.trace \in Traces /\ txns[p.trace] = None
        /\ txns' = [txns EXCEPT ![p.trace] = Row(p)] /\ statements' = statements
    BY <1>2, IngestStep, EvaluationType DEF IInv, PendingInv, Ingest
  <2>2. /\ OnFile' = OnFile \cup {p.trace} /\ txns'[p.trace] = Row(p) /\ p.trace \notin OnFile
        /\ \A t \in OnFile : txns'[t] = txns[t]
    BY <2>1, RowFacts DEF IInv, TypeOK, OnFile
  <2>3. p.why # {} => p.entry.type = "debit"
    <3>1. p.entry \in Entries /\ (p.entry.type = "credit" => p.why = {})
      BY <1>2, <2>1, EvaluationType DEF IInv, PendingInv
    <3> QED BY <3>1, EntryType
  <2>4. TransactionInv'
    BY <2>1, <2>2, <2>3, RowFacts DEF IInv, TransactionInv
  <2>5. SettlementIsExplained'
    <3>1. ~Refused(Row(p)) /\ Row(p).settlement # "returned"
      BY <2>1, RowFacts DEF Refused
    <3>2. Row(p).settlement = "paid" <=> Row(p).why = {}
      BY <2>1, RowFacts
    <3>3. ASSUME NEW u \in OnFile'
          PROVE  /\ txns'[u].settlement = "returned" <=> Refused(txns'[u])
                 /\ txns'[u].settlement = "paid" <=> txns'[u].why = {} /\ ~Refused(txns'[u])
      <4>1. CASE u = p.trace
        BY <2>2, <3>1, <3>2, <4>1
      <4>2. CASE u \in OnFile
        BY <2>2, <4>2 DEF IInv, SettlementIsExplained
      <4> QED BY <2>2, <4>1, <4>2
    <3> QED BY <3>3 DEF SettlementIsExplained, Refused
  <2>6. StatementsStand'
    BY <2>1, <2>2 DEF IInv, StatementsStand, Eligible, Refused
  <2> QED BY <2>4, <2>5, <2>6 DEF Kept
<1>3. ASSUME NEW t \in Traces, Amend(t) PROVE Kept'
  <2>1. /\ t \in OnFile /\ OnFile' = OnFile /\ OnFile \subseteq Traces
        /\ Amended(txns[t], txns'[t])
        /\ \A u \in Traces \ {t} : txns'[u] = txns[u]
        /\ statements' = statements
    BY <1>3, AmendStep DEF IInv, OnFile
  <2>2. PICK y : y = txns'[t]
    OBVIOUS
  <2>3. /\ txns[t].match = "matched" <=> txns[t].why = {}
        /\ txns[t].why = {} => txns[t].exception = "none"
        /\ txns[t].exception # "none" => txns[t].entry.type = "debit"
        /\ txns[t].settlement = "returned" <=> Refused(txns[t])
        /\ txns[t].settlement = "paid" <=> txns[t].why = {} /\ ~Refused(txns[t])
    BY <2>1 DEF IInv, TransactionInv, SettlementIsExplained
  <2>4. /\ y.match = "matched" <=> y.why = {}
        /\ y.why = {} => y.exception = "none"
        /\ y.exception # "none" => y.entry.type = "debit"
    BY <2>1, <2>2, <2>3 DEF Amended
  <2>5. /\ y.settlement = "returned" <=> Refused(y)
        /\ y.settlement = "paid" <=> y.why = {} /\ ~Refused(y)
    BY <2>1, <2>2, <2>3 DEF Amended
  <2>6. TransactionInv'
    BY <2>1, <2>2, <2>4 DEF IInv, TransactionInv
  <2>7. SettlementIsExplained'
    BY <2>1, <2>2, <2>5 DEF IInv, SettlementIsExplained, Refused
  <2>8. ASSUME NEW s \in Statements, NEW u \in statements[s]
        PROVE  /\ u \in OnFile /\ txns'[u].settlement = "returned" /\ txns'[u].entry = txns[u].entry
               /\ txns[u].entry.sec \in Consumer
               /\ txns'[u].entry.type = "credit" => txns'[u].label # "none"
    <3>1. /\ u \in OnFile /\ txns[u].settlement = "returned" /\ txns[u].entry.sec \in Consumer
          /\ txns[u].entry.type = "credit" => txns[u].label # "none"
      BY <2>8 DEF IInv, StatementsStand, Eligible
    <3>2. txns'[t].settlement = "returned" \/ txns'[t].settlement = txns[t].settlement
      BY <2>1 DEF Amended
    <3> QED BY <2>1, <3>1, <3>2 DEF Amended
  <2>9. StatementsStand'
    BY <2>1, <2>7, <2>8 DEF StatementsStand, Eligible, SettlementIsExplained
  <2> QED BY <2>6, <2>7, <2>9 DEF Kept
<1>4. ASSUME NEW s \in Statements, NEW S \in SUBSET Traces, SignStatement(s, S) PROVE Kept'
  <2>1. txns' = txns /\ statements' = [statements EXCEPT ![s] = S] /\ S \subseteq Eligible
    BY <1>4 DEF SignStatement, Signable
  <2>2. ASSUME NEW t \in S
        PROVE  Refused(txns[t]) /\ (txns[t].entry.type = "credit" => txns[t].label # "none")
    <3>1. t \in OnFile /\ txns[t].settlement = "returned"
      BY <2>1 DEF Eligible
    <3>2. Refused(txns[t]) /\ (txns[t].exception # "none" => txns[t].entry.type = "debit")
      BY <3>1 DEF IInv, SettlementIsExplained, TransactionInv
    <3> QED BY <3>2 DEF Refused
  <2>3. StatementsStand'
    BY <2>1, <2>2 DEF IInv, TypeOK, StatementsStand, Eligible, Refused, OnFile
  <2> QED BY <2>1, <2>3
          DEF Kept, IInv, TransactionInv, SettlementIsExplained, Refused, OnFile
<1>10. ASSUME NEW t \in Traces, NEW e \in Entries, LabelRaw(t, e) PROVE Kept'
  <2>1. /\ OnFile' = OnFile \cup {t} /\ t \notin OnFile /\ OnFile \subseteq Traces
        /\ txns'[t] = Example(e) /\ \A u \in Traces \ {t} : txns'[u] = txns[u]
        /\ statements' = statements
    BY <1>10, LabelRawStep DEF IInv, OnFile
  <2>2. \A u \in OnFile : txns'[u] = txns[u]
    BY <2>1
  <2>3. /\ Example(e).match = "exception" /\ Example(e).settlement = "returned"
        /\ Example(e).exception = "none" /\ Example(e).why # {} /\ Refused(Example(e))
    BY DEF Example, Refused
  <2>4. TransactionInv'
    BY <2>1, <2>2, <2>3 DEF IInv, TransactionInv
  <2>5. SettlementIsExplained'
    <3>1. ASSUME NEW u \in OnFile'
          PROVE  /\ txns'[u].settlement = "returned" <=> Refused(txns'[u])
                 /\ txns'[u].settlement = "paid" <=> txns'[u].why = {} /\ ~Refused(txns'[u])
      <4>1. CASE u = t
        BY <2>1, <2>3, <4>1
      <4>2. CASE u \in OnFile
        BY <2>2, <4>2 DEF IInv, SettlementIsExplained
      <4> QED BY <2>1, <4>1, <4>2
    <3> QED BY <3>1 DEF SettlementIsExplained, Refused
  <2>6. StatementsStand'
    BY <2>1, <2>2 DEF IInv, StatementsStand, Eligible, Refused
  <2> QED BY <2>4, <2>5, <2>6 DEF Kept
<1>5. ASSUME NEW t \in Traces, NEW e \in Entries, Evaluate(t, e)
      PROVE  txns' = txns /\ statements' = statements
  BY <1>5 DEF Evaluate
<1>6. ASSUME NEW p \in pending, Reject(p) PROVE txns' = txns /\ statements' = statements
  BY <1>6 DEF Reject
<1>7. ASSUME NEW r \in Rules, CreateAuthorization(r) \/ RevokeAuthorization(r)
      PROVE  txns' = txns /\ statements' = statements
  BY <1>7 DEF CreateAuthorization, RevokeAuthorization
<1>8. ASSUME NEW b \in BOOLEAN, SetDebitBlock(b) PROVE txns' = txns /\ statements' = statements
  BY <1>8 DEF SetDebitBlock
<1>9. UNCHANGED vars => txns' = txns /\ statements' = statements
  BY DEF vars
<1> QED BY <1>1, <1>2, <1>3, <1>4, <1>5, <1>6, <1>7, <1>8, <1>9, <1>10, NextSteps

LEMMA IInvInit == Init => IInv
<1> SUFFICES ASSUME Init PROVE IInv
  OBVIOUS
<1>1. OnFile = {} /\ pending = {}
  BY DEF Init, OnFile
<1>2. IsFiniteSet(pending) /\ Cardinality(pending) = 0 /\ IsFiniteSet(OnFile)
  BY <1>1, FS_EmptySet
<1>3. TypeOK
  BY <1>1, <1>2, ConstantsAssumption DEF Init, TypeOK
<1>4. JudgedInv /\ PendingInv /\ FileInv /\ TransactionInv /\ SettlementIsExplained
  BY <1>1, <1>2 DEF JudgedInv, PendingInv, FileInv, TransactionInv, SettlementIsExplained
<1>5. StatementsStand
  BY DEF Init, StatementsStand
<1> QED BY <1>3, <1>4, <1>5 DEF IInv

LEMMA IInvStep == IInv /\ [Next]_vars => IInv'
BY TypeStep, JudgedStep, PendingStep, KeptStep DEF IInv, Kept

LEMMA Invariance == Spec => []IInv
BY IInvInit, IInvStep, PTL DEF Spec

\* The tables keep their types, no more submissions are under way than there
\* are slots, and every settlement has its reason: returned is what a person
\* refused or labelled, and paid what matching found nothing against, whatever
\* was decided, labelled, withdrawn or signed since (networks/ach/ingestion.py,
\* services/fraud_training_service.py).
THEOREM SettlementsAreExplained == Spec => []EntriesAgree
<1>1. IInv => EntriesAgree
  BY DEF IInv, EntriesAgree
<1> QED BY Invariance, <1>1, PTL

\* What a customer attested stays true: the entries a statement covers were
\* refused by a person, the credits among them labelled as fraud, and nothing
\* makes them anything but returned afterwards (services/wsud_service.py).
THEOREM AttestedStaysTrue == Spec => []StatementsStand
<1>1. IInv => StatementsStand
  BY DEF IInv
<1> QED BY Invariance, <1>1, PTL

\* Whatever authorizations are given and revoked while submissions are handled,
\* a debit clears only within the amount of an authorization of its own
\* receiver, if it has any, and only under the count of clearings it had before
\* it and that were not labelled as fraud (networks/ach/rules.py, adapter.py).
THEOREM LimitsAreKept == Spec => []LimitsHold
<1>1. IInv => LimitsHold
  <2> SUFFICES ASSUME IInv PROVE LimitsHold
    OBVIOUS
  <2>1. ASSUME NEW t \in Cleared PROVE ClearedUnder(txns[t]) /\ txns[t].seen \subseteq Rules
    <3>1. t \in OnFile /\ t \in Traces /\ txns[t].match = "matched" /\ txns[t].entry.type = "debit"
      BY DEF Cleared, OnFile
    <3>2. txns[t].why = {} /\ Judged(txns[t])
      BY <3>1 DEF IInv, TransactionInv, JudgedInv
    <3> QED BY <3>1, <3>2 DEF Judged
  <2>2. TighterLimitHolds
    BY <2>1 DEF TighterLimitHolds, ClearedUnder
  <2>3. LimitCountsEarlierDays
    BY <2>1 DEF LimitCountsEarlierDays, ClearedUnder, Earlier
  <2> QED BY <2>2, <2>3 DEF LimitsHold
<1> QED BY Invariance, <1>1, PTL

-----------------------------------------------------------------------------
(***************************************************************************)
(* Theorems about BulkFiles.                                               *)
(*                                                                         *)
(* The inductive invariant.  It says of the records read so far what the   *)
(* properties say of an accepted file; of a rejected one only the types.   *)
(***************************************************************************)

Record == [kind: {"item"}, item: Items] \cup [kind: {"image"}, image: Images]
          \cup [kind: {"header", "letterHeader"}, date: Dates] \cup [kind: {"header", "unreadable"}]
          \cup [kind: Levels, totals: Declared]

\* The check being collected is an item, and NACHA has none; before the first
\* check of X9.37 nothing is handed on.
CurrentInv ==
  /\ lines \in Seq(Record)
  /\ current # NoValue => /\ format = "x937" /\ current \in 1..Len(lines)
                          /\ lines[current].kind = "item"
  /\ format = "x937" /\ verdict = "reading" /\ current = NoValue => result = <<>>

\* Items since the last header of a level.
Since(file, level) ==
  LinesOf(file, "item", LastBefore(file, Len(file) + 1, Opening[level]) + 1, Len(file))

\* The running totals are those of the records since the header of their level;
\* NACHA has no letters.
Running(file, totals) ==
  \A l \in Levels : (l = "letter" => format = "x937") => totals[l] = Sum(file, Since(file, l))

\* What ControlsAgree says.
Declaring(file) ==
  \A k \in 1..Len(file) :
    file[k].kind \in Levels =>
      LET header == LastBefore(file, k, Opening[file[k].kind])
      IN  file[k].totals = Shown(Sum(file, LinesOf(file, "item", header + 1, k)))

TotalsInv == verdict # "rejected" => Running(lines, sums) /\ Declaring(lines)

\* A batch is open before line k as long as no control came after its header.
OpenAt(file, k) == LastBefore(file, k, {"header"}) > LastBefore(file, k, {"batch"})

BatchInv == format = "nacha" /\ verdict # "rejected" =>
  /\ batch = IF OpenAt(lines, Len(lines) + 1)
             THEN lines[LastBefore(lines, Len(lines) + 1, {"header"})].date
             ELSE NoValue
  /\ \A n \in 1..Len(result) :
       /\ OpenAt(lines, result[n].line)
       /\ result[n].date = lines[LastBefore(lines, result[n].line, {"header"})].date

\* What was handed on, the check being collected included.
Handed == IF verdict = "reading" THEN Flushed ELSE result

\* What EveryItemOnce says.
Once(file, handed) ==
  /\ {handed[n].line : n \in 1..Len(handed)} = LinesOf(file, "item", 1, Len(file))
  /\ \A m, n \in 1..Len(handed) : m < n => handed[m].line < handed[n].line
  /\ \A n \in 1..Len(handed) : handed[n].item = file[handed[n].line].item

ItemsInv == verdict # "rejected" => Once(lines, Handed)

\* What ImagesAreTheChecks says of the n-th check.
Own(file, handed, n) ==
  LinesOf(file, "image", handed[n].line,
          (IF n = Len(handed) THEN Len(file) + 1 ELSE handed[n + 1].line) - 1)

HasOwn(file, handed, n) ==
  /\ IsImage(file, handed[n].front, 1, Own(file, handed, n))
  /\ IsImage(file, handed[n].back, 2, Own(file, handed, n))

\* The images collected are those of the records since the line of their check.
Collected(file, line, collected) ==
  LET own == LinesOf(file, "image", line, Len(file)) IN
  /\ Cardinality(own) = Len(collected)
  /\ \A k \in 1..Len(collected) :
       \E j \in own : Cardinality({i \in own : i <= j}) = k /\ collected[k] = file[j].image

ImagesInv == format = "x937" /\ verdict # "rejected" =>
  /\ \A n \in 1..Len(Handed) : HasOwn(lines, Handed, n)
  /\ verdict = "reading" /\ current # NoValue => Collected(lines, current, images)

RecordsInv == FileTypeOK /\ CurrentInv /\ TotalsInv /\ BatchInv /\ ItemsInv /\ ImagesInv

-----------------------------------------------------------------------------
(* Induction, over sets of numbers and of finite sets rather than           *)
(* predicates.                                                              *)

LEMMA LeastNumber ==
  ASSUME NEW T \in SUBSET Nat, T # {}
  PROVE  \E m \in T : \A t \in T : m <= t
<1>1. PICK m \in T : \A t \in T : ~(<<t, m>> \in OpToRel(<, Nat))
  BY NatLessThanWellFounded, WFMin
<1>2. ASSUME NEW t \in T PROVE m <= t
  <2>1. m \in Nat /\ t \in Nat /\ ~(t < m)
    BY <1>1, <1>2 DEF OpToRel
  <2> QED BY <2>1
<1> QED BY <1>2

\* What holds of 0, and of a number's successor if of the number, holds of all.
LEMMA NumberInduction ==
  ASSUME NEW T \in SUBSET Nat, 0 \in T, \A n \in T : n + 1 \in T
  PROVE  T = Nat
<1> SUFFICES ASSUME Nat \ T # {} PROVE FALSE
  OBVIOUS
<1>1. PICK m \in Nat \ T : \A t \in Nat \ T : m <= t
  BY LeastNumber
<1>2. m # 0 /\ m - 1 \in Nat
  BY <1>1
<1>3. m - 1 \in T /\ (m - 1) + 1 = m
  BY <1>1, <1>2
<1> QED BY <1>1, <1>3

\* What holds of a finite set if it holds of its proper subsets holds of all.
LEMMA SubsetInduction ==
  ASSUME NEW S, IsFiniteSet(S), NEW F,
         \A U \in SUBSET S : (\A V \in SUBSET U : V # U => V \in F) => U \in F
  PROVE  S \in F
<1> DEFINE Bad == {U \in SUBSET S : U \notin F}
           Sizes == {n \in Nat : \E U \in Bad : Cardinality(U) = n}
<1> SUFFICES ASSUME S \notin F PROVE FALSE
  OBVIOUS
<1>1. \A U \in SUBSET S : IsFiniteSet(U) /\ Cardinality(U) \in Nat
  BY FS_Subset, FS_CardinalityType
<1>2. S \in Bad /\ Cardinality(S) \in Sizes
  BY <1>1
<1>3. PICK m \in Sizes : \A n \in Sizes : m <= n
  <2> HIDE DEF Bad
  <2>1. Sizes \in SUBSET Nat /\ Sizes # {}
    BY <1>2
  <2> HIDE DEF Sizes
  <2> QED BY <2>1, LeastNumber
<1>4. PICK U \in Bad : Cardinality(U) = m
  BY <1>3
<1>5. ASSUME NEW V \in SUBSET U, V # U PROVE V \in F
  <2>1. IsFiniteSet(U) /\ V \in SUBSET S /\ Cardinality(U) \in Nat /\ Cardinality(V) \in Nat
    BY <1>1, <1>4
  <2>2. Cardinality(V) <= Cardinality(U) /\ Cardinality(V) # Cardinality(U)
    BY <1>5, <2>1, FS_Subset
  <2>3. Cardinality(V) \notin Sizes
    BY <1>3, <1>4, <2>1, <2>2
  <2> QED BY <2>1, <2>3
<1> QED BY <1>4, <1>5

LEMMA LargestNumber ==
  ASSUME NEW n \in Nat, NEW T \in SUBSET (0..n), T # {}
  PROVE  Max(T) \in T /\ \A t \in T : t <= Max(T)
<1> DEFINE Above == {u \in Nat : \A t \in T : t <= u}
<1>1. n \in Above
  OBVIOUS
<1>2. PICK u \in Above : \A v \in Above : u <= v
  <2>1. Above \in SUBSET Nat /\ Above # {}
    BY <1>1
  <2> HIDE DEF Above
  <2> QED BY <2>1, LeastNumber
<1>3. u \in T
  <2> SUFFICES ASSUME u \notin T PROVE FALSE
    OBVIOUS
  <2>1. PICK t \in T : TRUE
    OBVIOUS
  <2>2. \A s \in T : s <= u /\ s # u /\ s \in Nat
    BY <1>2
  <2>3. u - 1 \in Nat
    BY <2>1, <2>2
  <2>4. u - 1 \in Above
    BY <2>2, <2>3
  <2> QED BY <1>2, <2>4
<1>4. \A t \in T : u >= t
  BY <1>2
<1> QED BY <1>3, <1>4 DEF Max

-----------------------------------------------------------------------------
(* Sums over finite sets.                                                   *)

One(s) == CHOOSE x \in s : TRUE

\* g sums w over the sets of D, which are closed under taking out an element.
Sums(w, D, g) == g = [s \in D |-> IF s = {} THEN 0 ELSE w[One(s)] + g[s \ {One(s)}]]

LEMMA SumUnfold ==
  ASSUME NEW w, NEW S
  PROVE  SumFunctionOnSet(w, S) = (CHOOSE g : Sums(w, SUBSET S, g))[S]
BY DEF SumFunctionOnSet, FoldFunctionOnSet, MapThenFoldSet, Sums, One

LEMMA SumExists ==
  ASSUME NEW S, IsFiniteSet(S), NEW w
  PROVE  \E g : Sums(w, SUBSET S, g)
<1> DEFINE Upto(n) == {s \in SUBSET S : Cardinality(s) <= n}
           Good == {n \in Nat : \E g : Sums(w, Upto(n), g)}
<1>1. \A s \in SUBSET S : /\ IsFiniteSet(s) /\ Cardinality(s) \in Nat
                          /\ s # {} => /\ One(s) \in s /\ s \ {One(s)} \in SUBSET S
                                       /\ Cardinality(s \ {One(s)}) = Cardinality(s) - 1
  <2> TAKE s \in SUBSET S
  <2>1. IsFiniteSet(s) /\ Cardinality(s) \in Nat /\ Cardinality(s) <= Cardinality(S)
    BY FS_Subset, FS_CardinalityType
  <2>2. s # {} => One(s) \in s
    BY DEF One
  <2> QED BY <2>1, <2>2, FS_RemoveElement
<1>2. 0 \in Good
  <2>1. Upto(0) = {{}}
    <3>1. ASSUME NEW s \in SUBSET S PROVE Cardinality(s) <= 0 <=> s = {}
      <4>1. IsFiniteSet(s) /\ Cardinality(s) \in Nat
        BY <1>1
      <4>2. Cardinality(s) = 0 <=> s = {}
        BY <4>1, FS_EmptySet
      <4> QED BY <4>1, <4>2
    <3> QED BY <3>1
  <2>2. Sums(w, Upto(0), [s \in Upto(0) |-> 0])
    BY <2>1 DEF Sums
  <2> QED BY <2>2
<1>3. ASSUME NEW n \in Good PROVE n + 1 \in Good
  <2>1. PICK g : Sums(w, Upto(n), g)
    BY <1>3
  <2> DEFINE h == [s \in Upto(n + 1) |-> IF s \in Upto(n) THEN g[s] ELSE w[One(s)] + g[s \ {One(s)}]]
  <2>2. ASSUME NEW s \in Upto(n + 1)
        PROVE  h[s] = IF s = {} THEN 0 ELSE w[One(s)] + h[s \ {One(s)}]
    <3>1. CASE s = {}
      <4>1. s \in Upto(n)
        BY <3>1, FS_EmptySet
      <4>2. g[s] = 0
        BY <2>1, <3>1, <4>1 DEF Sums
      <4> QED BY <3>1, <4>1, <4>2
    <3>2. CASE s # {}
      <4>1. One(s) \in s /\ s \ {One(s)} \in Upto(n) /\ s \ {One(s)} \in Upto(n + 1)
        BY <1>1, <3>2
      <4>2. h[s \ {One(s)}] = g[s \ {One(s)}]
        BY <4>1
      <4>3. s \in Upto(n) => g[s] = w[One(s)] + g[s \ {One(s)}]
        BY <2>1, <3>2 DEF Sums
      <4> QED BY <3>2, <4>2, <4>3
    <3> QED BY <3>1, <3>2
  <2>3. Sums(w, Upto(n + 1), h)
    BY <2>2 DEF Sums
  <2>4. n + 1 \in Nat
    OBVIOUS
  <2> HIDE DEF h, Upto
  <2> QED BY <2>3, <2>4
<1>4. Good = Nat
  <2>1. Good \in SUBSET Nat
    OBVIOUS
  <2> HIDE DEF Good
  <2> QED BY <1>2, <1>3, <2>1, NumberInduction
<1>5. Cardinality(S) \in Nat /\ Upto(Cardinality(S)) = SUBSET S
  BY <1>1, FS_Subset
<1> QED BY <1>4, <1>5

LEMMA SumOver ==
  ASSUME NEW S, IsFiniteSet(S), NEW w
  PROVE  \E g : Sums(w, SUBSET S, g) /\ SumFunctionOnSet(w, S) = g[S]
<1> DEFINE g == CHOOSE g : Sums(w, SUBSET S, g)
<1>1. Sums(w, SUBSET S, g)
  BY SumExists
<1> QED BY <1>1, SumUnfold

\* Sums of the same numbers are the same, whatever sets they were made for.
LEMMA SumsAgree ==
  ASSUME NEW S, IsFiniteSet(S), NEW R, NEW w, NEW v, NEW g, NEW h, NEW T, T \subseteq S, T \subseteq R,
         Sums(w, SUBSET S, g), Sums(v, SUBSET R, h), \A x \in T : w[x] = v[x]
  PROVE  g[T] = h[T]
<1> DEFINE F == {U \in SUBSET T : g[U] = h[U]}
<1>1. IsFiniteSet(T)
  BY FS_Subset
<1>2. ASSUME NEW U \in SUBSET T, \A V \in SUBSET U : V # U => V \in F
      PROVE  U \in F
  <2>1. CASE U = {}
    <3>1. g[U] = 0 /\ h[U] = 0
      BY <2>1 DEF Sums
    <3> QED BY <3>1
  <2>2. CASE U # {}
    <3>1. One(U) \in U
      BY <2>2 DEF One
    <3>2. g[U] = w[One(U)] + g[U \ {One(U)}] /\ h[U] = v[One(U)] + h[U \ {One(U)}]
      BY <2>2 DEF Sums
    <3>3. U \ {One(U)} \in F
      <4>1. U \ {One(U)} \in SUBSET U /\ U \ {One(U)} # U
        BY <3>1
      <4> QED BY <1>2, <4>1
    <3> QED BY <3>1, <3>2, <3>3
  <2> QED BY <2>1, <2>2
<1>3. T \in F
  <2> HIDE DEF F
  <2> QED BY <1>1, <1>2, SubsetInduction
<1> QED BY <1>3

\* Any element may be taken out first.
LEMMA SumsSplit ==
  ASSUME NEW S, IsFiniteSet(S), NEW w, \A x \in S : w[x] \in Nat, NEW g, Sums(w, SUBSET S, g)
  PROVE  \A T \in SUBSET S : g[T] \in Nat /\ \A x \in T : g[T] = w[x] + g[T \ {x}]
<1> DEFINE Splits(U) == g[U] \in Nat /\ \A x \in U : g[U] = w[x] + g[U \ {x}]
<1> SUFFICES ASSUME NEW T \in SUBSET S PROVE Splits(T)
  OBVIOUS
<1> DEFINE F == {U \in SUBSET T : Splits(U)}
<1>1. IsFiniteSet(T)
  BY FS_Subset
<1>2. ASSUME NEW U \in SUBSET T, \A V \in SUBSET U : V # U => V \in F
      PROVE  U \in F
  <2>1. CASE U = {}
    <3>1. g[U] = 0
      BY <2>1 DEF Sums
    <3> QED BY <2>1, <3>1
  <2>2. CASE U # {}
    <3> DEFINE c == One(U)
    <3>1. c \in U /\ w[c] \in Nat
      BY <2>2 DEF One
    <3>2. g[U] = w[c] + g[U \ {c}]
      BY <2>2 DEF Sums
    <3> HIDE DEF c
    <3>3. \A x \in U : U \ {x} \in F /\ w[x] \in Nat
      BY <1>2
    <3>4. g[U] \in Nat
      BY <3>1, <3>2, <3>3
    <3>5. ASSUME NEW x \in U, x # c PROVE g[U] = w[x] + g[U \ {x}]
      <4> DEFINE rest == (U \ {c}) \ {x}
      <4>1. rest = (U \ {x}) \ {c} /\ x \in U \ {c} /\ c \in U \ {x}
        BY <3>1, <3>5
      <4>2. g[U \ {c}] = w[x] + g[rest]
        BY <3>1, <3>3, <4>1
      <4>3. g[U \ {x}] = w[c] + g[rest]
        BY <3>3, <3>5, <4>1
      <4>4. rest \in F
        <5>1. rest \in SUBSET U /\ rest # U
          BY <3>1
        <5> HIDE DEF rest, F
        <5> QED BY <1>2, <5>1
      <4>5. g[rest] \in Nat /\ w[x] \in Nat
        BY <3>3, <3>5, <4>4
      <4> HIDE DEF rest
      <4> QED BY <3>1, <3>2, <4>2, <4>3, <4>5
    <3>6. Splits(U)
      BY <3>2, <3>4, <3>5
    <3> QED BY <3>6
  <2> QED BY <2>1, <2>2
<1>3. T \in F
  <2> HIDE DEF F
  <2> QED BY <1>1, <1>2, SubsetInduction
<1> QED BY <1>3

LEMMA SumEmpty == ASSUME NEW w PROVE SumFunctionOnSet(w, {}) = 0
<1>1. IsFiniteSet({})
  BY FS_EmptySet
<1>2. PICK g : Sums(w, SUBSET {}, g) /\ SumFunctionOnSet(w, {}) = g[{}]
  BY <1>1, SumOver
<1> QED BY <1>2 DEF Sums

LEMMA SumType ==
  ASSUME NEW S, IsFiniteSet(S), NEW w, \A x \in S : w[x] \in Nat
  PROVE  SumFunctionOnSet(w, S) \in Nat
<1>1. PICK g : Sums(w, SUBSET S, g) /\ SumFunctionOnSet(w, S) = g[S]
  BY SumOver
<1> QED BY <1>1, SumsSplit

LEMMA SumSame ==
  ASSUME NEW S, IsFiniteSet(S), NEW w, NEW v, \A x \in S : w[x] = v[x]
  PROVE  SumFunctionOnSet(w, S) = SumFunctionOnSet(v, S)
<1>1. PICK g : Sums(w, SUBSET S, g) /\ SumFunctionOnSet(w, S) = g[S]
  BY SumOver
<1>2. PICK h : Sums(v, SUBSET S, h) /\ SumFunctionOnSet(v, S) = h[S]
  BY SumOver
<1> QED BY <1>1, <1>2, SumsAgree

LEMMA SumAdd ==
  ASSUME NEW S, IsFiniteSet(S), NEW k, k \notin S, NEW w, \A x \in S \cup {k} : w[x] \in Nat
  PROVE  SumFunctionOnSet(w, S \cup {k}) = w[k] + SumFunctionOnSet(w, S)
<1> DEFINE T == S \cup {k}
<1>0. T = S \cup {k}
  OBVIOUS
<1>1. IsFiniteSet(T) /\ T \ {k} = S /\ k \in T
  BY FS_AddElement
<1>2. PICK g : Sums(w, SUBSET T, g) /\ SumFunctionOnSet(w, T) = g[T]
  BY <1>1, SumOver
<1>3. PICK h : Sums(w, SUBSET S, h) /\ SumFunctionOnSet(w, S) = h[S]
  BY SumOver
<1> HIDE DEF T
<1>4. g[T] = w[k] + g[S]
  <2>1. \A x \in T : w[x] \in Nat
    BY DEF T
  <2> QED BY <1>1, <1>2, <2>1, SumsSplit
<1>5. g[S] = h[S]
  <2>1. S \subseteq T /\ S \subseteq S /\ Sums(w, SUBSET T, g) /\ Sums(w, SUBSET S, h) /\ IsFiniteSet(T)
    BY <1>1, <1>2, <1>3
  <2> QED BY ONLY <2>1, SumsAgree
<1> QED BY <1>0, <1>2, <1>3, <1>4, <1>5
-----------------------------------------------------------------------------
(* Facts about files.                                                       *)

LEMMA RecordFacts ==
  ASSUME NEW r \in Record
  PROVE  /\ r.kind = "item" => r.item \in Items
         /\ r.kind = "image" => r.image \in Images
BY DEF Record, Levels

LEMMA FileFacts ==
  ASSUME NEW file \in Seq(Record), NEW r \in Record
  PROVE  /\ Len(file) \in Nat
         /\ Append(file, r) \in Seq(Record) /\ Len(Append(file, r)) = Len(file) + 1
         /\ \A k \in 1..Len(file) : file[k] \in Record /\ Append(file, r)[k] = file[k]
         /\ Append(file, r)[Len(file) + 1] = r
OBVIOUS

LEMMA LineFacts ==
  ASSUME NEW file, NEW kind, NEW from \in Nat, NEW to \in Nat
  PROVE  /\ LinesOf(file, kind, from, to) \subseteq from..to
         /\ IsFiniteSet(LinesOf(file, kind, from, to))
         /\ to < from => LinesOf(file, kind, from, to) = {}
<1>1. LinesOf(file, kind, from, to) \subseteq from..to
  BY DEF LinesOf
<1>2. IsFiniteSet(from..to)
  BY FS_Interval
<1>3. IsFiniteSet(LinesOf(file, kind, from, to))
  BY <1>1, <1>2, FS_Subset
<1> QED BY <1>1, <1>3

\* Reading one record more changes no lines before it, adds it to those of its
\* kind, and to no others.
LEMMA LinesKept ==
  ASSUME NEW file \in Seq(Record), NEW r \in Record, NEW kind, NEW from \in 1..(Len(file) + 1),
         NEW to \in 0..Len(file)
  PROVE  LinesOf(Append(file, r), kind, from, to) = LinesOf(file, kind, from, to)
<1>1. Len(file) \in Nat /\ \A k \in 1..Len(file) : Append(file, r)[k] = file[k]
  BY FileFacts
<1>2. \A k \in from..to : k \in 1..Len(file)
  BY <1>1
<1> QED BY <1>1, <1>2 DEF LinesOf

LEMMA LinesGain ==
  ASSUME NEW file \in Seq(Record), NEW r \in Record, NEW from \in 1..(Len(file) + 1)
  PROVE  LinesOf(Append(file, r), r.kind, from, Len(file) + 1)
           = LinesOf(file, r.kind, from, Len(file)) \cup {Len(file) + 1}
<1> DEFINE new == Append(file, r)
           last == Len(file) + 1
<1>1. /\ Len(file) \in Nat /\ new[last] = r
      /\ \A k \in 1..Len(file) : new[k] = file[k]
  BY FileFacts
<1>2. from..last = (from..Len(file)) \cup {last} /\ \A k \in from..Len(file) : k \in 1..Len(file)
  BY <1>1
<1> HIDE DEF new, last
<1>3. LinesOf(new, r.kind, from, last) = LinesOf(file, r.kind, from, Len(file)) \cup {last}
  BY <1>1, <1>2 DEF LinesOf
<1> QED BY <1>3 DEF new, last

LEMMA LinesSame ==
  ASSUME NEW file \in Seq(Record), NEW r \in Record, NEW kind, r.kind # kind,
         NEW from \in 1..(Len(file) + 1)
  PROVE  LinesOf(Append(file, r), kind, from, Len(file) + 1)
           = LinesOf(file, kind, from, Len(file))
<1> DEFINE new == Append(file, r)
           last == Len(file) + 1
<1>1. /\ Len(file) \in Nat /\ new[last] = r
      /\ \A k \in 1..Len(file) : new[k] = file[k]
  BY FileFacts
<1>2. from..last = (from..Len(file)) \cup {last} /\ \A k \in from..Len(file) : k \in 1..Len(file)
  BY <1>1
<1> HIDE DEF new, last
<1>3. LinesOf(new, kind, from, last) = LinesOf(file, kind, from, Len(file))
  BY <1>1, <1>2 DEF LinesOf
<1> QED BY <1>3 DEF new, last

LEMMA LastFacts ==
  ASSUME NEW file, NEW k \in Nat \ {0}, NEW kinds
  PROVE  /\ LastBefore(file, k, kinds) \in 0..(k - 1)
         /\ LastBefore(file, k, kinds) # 0 => file[LastBefore(file, k, kinds)].kind \in kinds
         /\ \A j \in 1..(k - 1) : file[j].kind \in kinds => j <= LastBefore(file, k, kinds)
<1> DEFINE T == {0} \cup {j \in 1..(k - 1) : file[j].kind \in kinds}
<1>1. k - 1 \in Nat /\ T \in SUBSET (0..(k - 1)) /\ T # {}
  OBVIOUS
<1>2. Max(T) \in T /\ \A t \in T : t <= Max(T)
  <2> HIDE DEF T
  <2> QED BY <1>1, LargestNumber
<1>3. LastBefore(file, k, kinds) = Max(T)
  BY DEF LastBefore
<1> HIDE DEF LastBefore
<1>4. Max(T) \in 0..(k - 1) /\ (Max(T) # 0 => file[Max(T)].kind \in kinds)
  <2> DEFINE m == Max(T)
  <2>1. m \in T
    BY <1>2
  <2> HIDE DEF m
  <2>2. m \in 0..(k - 1) /\ (m # 0 => file[m].kind \in kinds)
    BY <2>1
  <2> QED BY <2>2 DEF m
<1>5. \A j \in 1..(k - 1) : file[j].kind \in kinds => j <= Max(T)
  <2> DEFINE m == Max(T)
  <2>1. \A t \in T : t <= m
    BY <1>2
  <2> HIDE DEF m
  <2>2. \A j \in 1..(k - 1) : file[j].kind \in kinds => j <= m
    BY <2>1
  <2> QED BY <2>2 DEF m
<1> QED BY <1>3, <1>4, <1>5

\* The last line is the only one that is one of those kinds with none after it.
LEMMA LastIs ==
  ASSUME NEW file, NEW k \in Nat \ {0}, NEW kinds, NEW m \in 0..(k - 1),
         m # 0 => file[m].kind \in kinds,
         \A j \in 1..(k - 1) : file[j].kind \in kinds => j <= m
  PROVE  LastBefore(file, k, kinds) = m
<1> DEFINE l == LastBefore(file, k, kinds)
<1>1. /\ l \in 0..(k - 1) /\ (l # 0 => file[l].kind \in kinds)
      /\ \A j \in 1..(k - 1) : file[j].kind \in kinds => j <= l
  BY LastFacts
<1> HIDE DEF l
<1>2. l = m
  <2>1. l # 0 => l <= m
    BY <1>1
  <2>2. m # 0 => m <= l
    BY <1>1
  <2> QED BY <1>1, <2>1, <2>2
<1> QED BY <1>2 DEF l

\* Reading one record more, it is the last one if it is of the kinds.
LEMMA LastAppend ==
  ASSUME NEW file \in Seq(Record), NEW r \in Record, NEW kinds
  PROVE  /\ \A k \in 1..(Len(file) + 1) : LastBefore(Append(file, r), k, kinds) = LastBefore(file, k, kinds)
         /\ LastBefore(Append(file, r), Len(file) + 2, kinds)
              = IF r.kind \in kinds THEN Len(file) + 1 ELSE LastBefore(file, Len(file) + 1, kinds)
<1> DEFINE new == Append(file, r)
<1>1. /\ Len(file) \in Nat /\ new[Len(file) + 1] = r
      /\ \A k \in 1..Len(file) : new[k] = file[k]
  BY FileFacts
<1> HIDE DEF new
<1>2. ASSUME NEW k \in 1..(Len(file) + 1) PROVE LastBefore(new, k, kinds) = LastBefore(file, k, kinds)
  <2> DEFINE m == LastBefore(file, k, kinds)
  <2>1. /\ m \in 0..(k - 1) /\ (m # 0 => file[m].kind \in kinds)
        /\ \A j \in 1..(k - 1) : file[j].kind \in kinds => j <= m
    BY <1>1, LastFacts
  <2> HIDE DEF m
  <2>2. /\ m # 0 => new[m].kind \in kinds
        /\ \A j \in 1..(k - 1) : new[j].kind \in kinds => j <= m
        /\ k \in Nat \ {0}
    BY <1>1, <2>1
  <2>3. LastBefore(new, k, kinds) = m
    BY <2>1, <2>2, LastIs
  <2> QED BY <2>3 DEF m
<1>3. LastBefore(new, Len(file) + 2, kinds)
        = IF r.kind \in kinds THEN Len(file) + 1 ELSE LastBefore(file, Len(file) + 1, kinds)
  <2> DEFINE m == IF r.kind \in kinds THEN Len(file) + 1 ELSE LastBefore(file, Len(file) + 1, kinds)
             k == Len(file) + 2
  <2>1. /\ LastBefore(file, Len(file) + 1, kinds) \in 0..Len(file)
        /\ LastBefore(file, Len(file) + 1, kinds) # 0
             => file[LastBefore(file, Len(file) + 1, kinds)].kind \in kinds
        /\ \A j \in 1..Len(file) : file[j].kind \in kinds => j <= LastBefore(file, Len(file) + 1, kinds)
    <3> DEFINE n == Len(file) + 1
    <3>1. n \in Nat \ {0} /\ n - 1 = Len(file)
      BY <1>1
    <3> HIDE DEF n
    <3>2. /\ LastBefore(file, n, kinds) \in 0..Len(file)
          /\ LastBefore(file, n, kinds) # 0 => file[LastBefore(file, n, kinds)].kind \in kinds
          /\ \A j \in 1..Len(file) : file[j].kind \in kinds => j <= LastBefore(file, n, kinds)
      BY <3>1, LastFacts
    <3> QED BY <3>2 DEF n
  <2>2. /\ k \in Nat \ {0} /\ k - 1 = Len(file) + 1 /\ m \in 0..(k - 1)
        /\ m # 0 => new[m].kind \in kinds
        /\ \A j \in 1..(k - 1) : new[j].kind \in kinds => j <= m
    BY <1>1, <2>1
  <2> HIDE DEF m, k
  <2>3. LastBefore(new, k, kinds) = m
    BY <2>2, LastIs
  <2> QED BY <2>3 DEF m, k
<1> QED BY <1>2, <1>3 DEF new

\* Sum, its parts named.
Hashes(file, S) == [k \in S |-> file[k].item.dfi]
Amounts(file, S, code) == [k \in S |-> IF file[k].item.code = code THEN file[k].item.amount ELSE 0]

LEMMA SumParts ==
  ASSUME NEW file, NEW S
  PROVE  Sum(file, S) = [items |-> Cardinality(S), hash |-> SumFunctionOnSet(Hashes(file, S), S),
                         debit |-> SumFunctionOnSet(Amounts(file, S, "debit"), S),
                         credit |-> SumFunctionOnSet(Amounts(file, S, "credit"), S)]
BY DEF Sum, SumFunction, Hashes, Amounts

LEMMA SumGrows ==
  ASSUME NEW S, IsFiniteSet(S), NEW k, k \notin S, NEW w, NEW v,
         \A x \in S : w[x] = v[x] /\ v[x] \in Nat, w[k] \in Nat
  PROVE  SumFunctionOnSet(w, S \cup {k}) = w[k] + SumFunctionOnSet(v, S)
<1>1. SumFunctionOnSet(w, S) = SumFunctionOnSet(v, S)
  BY SumSame
<1>2. \A x \in S \cup {k} : w[x] \in Nat
  OBVIOUS
<1>3. SumFunctionOnSet(w, S \cup {k}) = w[k] + SumFunctionOnSet(w, S)
  BY <1>2, SumAdd
<1> QED BY <1>1, <1>3

\* Nothing comes to nothing.
LEMMA SumOfNone ==
  ASSUME NEW file PROVE Sum(file, {}) = Zero
BY SumParts, SumEmpty, FS_EmptySet DEF Zero

LEMMA ItemType ==
  ASSUME NEW i \in Items
  PROVE  i.amount \in Nat /\ i.dfi \in Nat /\ i.code \in {"debit", "credit"}
BY FileConstants

\* What items come to is numbers.
LEMMA SumOfItems ==
  ASSUME NEW file, NEW S, IsFiniteSet(S), \A k \in S : file[k].item \in Items
  PROVE  Sum(file, S) \in Totals
<1>1. \A k \in S : Hashes(file, S)[k] \in Nat
  BY ItemType DEF Hashes
<1>2. \A k \in S : Amounts(file, S, "debit")[k] \in Nat /\ Amounts(file, S, "credit")[k] \in Nat
  BY ItemType DEF Amounts
<1>3. /\ SumFunctionOnSet(Hashes(file, S), S) \in Nat
      /\ SumFunctionOnSet(Amounts(file, S, "debit"), S) \in Nat
      /\ SumFunctionOnSet(Amounts(file, S, "credit"), S) \in Nat
  BY <1>1, <1>2, SumType
<1>4. Cardinality(S) \in Nat
  BY FS_CardinalityType
<1> QED BY <1>3, <1>4, SumParts DEF Totals

\* What the lines that were read come to does not change, and an item more is
\* added as Plus adds it.
LEMMA SumAppend ==
  ASSUME NEW file \in Seq(Record), NEW r \in Record, NEW S \in SUBSET (1..Len(file)), IsFiniteSet(S),
         \A k \in S : file[k].kind = "item"
  PROVE  /\ Sum(Append(file, r), S) = Sum(file, S)
         /\ r.kind = "item" => Sum(Append(file, r), S \cup {Len(file) + 1}) = Plus(Sum(file, S), r.item)
<1> DEFINE new == Append(file, r)
           last == Len(file) + 1
<1>1. /\ Len(file) \in Nat /\ new[last] = r
      /\ \A k \in 1..Len(file) : new[k] = file[k] /\ file[k] \in Record
  BY FileFacts
<1>2. last \notin S
  BY <1>1
<1> HIDE DEF new, last
<1>3. \A k \in S : new[k] = file[k] /\ file[k].item \in Items
  BY <1>1, RecordFacts
<1>4. /\ Hashes(new, S) = Hashes(file, S)
      /\ \A code : Amounts(new, S, code) = Amounts(file, S, code)
  BY <1>3 DEF Hashes, Amounts
<1>5. Sum(new, S) = Sum(file, S)
  BY <1>4, SumParts
<1>6. ASSUME r.kind = "item" PROVE Sum(new, S \cup {last}) = Plus(Sum(file, S), r.item)
  <2> DEFINE T == S \cup {last}
             i == r.item
  <2>1. i \in Items /\ i.amount \in Nat /\ i.dfi \in Nat /\ i.code \in {"debit", "credit"}
    BY <1>6, RecordFacts, ItemType
  <2>2. new[last].item = i
    BY <1>1
  <2> HIDE DEF i
  <2>3. /\ \A k \in S : Hashes(new, T)[k] = Hashes(file, S)[k] /\ Hashes(file, S)[k] \in Nat
        /\ Hashes(new, T)[last] = i.dfi
    BY <1>3, <2>2, ItemType DEF Hashes
  <2>4. ASSUME NEW code
        PROVE  /\ \A k \in S : /\ Amounts(new, T, code)[k] = Amounts(file, S, code)[k]
                               /\ Amounts(file, S, code)[k] \in Nat
               /\ Amounts(new, T, code)[last] = IF i.code = code THEN i.amount ELSE 0
    BY <1>3, <2>2, ItemType DEF Amounts
  <2>5. SumFunctionOnSet(Hashes(new, T), T) = i.dfi + SumFunctionOnSet(Hashes(file, S), S)
    <3> DEFINE w == Hashes(new, T)
               v == Hashes(file, S)
    <3>1. (\A k \in S : w[k] = v[k] /\ v[k] \in Nat) /\ w[last] = i.dfi /\ i.dfi \in Nat
      BY <2>1, <2>3
    <3> HIDE DEF w, v
    <3>2. SumFunctionOnSet(w, T) = w[last] + SumFunctionOnSet(v, S)
      BY <1>2, <3>1, SumGrows
    <3> QED BY <3>1, <3>2 DEF w, v
  <2>6. ASSUME NEW code
        PROVE  SumFunctionOnSet(Amounts(new, T, code), T)
                 = (IF i.code = code THEN i.amount ELSE 0) + SumFunctionOnSet(Amounts(file, S, code), S)
    <3> DEFINE w == Amounts(new, T, code)
               v == Amounts(file, S, code)
               a == IF i.code = code THEN i.amount ELSE 0
    <3>1. /\ \A k \in S : w[k] = v[k] /\ v[k] \in Nat
          /\ w[last] = a /\ a \in Nat
      BY <2>1, <2>4
    <3> HIDE DEF w, v, a
    <3>2. SumFunctionOnSet(w, T) = a + SumFunctionOnSet(v, S)
      BY <1>2, <3>1, SumGrows
    <3> QED BY <3>2 DEF w, v, a
  <2>7. Cardinality(T) = Cardinality(S) + 1
    BY <1>2, FS_AddElement
  <2>8. Sum(file, S) \in Totals
    BY <1>3, SumOfItems
  <2> DEFINE s == Sum(file, S)
  <2>9. /\ s.items = Cardinality(S) /\ s.hash = SumFunctionOnSet(Hashes(file, S), S)
        /\ s.debit = SumFunctionOnSet(Amounts(file, S, "debit"), S)
        /\ s.credit = SumFunctionOnSet(Amounts(file, S, "credit"), S)
    BY SumParts
  <2>10. Sum(new, T) = [items |-> Cardinality(T), hash |-> SumFunctionOnSet(Hashes(new, T), T),
                        debit |-> SumFunctionOnSet(Amounts(new, T, "debit"), T),
                        credit |-> SumFunctionOnSet(Amounts(new, T, "credit"), T)]
    BY SumParts
  <2>11. /\ s.items \in Nat /\ s.hash \in Nat /\ s.debit \in Nat /\ s.credit \in Nat
    BY <2>8 DEF Totals
  <2> HIDE DEF s, T
  <2>12. Sum(new, T) = Plus(s, i)
    BY <2>1, <2>5, <2>6, <2>7, <2>9, <2>10, <2>11 DEF Plus
  <2> QED BY <2>12 DEF s, T, i
<1> QED BY <1>5, <1>6 DEF new, last

-----------------------------------------------------------------------------
(* Facts about running totals.                                              *)

LEMMA SinceFacts ==
  ASSUME NEW file \in Seq(Record), NEW level \in Levels
  PROVE  /\ Since(file, level) \in SUBSET (1..Len(file)) /\ IsFiniteSet(Since(file, level))
         /\ \A k \in Since(file, level) : file[k].kind = "item"
<1> DEFINE from == LastBefore(file, Len(file) + 1, Opening[level]) + 1
<1>1. Len(file) \in Nat /\ from \in Nat \ {0}
  BY LastFacts
<1> HIDE DEF from
<1>2. /\ LinesOf(file, "item", from, Len(file)) \subseteq from..Len(file)
      /\ IsFiniteSet(LinesOf(file, "item", from, Len(file)))
  BY <1>1, LineFacts
<1>3. \A k \in LinesOf(file, "item", from, Len(file)) : file[k].kind = "item"
  BY DEF LinesOf
<1> QED BY <1>1, <1>2, <1>3 DEF Since, from

\* A header begins the totals of its level anew, an item adds to those of every
\* level, and no other record changes them.
LEMMA SinceAppend ==
  ASSUME NEW file \in Seq(Record), NEW r \in Record, NEW level \in Levels
  PROVE  Sum(Append(file, r), Since(Append(file, r), level))
           = IF r.kind \in Opening[level] THEN Zero
             ELSE IF r.kind = "item" THEN Plus(Sum(file, Since(file, level)), r.item)
             ELSE Sum(file, Since(file, level))
<1> DEFINE new == Append(file, r)
           n == Len(file)
           header == LastBefore(file, n + 1, Opening[level])
<1>1. n \in Nat /\ Len(new) = n + 1 /\ (n + 1) + 1 = n + 2 /\ new[n + 1] = r
  BY FileFacts
<1>2. header \in 0..n
  <2> DEFINE k == n + 1
  <2>1. k \in Nat \ {0} /\ k - 1 = n
    BY <1>1
  <2> HIDE DEF k
  <2>2. LastBefore(file, k, Opening[level]) \in 0..n
    BY <2>1, LastFacts
  <2> QED BY <2>2 DEF k
<1>3. LastBefore(new, n + 2, Opening[level]) = IF r.kind \in Opening[level] THEN n + 1 ELSE header
  BY LastAppend
<1>4. CASE r.kind \in Opening[level]
  <2>1. Since(new, level) = LinesOf(new, "item", n + 2, n + 1)
    BY <1>1, <1>3, <1>4 DEF Since
  <2>2. LinesOf(new, "item", n + 2, n + 1) = {}
    <3>1. n + 2 \in Nat /\ n + 1 \in Nat /\ n + 1 < n + 2
      BY <1>1
    <3> HIDE DEF new, n
    <3> QED BY <3>1, LineFacts
  <2> QED BY <1>4, <2>1, <2>2, SumOfNone
<1>5. CASE r.kind \notin Opening[level]
  <2>1. Since(new, level) = LinesOf(new, "item", header + 1, n + 1)
    BY <1>1, <1>3, <1>5 DEF Since
  <2>2. header + 1 \in 1..(n + 1)
    BY <1>1, <1>2
  <2>3. LinesOf(new, "item", header + 1, n + 1)
          = IF r.kind = "item" THEN LinesOf(file, "item", header + 1, n) \cup {n + 1}
            ELSE LinesOf(file, "item", header + 1, n)
    <3> DEFINE from == header + 1
    <3>1. from \in 1..(Len(file) + 1)
      BY <2>2
    <3> HIDE DEF from
    <3>2. CASE r.kind = "item"
      <4>1. LinesOf(Append(file, r), r.kind, from, Len(file) + 1)
              = LinesOf(file, r.kind, from, Len(file)) \cup {Len(file) + 1}
        BY <3>1, LinesGain
      <4> QED BY <3>2, <4>1 DEF from
    <3>3. CASE r.kind # "item"
      <4>1. LinesOf(Append(file, r), "item", from, Len(file) + 1) = LinesOf(file, "item", from, Len(file))
        BY <3>1, <3>3, LinesSame
      <4> QED BY <3>3, <4>1 DEF from
    <3> QED BY <3>2, <3>3
  <2>4. Since(file, level) = LinesOf(file, "item", header + 1, n)
    BY DEF Since
  <2>5. Since(new, level) = IF r.kind = "item" THEN Since(file, level) \cup {n + 1} ELSE Since(file, level)
    BY <2>1, <2>3, <2>4
  <2> DEFINE S == Since(file, level)
  <2>6. S \in SUBSET (1..Len(file)) /\ IsFiniteSet(S) /\ \A k \in S : file[k].kind = "item"
    BY SinceFacts
  <2> HIDE DEF S
  <2>7. /\ Sum(new, S) = Sum(file, S)
        /\ r.kind = "item" => Sum(new, S \cup {n + 1}) = Plus(Sum(file, S), r.item)
    BY <2>6, SumAppend
  <2> QED BY <1>5, <2>5, <2>7 DEF S
<1> QED BY <1>4, <1>5

LEMMA RunningAppend ==
  ASSUME NEW file \in Seq(Record), NEW r \in Record, NEW old, NEW new, Running(file, old),
         \A l \in Levels : (l = "letter" => format = "x937") =>
           new[l] = IF r.kind \in Opening[l] THEN Zero
                    ELSE IF r.kind = "item" THEN Plus(old[l], r.item) ELSE old[l]
  PROVE  Running(Append(file, r), new)
BY SinceAppend DEF Running

\* A control record that is read declares the running totals of its level.
LEMMA DeclaringAppend ==
  ASSUME NEW file \in Seq(Record), NEW r \in Record, Declaring(file),
         r.kind \in Levels => r.totals = Shown(Sum(file, Since(file, r.kind)))
  PROVE  Declaring(Append(file, r))
<1> DEFINE new == Append(file, r)
           n == Len(file)
<1>1. /\ n \in Nat /\ Len(new) = n + 1 /\ new[n + 1] = r
      /\ \A k \in 1..n : new[k] = file[k]
  BY FileFacts
<1>2. ASSUME NEW k \in 1..n, NEW level
      PROVE  LET header == LastBefore(file, k, Opening[level])
                 S == LinesOf(file, "item", header + 1, k)
             IN  LastBefore(new, k, Opening[level]) = header /\ LinesOf(new, "item", header + 1, k) = S
                 /\ Sum(new, S) = Sum(file, S)
  <2> DEFINE header == LastBefore(file, k, Opening[level])
             S == LinesOf(file, "item", header + 1, k)
  <2>1. LastBefore(new, k, Opening[level]) = header
    <3>1. k \in 1..(Len(file) + 1)
      BY <1>1
    <3> QED BY <3>1, LastAppend
  <2>2. header \in 0..(k - 1)
    BY <1>1, LastFacts
  <2> HIDE DEF header
  <2> DEFINE from == header + 1
  <2>3. from \in 1..(Len(file) + 1) /\ from \in Nat /\ k \in 0..Len(file) /\ k \in Nat
    BY <1>1, <2>2
  <2> HIDE DEF from
  <2>4. LinesOf(new, "item", from, k) = LinesOf(file, "item", from, k)
    BY <2>3, LinesKept
  <2>5. /\ LinesOf(file, "item", from, k) \subseteq from..k
        /\ IsFiniteSet(LinesOf(file, "item", from, k))
    BY <2>3, LineFacts
  <2>6. \A j \in LinesOf(file, "item", from, k) : file[j].kind = "item"
    BY DEF LinesOf
  <2>7. LinesOf(file, "item", from, k) \in SUBSET (1..Len(file))
    BY <2>3, <2>5
  <2>8. Sum(new, LinesOf(file, "item", from, k)) = Sum(file, LinesOf(file, "item", from, k))
    BY <2>5, <2>6, <2>7, SumAppend
  <2> QED BY <2>1, <2>4, <2>8 DEF from, header
<1>3. ASSUME r.kind \in Levels
      PROVE  LET header == LastBefore(new, n + 1, Opening[r.kind])
             IN  r.totals = Shown(Sum(new, LinesOf(new, "item", header + 1, n + 1)))
  <2> DEFINE kind == r.kind
             header == LastBefore(file, n + 1, Opening[kind])
  <2>1. LastBefore(new, n + 1, Opening[kind]) = header
    BY <1>1, LastAppend
  <2>2. header \in 0..n
    <3> DEFINE k == n + 1
    <3>1. k \in Nat \ {0} /\ k - 1 = n
      BY <1>1
    <3> HIDE DEF k
    <3>2. LastBefore(file, k, Opening[kind]) \in 0..n
      BY <3>1, LastFacts
    <3> QED BY <3>2 DEF k
  <2>3. LinesOf(new, "item", header + 1, n + 1) = LinesOf(file, "item", header + 1, n)
    <3> DEFINE from == header + 1
    <3>1. from \in 1..(Len(file) + 1) /\ r.kind # "item"
      BY <1>1, <1>3, <2>2 DEF Levels
    <3> HIDE DEF from
    <3>2. LinesOf(new, "item", from, Len(file) + 1) = LinesOf(file, "item", from, Len(file))
      BY <3>1, LinesSame
    <3> QED BY <3>2 DEF from
  <2>4. LinesOf(file, "item", header + 1, n) = Since(file, kind)
    BY DEF Since
  <2>5. Sum(new, Since(file, kind)) = Sum(file, Since(file, kind))
    <3> DEFINE S == Since(file, kind)
    <3>1. S \in SUBSET (1..Len(file)) /\ IsFiniteSet(S) /\ \A k \in S : file[k].kind = "item"
      BY <1>3, SinceFacts
    <3> HIDE DEF S
    <3>2. Sum(new, S) = Sum(file, S)
      BY <3>1, SumAppend
    <3> QED BY <3>2 DEF S
  <2> QED BY <1>3, <2>1, <2>3, <2>4, <2>5
<1> HIDE DEF new
<1> SUFFICES ASSUME NEW k \in 1..Len(new), new[k].kind \in Levels
             PROVE  LET header == LastBefore(new, k, Opening[new[k].kind])
                    IN  new[k].totals = Shown(Sum(new, LinesOf(new, "item", header + 1, k)))
  BY DEF Declaring, new
<1>4. CASE k = n + 1
  BY <1>1, <1>3, <1>4
<1>5. CASE k \in 1..n
  <2> DEFINE kind == new[k].kind
             header == LastBefore(file, k, Opening[kind])
             S == LinesOf(file, "item", header + 1, k)
  <2>1. /\ LastBefore(new, k, Opening[kind]) = header /\ LinesOf(new, "item", header + 1, k) = S
        /\ Sum(new, S) = Sum(file, S)
    BY <1>2, <1>5
  <2>2. new[k] = file[k] /\ file[k].totals = Shown(Sum(file, S))
    BY <1>1, <1>5 DEF Declaring
  <2> QED BY <2>1, <2>2
<1> QED BY <1>1, <1>4, <1>5

-----------------------------------------------------------------------------
(* Facts about batches.                                                     *)

LEMMA OpenFacts ==
  ASSUME NEW file \in Seq(Record), NEW k \in 1..(Len(file) + 1), OpenAt(file, k)
  PROVE  LastBefore(file, k, {"header"}) \in 1..Len(file)
<1>1. k \in Nat \ {0}
  BY FileFacts
<1>2. /\ LastBefore(file, k, {"header"}) \in 0..(k - 1)
      /\ LastBefore(file, k, {"batch"}) \in 0..(k - 1)
  BY <1>1, LastFacts
<1> QED BY <1>2 DEF OpenAt

\* What is open before a line stays so, and the record read may open or close.
LEMMA OpenAppend ==
  ASSUME NEW file \in Seq(Record), NEW r \in Record
  PROVE  /\ \A k \in 1..(Len(file) + 1) :
              /\ OpenAt(Append(file, r), k) = OpenAt(file, k)
              /\ OpenAt(file, k) => Append(file, r)[LastBefore(Append(file, r), k, {"header"})]
                                    = file[LastBefore(file, k, {"header"})]
         /\ r.kind = "header" => /\ OpenAt(Append(file, r), Len(file) + 2)
                                 /\ Append(file, r)[LastBefore(Append(file, r), Len(file) + 2, {"header"})] = r
         /\ r.kind = "batch" => ~OpenAt(Append(file, r), Len(file) + 2)
         /\ r.kind \notin {"header", "batch"} =>
              /\ OpenAt(Append(file, r), Len(file) + 2) = OpenAt(file, Len(file) + 1)
              /\ LastBefore(Append(file, r), Len(file) + 2, {"header"})
                 = LastBefore(file, Len(file) + 1, {"header"})
<1> DEFINE new == Append(file, r)
           n == Len(file)
           Latest(kind) == LastBefore(file, n + 1, {kind})
<1>1. n \in Nat /\ new[n + 1] = r /\ \A k \in 1..n : new[k] = file[k]
  BY FileFacts
<1>2. \A kind : /\ \A k \in 1..(n + 1) : LastBefore(new, k, {kind}) = LastBefore(file, k, {kind})
                /\ LastBefore(new, n + 2, {kind}) = IF r.kind = kind THEN n + 1 ELSE Latest(kind)
  <2> TAKE kind
  <2> DEFINE kinds == {kind}
  <2>1. r.kind \in kinds <=> r.kind = kind
    OBVIOUS
  <2> HIDE DEF kinds
  <2>2. /\ \A k \in 1..(n + 1) : LastBefore(new, k, kinds) = LastBefore(file, k, kinds)
        /\ LastBefore(new, n + 2, kinds) = IF r.kind \in kinds THEN n + 1 ELSE LastBefore(file, n + 1, kinds)
    BY LastAppend
  <2> QED BY <2>1, <2>2 DEF kinds
<1>3. \A kind : Latest(kind) \in 0..n
  <2> TAKE kind
  <2> DEFINE k == n + 1
  <2>1. k \in Nat \ {0} /\ k - 1 = n
    BY <1>1
  <2> HIDE DEF k
  <2>2. LastBefore(file, k, {kind}) \in 0..n
    BY <2>1, LastFacts
  <2> QED BY <2>2 DEF k
<1>4. \A k \in 1..(n + 1) : OpenAt(file, k) => LastBefore(file, k, {"header"}) \in 1..n
  BY OpenFacts
<1> HIDE DEF new, n, Latest
<1>5. ASSUME NEW k \in 1..(n + 1)
      PROVE  /\ OpenAt(new, k) = OpenAt(file, k)
             /\ OpenAt(file, k) => new[LastBefore(new, k, {"header"})] = file[LastBefore(file, k, {"header"})]
  BY <1>1, <1>2, <1>4 DEF OpenAt
<1> DEFINE header == LastBefore(new, n + 2, {"header"})
           control == LastBefore(new, n + 2, {"batch"})
<1>9. /\ header = IF r.kind = "header" THEN n + 1 ELSE Latest("header")
      /\ control = IF r.kind = "batch" THEN n + 1 ELSE Latest("batch")
      /\ Latest("header") \in 0..n /\ Latest("batch") \in 0..n
      /\ (OpenAt(new, n + 2) <=> header > control)
  BY <1>2, <1>3 DEF OpenAt
<1> HIDE DEF header, control
<1>6. r.kind = "header" => OpenAt(new, n + 2) /\ new[header] = r
  BY <1>1, <1>9
<1>7. r.kind = "batch" => ~OpenAt(new, n + 2)
  BY <1>1, <1>9
<1>8. r.kind \notin {"header", "batch"} =>
        /\ OpenAt(new, n + 2) = OpenAt(file, n + 1)
        /\ LastBefore(new, n + 2, {"header"}) = LastBefore(file, n + 1, {"header"})
  BY <1>2 DEF OpenAt, Latest
<1> QED BY <1>5, <1>6, <1>7, <1>8 DEF new, n, header

-----------------------------------------------------------------------------
(* Facts about what is handed on.                                           *)

LEMMA OnceLines ==
  ASSUME NEW file \in Seq(Record), NEW handed, Once(file, handed), NEW n \in 1..Len(handed)
  PROVE  handed[n].line \in 1..Len(file) /\ file[handed[n].line].kind = "item"
<1>1. handed[n].line \in LinesOf(file, "item", 1, Len(file))
  BY DEF Once
<1> QED BY <1>1 DEF LinesOf

\* A record that is not an item hands on nothing more.
LEMMA OnceKept ==
  ASSUME NEW file \in Seq(Record), NEW r \in Record, r.kind # "item", NEW old, NEW new, Len(new) = Len(old),
         \A n \in 1..Len(old) : new[n].line = old[n].line /\ new[n].item = old[n].item,
         Once(file, old)
  PROVE  Once(Append(file, r), new)
<1> DEFINE next == Append(file, r)
<1>1. Len(file) \in Nat /\ Len(next) = Len(file) + 1 /\ \A k \in 1..Len(file) : next[k] = file[k]
  BY FileFacts
<1>2. LinesOf(next, "item", 1, Len(file) + 1) = LinesOf(file, "item", 1, Len(file))
  <2>1. 1 \in 1..(Len(file) + 1)
    BY <1>1
  <2> QED BY <2>1, LinesSame
<1>3. \A n \in 1..Len(old) : old[n].line \in 1..Len(file)
  BY OnceLines
<1> HIDE DEF next
<1>4. {new[n].line : n \in 1..Len(new)} = {old[n].line : n \in 1..Len(old)}
  OBVIOUS
<1>5. {new[n].line : n \in 1..Len(new)} = LinesOf(next, "item", 1, Len(next))
  BY <1>1, <1>2, <1>4 DEF Once
<1>6. \A m, n \in 1..Len(new) : m < n => new[m].line < new[n].line
  BY DEF Once
<1>7. \A n \in 1..Len(new) : new[n].item = next[new[n].line].item
  BY <1>1, <1>3 DEF Once
<1> QED BY <1>5, <1>6, <1>7 DEF Once, next

\* An item is handed on after those before it.
LEMMA OnceMore ==
  ASSUME NEW file \in Seq(Record), NEW r \in Record, r.kind = "item", NEW old \in Seq(Read), NEW e \in Read,
         e.line = Len(file) + 1, e.item = r.item, Once(file, old)
  PROVE  Once(Append(file, r), Append(old, e))
<1> DEFINE next == Append(file, r)
           new == Append(old, e)
           last == Len(old) + 1
<1>1. /\ Len(file) \in Nat /\ Len(next) = Len(file) + 1 /\ next[Len(file) + 1] = r
      /\ \A k \in 1..Len(file) : next[k] = file[k]
  BY FileFacts
<1>2. Len(old) \in Nat /\ Len(new) = last /\ new[last] = e /\ \A n \in 1..Len(old) : new[n] = old[n]
  OBVIOUS
<1>3. LinesOf(next, "item", 1, Len(file) + 1) = LinesOf(file, "item", 1, Len(file)) \cup {Len(file) + 1}
  <2>1. 1 \in 1..(Len(file) + 1)
    BY <1>1
  <2> HIDE DEF next
  <2>2. LinesOf(Append(file, r), r.kind, 1, Len(file) + 1)
          = LinesOf(file, r.kind, 1, Len(file)) \cup {Len(file) + 1}
    BY <2>1, LinesGain
  <2> QED BY <2>2 DEF next
<1>4. \A n \in 1..Len(old) : old[n].line \in 1..Len(file)
  BY OnceLines
<1>5. 1..last = (1..Len(old)) \cup {last} /\ last \notin 1..Len(old)
  BY <1>2
<1> HIDE DEF next, new
<1>6. {new[n].line : n \in 1..Len(new)} = {old[n].line : n \in 1..Len(old)} \cup {Len(file) + 1}
  BY <1>2, <1>5
<1>7. {new[n].line : n \in 1..Len(new)} = LinesOf(next, "item", 1, Len(next))
  BY <1>1, <1>3, <1>6 DEF Once
<1>8. ASSUME NEW m \in 1..Len(new), NEW n \in 1..Len(new), m < n PROVE new[m].line < new[n].line
  <2>1. m \in 1..Len(old)
    BY <1>2, <1>8
  <2>2. CASE n = last
    BY <1>1, <1>2, <1>4, <2>1, <2>2
  <2>3. CASE n \in 1..Len(old)
    BY <1>2, <1>8, <2>1, <2>3 DEF Once
  <2> QED BY <1>2, <1>5, <2>2, <2>3
<1>9. ASSUME NEW n \in 1..Len(new) PROVE new[n].item = next[new[n].line].item
  <2>1. CASE n = last
    BY <1>1, <1>2, <2>1
  <2>2. CASE n \in 1..Len(old)
    BY <1>1, <1>2, <1>4, <2>2 DEF Once
  <2> QED BY <1>2, <1>5, <2>1, <2>2
<1> QED BY <1>7, <1>8, <1>9 DEF Once, next, new

-----------------------------------------------------------------------------
(* Facts about images.                                                      *)

LEMMA IsImageAppend ==
  ASSUME NEW file \in Seq(Record), NEW r \in Record, NEW S \in SUBSET (1..Len(file)), NEW x, NEW k
  PROVE  IsImage(Append(file, r), x, k, S) <=> IsImage(file, x, k, S)
<1> DEFINE next == Append(file, r)
<1>1. \A j \in 1..Len(file) : next[j] = file[j]
  BY FileFacts
<1> HIDE DEF next
<1>2. IsImage(next, x, k, S) <=> IsImage(file, x, k, S)
  BY <1>1 DEF IsImage
<1> QED BY <1>2 DEF next

LEMMA OwnType ==
  ASSUME NEW N \in Nat, NEW file, Len(file) = N, NEW handed, Len(handed) \in Nat,
         \A m \in 1..Len(handed) : handed[m].line \in 1..N, NEW n \in 1..Len(handed)
  PROVE  Own(file, handed, n) \in SUBSET (1..N)
<1> DEFINE to == (IF n = Len(handed) THEN Len(file) + 1 ELSE handed[n + 1].line) - 1
           from == handed[n].line
<1>1. from \in 1..N /\ to \in 0..N
  <2>1. CASE n = Len(handed)
    BY <2>1
  <2>2. CASE n # Len(handed)
    <3>1. n + 1 \in 1..Len(handed)
      BY <2>2
    <3> QED BY <2>2, <3>1
  <2> QED BY <2>1, <2>2
<1> HIDE DEF from, to
<1>2. from..to \in SUBSET (1..N)
  BY <1>1
<1>3. LinesOf(file, "image", from, to) \in SUBSET (from..to)
  BY DEF LinesOf
<1> QED BY <1>2, <1>3 DEF Own, from, to

\* A check keeps its images: those of the last one may become more, of the
\* others none.
LEMMA OwnKept ==
  ASSUME NEW file \in Seq(Record), NEW r \in Record, NEW old, NEW new,
         Len(old) \in Nat, Len(new) = Len(old),
         \A m \in 1..Len(old) : old[m].line \in 1..Len(file) /\ new[m].line = old[m].line,
         NEW n \in 1..Len(old), new[n].front = old[n].front, new[n].back = old[n].back,
         n # Len(old) \/ r.kind # "image", HasOwn(file, old, n)
  PROVE  HasOwn(Append(file, r), new, n)
<1> DEFINE next == Append(file, r)
<1>1. Len(file) \in Nat /\ Len(next) = Len(file) + 1
  BY FileFacts
<1>2. Own(next, new, n) = Own(file, old, n)
  <2> DEFINE from == old[n].line
  <2>1. from \in 1..(Len(file) + 1) /\ new[n].line = from
    BY <1>1
  <2> HIDE DEF from, next
  <2>2. CASE n = Len(old)
    <3>1. LinesOf(Append(file, r), "image", from, Len(file) + 1) = LinesOf(file, "image", from, Len(file))
      BY <2>1, <2>2, LinesSame
    <3>2. (Len(next) + 1) - 1 = Len(file) + 1 /\ (Len(file) + 1) - 1 = Len(file)
      BY <1>1
    <3> QED BY <2>1, <2>2, <3>1, <3>2 DEF Own, from, next
  <2>3. CASE n # Len(old)
    <3> DEFINE to == old[n + 1].line - 1
    <3>1. n + 1 \in 1..Len(old) /\ n # Len(new)
      BY <2>3
    <3>2. to \in 0..Len(file) /\ new[n + 1].line - 1 = to
      BY <1>1, <3>1
    <3> HIDE DEF to
    <3>3. LinesOf(next, "image", from, to) = LinesOf(file, "image", from, to)
      BY <2>1, <3>2, LinesKept DEF next
    <3> QED BY <2>1, <2>3, <3>1, <3>2, <3>3 DEF Own, from, to
  <2> QED BY <2>2, <2>3
<1>3. Own(file, old, n) \in SUBSET (1..Len(file))
  BY <1>1, OwnType
<1> QED BY <1>2, <1>3, IsImageAppend DEF HasOwn

\* A check that is read begins without images, and ends those of the one before.
LEMMA OwnMore ==
  ASSUME NEW file \in Seq(Record), NEW r \in Record, r.kind = "item", NEW old \in Seq(Read), NEW e \in Read,
         e.line = Len(file) + 1, e.front = NoValue, e.back = NoValue,
         \A n \in 1..Len(old) : old[n].line \in 1..Len(file) /\ HasOwn(file, old, n)
  PROVE  \A n \in 1..Len(Append(old, e)) : HasOwn(Append(file, r), Append(old, e), n)
<1> DEFINE next == Append(file, r)
           new == Append(old, e)
           last == Len(old) + 1
<1>1. Len(file) \in Nat /\ Len(next) = Len(file) + 1 /\ next[Len(file) + 1] = r
  BY FileFacts
<1>2. Len(old) \in Nat /\ Len(new) = last /\ new[last] = e /\ \A n \in 1..Len(old) : new[n] = old[n]
  OBVIOUS
<1> HIDE DEF next, new
<1>3. ASSUME NEW n \in 1..Len(old) PROVE HasOwn(next, new, n)
  <2> DEFINE from == old[n].line
             to == (IF n = Len(old) THEN Len(file) + 1 ELSE old[n + 1].line) - 1
  <2>1. from \in 1..(Len(file) + 1) /\ new[n].line = from /\ n # Len(new)
    BY <1>1, <1>2
  <2>2. to \in 0..Len(file) /\ new[n + 1].line - 1 = to
    <3>1. CASE n = Len(old)
      BY <1>1, <1>2, <3>1
    <3>2. CASE n # Len(old)
      <4>1. n + 1 \in 1..Len(old)
        BY <1>2, <3>2
      <4> QED BY <1>1, <1>2, <3>2, <4>1
    <3> QED BY <3>1, <3>2
  <2>3. Own(file, old, n) = LinesOf(file, "image", from, to)
    BY DEF Own
  <2>4. Own(next, new, n) = LinesOf(next, "image", from, to)
    BY <2>1, <2>2 DEF Own
  <2> HIDE DEF from, to
  <2>5. LinesOf(next, "image", from, to) = LinesOf(file, "image", from, to)
    BY <2>1, <2>2, LinesKept DEF next
  <2>6. Own(file, old, n) \in SUBSET (1..Len(file))
    BY <1>1, <1>2, OwnType
  <2>7. HasOwn(file, old, n)
    OBVIOUS
  <2> QED BY <1>2, <2>3, <2>4, <2>5, <2>6, <2>7, IsImageAppend DEF HasOwn, next
<1>4. HasOwn(next, new, last)
  <2>1. Own(next, new, last) = LinesOf(next, "image", Len(file) + 1, Len(file) + 1)
    <3>1. (Len(next) + 1) - 1 = Len(file) + 1
      BY <1>1
    <3> QED BY <1>2, <3>1 DEF Own
  <2>2. LinesOf(next, "image", Len(file) + 1, Len(file) + 1) = {}
    BY <1>1 DEF LinesOf
  <2>3. Cardinality({}) < 1 /\ Cardinality({}) < 2
    BY FS_EmptySet
  <2> QED BY <1>2, <2>1, <2>2, <2>3 DEF HasOwn, IsImage
<1> QED BY <1>2, <1>3, <1>4 DEF next, new

\* The images of the check being collected.
LEMMA CollectedGives ==
  ASSUME NEW file \in Seq(Record), NEW line, NEW collected \in Seq(Images),
         Collected(file, line, collected), NEW k \in {1, 2}
  PROVE  IsImage(file, IF Len(collected) >= k THEN collected[k] ELSE NoValue, k,
                 LinesOf(file, "image", line, Len(file)))
<1> DEFINE own == LinesOf(file, "image", line, Len(file))
           x == IF Len(collected) >= k THEN collected[k] ELSE NoValue
<1>1. /\ Cardinality(own) = Len(collected)
      /\ \A m \in 1..Len(collected) :
           \E j \in own : Cardinality({i \in own : i <= j}) = m /\ collected[m] = file[j].image
  BY DEF Collected
<1> HIDE DEF own
<1>2. CASE Len(collected) >= k
  <2>1. k \in 1..Len(collected) /\ x = collected[k]
    BY <1>2
  <2> QED BY <1>1, <2>1 DEF IsImage, own
<1>3. CASE ~(Len(collected) >= k)
  <2>1. x = NoValue /\ Cardinality(own) < k
    BY <1>1, <1>3
  <2> QED BY <2>1 DEF IsImage, own
<1> QED BY <1>2, <1>3

LEMMA CollectedNew ==
  ASSUME NEW file \in Seq(Record), NEW r \in Record, r.kind = "item"
  PROVE  Collected(Append(file, r), Len(file) + 1, <<>>)
<1> DEFINE next == Append(file, r)
<1>1. Len(file) \in Nat /\ Len(next) = Len(file) + 1 /\ next[Len(file) + 1] = r
  BY FileFacts
<1> HIDE DEF next
<1>2. LinesOf(next, "image", Len(file) + 1, Len(next)) = {}
  BY <1>1 DEF LinesOf
<1>3. Cardinality({}) = 0 /\ Len(<<>>) = 0
  BY FS_EmptySet
<1>4. /\ Cardinality(LinesOf(next, "image", Len(file) + 1, Len(next))) = Len(<<>>)
  BY <1>2, <1>3
<1>5. 1..Len(<<>>) = {}
  BY <1>3
<1> QED BY <1>4, <1>5 DEF Collected, next

LEMMA CollectedKept ==
  ASSUME NEW file \in Seq(Record), NEW r \in Record, r.kind # "image", NEW line \in 1..Len(file),
         NEW collected, Collected(file, line, collected)
  PROVE  Collected(Append(file, r), line, collected)
<1> DEFINE next == Append(file, r)
           own == LinesOf(file, "image", line, Len(file))
<1>1. /\ Len(file) \in Nat /\ Len(next) = Len(file) + 1 /\ line \in 1..(Len(file) + 1)
      /\ \A k \in 1..Len(file) : next[k] = file[k]
  BY FileFacts
<1>2. LinesOf(next, "image", line, Len(next)) = own
  BY <1>1, LinesSame
<1>3. \A j \in own : next[j] = file[j]
  BY <1>1 DEF LinesOf
<1>4. /\ Cardinality(own) = Len(collected)
      /\ \A k \in 1..Len(collected) :
           \E j \in own : Cardinality({i \in own : i <= j}) = k /\ collected[k] = file[j].image
  BY DEF Collected
<1>5. \A k \in 1..Len(collected) :
        \E j \in own : Cardinality({i \in own : i <= j}) = k /\ collected[k] = next[j].image
  BY <1>3, <1>4
<1> HIDE DEF next, own
<1> QED BY <1>2, <1>4, <1>5 DEF Collected, next

\* An image that is read is the next of the check being collected.
LEMMA CollectedMore ==
  ASSUME NEW file \in Seq(Record), NEW r \in Record, r.kind = "image", NEW line \in 1..Len(file),
         NEW collected \in Seq(Images), Collected(file, line, collected)
  PROVE  Collected(Append(file, r), line, Append(collected, r.image))
<1> DEFINE next == Append(file, r)
           more == Append(collected, r.image)
           own == LinesOf(file, "image", line, Len(file))
           last == Len(file) + 1
           all == own \cup {last}
<1>1. /\ Len(file) \in Nat /\ Len(next) = last /\ line \in 1..last /\ next[last] = r
      /\ \A k \in 1..Len(file) : next[k] = file[k]
  BY FileFacts
<1>2. LinesOf(next, "image", line, Len(next)) = all
  <2>1. line \in 1..(Len(file) + 1) /\ Len(next) = Len(file) + 1
    BY <1>1
  <2> HIDE DEF next
  <2>2. LinesOf(Append(file, r), r.kind, line, Len(file) + 1)
          = LinesOf(file, r.kind, line, Len(file)) \cup {Len(file) + 1}
    BY <2>1, LinesGain
  <2> QED BY <2>1, <2>2 DEF next
<1>3. own \subseteq 1..Len(file) /\ IsFiniteSet(own)
  <2>1. own \subseteq line..Len(file) /\ IsFiniteSet(own)
    <3>1. line \in Nat /\ Len(file) \in Nat
      BY <1>1
    <3> QED BY ONLY <3>1, LineFacts
  <2> QED BY <1>1, <2>1
<1>4. /\ Cardinality(own) = Len(collected)
      /\ \A k \in 1..Len(collected) :
           \E j \in own : Cardinality({i \in own : i <= j}) = k /\ collected[k] = file[j].image
  BY DEF Collected
<1>5. /\ Len(collected) \in Nat /\ Len(more) = Len(collected) + 1 /\ more[Len(collected) + 1] = r.image
      /\ \A k \in 1..Len(collected) : more[k] = collected[k]
  BY RecordFacts
<1>6. last \notin own /\ Cardinality(all) = Len(collected) + 1
  <2>1. last \notin own
    BY <1>1, <1>3
  <2> HIDE DEF own, last
  <2>2. Cardinality(own \cup {last}) = Cardinality(own) + 1
    BY <1>3, <2>1, FS_AddElement
  <2> QED BY <1>4, <2>1, <2>2
<1> HIDE DEF next, more, own
<1>7. ASSUME NEW k \in 1..Len(collected)
      PROVE  \E j \in all : Cardinality({i \in all : i <= j}) = k /\ more[k] = next[j].image
  <2>1. PICK j \in own : Cardinality({i \in own : i <= j}) = k /\ collected[k] = file[j].image
    BY <1>4
  <2>2. j \in 1..Len(file) /\ next[j] = file[j] /\ ~(last <= j)
    BY <1>1, <1>3
  <2>3. {i \in all : i <= j} = {i \in own : i <= j}
    BY <2>2
  <2> QED BY <1>5, <2>1, <2>2, <2>3
<1>8. {i \in all : i <= last} = all
  <2>1. \A i \in all : i <= last
    BY <1>1, <1>3
  <2> HIDE DEF all
  <2> QED BY <2>1
<1>9. \A k \in 1..Len(more) :
        \E j \in all : Cardinality({i \in all : i <= j}) = k /\ more[k] = next[j].image
  <2> SUFFICES ASSUME NEW k \in 1..Len(more), k \notin 1..Len(collected)
               PROVE  \E j \in all : Cardinality({i \in all : i <= j}) = k /\ more[k] = next[j].image
    BY <1>7
  <2>1. k = Len(collected) + 1
    BY <1>5
  <2>2. last \in all /\ more[k] = next[last].image
    BY <1>1, <1>5, <2>1
  <2> QED BY <1>6, <1>8, <2>1, <2>2
<1> HIDE DEF all, last
<1>10. Cardinality(LinesOf(next, "image", line, Len(next))) = Len(more)
  BY <1>2, <1>5, <1>6
<1> QED BY <1>2, <1>9, <1>10 DEF Collected, next, more

-----------------------------------------------------------------------------
(* Facts about the state.                                                   *)

\* The check whose images are being collected, as it will be handed on.
Collecting(file, line, date, collected) ==
  [item |-> file[line].item, date |-> date,
   front |-> IF Len(collected) >= 1 THEN collected[1] ELSE NoValue,
   back |-> IF Len(collected) >= 2 THEN collected[2] ELSE NoValue, line |-> line]

LEMMA FlushedIs ==
  /\ Flushed = IF current = NoValue THEN result ELSE Append(result, Collecting(lines, current, batch, images))
  /\ Flushed' = IF current' = NoValue THEN result'
                ELSE Append(result', Collecting(lines', current', batch', images'))
BY DEF Flushed, Image, Collecting

LEMMA CollectingFacts ==
  ASSUME NEW file \in Seq(Record), NEW line \in 1..Len(file), file[line].kind = "item", Len(file) <= MaxLines,
         NEW date \in Dates \cup {NoValue}, NEW collected \in Seq(Images)
  PROVE  /\ Collecting(file, line, date, collected) \in Read
         /\ Collecting(file, line, date, collected).line = line
         /\ Collecting(file, line, date, collected).item = file[line].item
         /\ Collecting(file, line, date, collected).front = IF Len(collected) >= 1 THEN collected[1] ELSE NoValue
         /\ Collecting(file, line, date, collected).back = IF Len(collected) >= 2 THEN collected[2] ELSE NoValue
<1>1. Len(file) \in Nat /\ file[line] \in Record /\ MaxLines \in Nat
  BY FileConstants
<1>2. file[line].item \in Items
  BY <1>1, RecordFacts
<1>3. line \in 1..MaxLines
  BY <1>1
<1>4. /\ Len(collected) >= 1 => collected[1] \in Images
      /\ Len(collected) >= 2 => collected[2] \in Images
  OBVIOUS
<1> QED BY <1>2, <1>3, <1>4 DEF Collecting, Read

\* A check just read has no images yet.
LEMMA CollectingNone ==
  ASSUME NEW file \in Seq(Record), NEW line \in 1..Len(file), file[line].kind = "item", Len(file) <= MaxLines,
         NEW date \in Dates \cup {NoValue}, NEW e, e = Collecting(file, line, date, <<>>)
  PROVE  e \in Read /\ e.line = line /\ e.item = file[line].item /\ e.front = NoValue /\ e.back = NoValue
<1>1. Len(file) \in Nat /\ file[line] \in Record /\ MaxLines \in Nat
  BY FileConstants
<1>2. file[line].item \in Items
  BY <1>1, RecordFacts
<1>3. line \in 1..MaxLines /\ Len(<<>>) = 0
  BY <1>1
<1>4. e = [item |-> file[line].item, date |-> date, front |-> NoValue, back |-> NoValue, line |-> line]
  BY <1>3 DEF Collecting
<1> QED BY <1>2, <1>3, <1>4 DEF Read

LEMMA StateFacts ==
  ASSUME FileTypeOK, CurrentInv
  PROVE  /\ lines \in Seq(Record) /\ Len(lines) \in Nat /\ result \in Seq(Read) /\ Len(result) \in Nat
         /\ images \in Seq(Images) /\ MaxLines \in Nat /\ format \in {"nacha", "x937"}
         /\ Flushed \in Seq(Read)
         /\ \A l \in Levels : sums[l] \in Totals
<1>1. /\ lines \in Seq(Record) /\ result \in Seq(Read) /\ images \in Seq(Images) /\ MaxLines \in Nat
      /\ format \in {"nacha", "x937"} /\ batch \in Dates \cup {NoValue} /\ Len(lines) <= MaxLines
      /\ \A l \in Levels : sums[l] \in Totals
  BY FileConstants DEF FileTypeOK, CurrentInv
<1>2. current # NoValue => Collecting(lines, current, batch, images) \in Read
  <2> SUFFICES ASSUME current # NoValue PROVE Collecting(lines, current, batch, images) \in Read
    OBVIOUS
  <2>1. current \in 1..Len(lines) /\ lines[current].kind = "item"
    BY DEF CurrentInv
  <2> QED BY <1>1, <2>1, CollectingFacts
<1>3. Flushed \in Seq(Read)
  <2>1. \A e \in Read : Append(result, e) \in Seq(Read)
    BY <1>1
  <2> QED BY <1>1, <1>2, <2>1, FlushedIs
<1>4. Len(lines) \in Nat /\ Len(result) \in Nat
  BY <1>1
<1> QED BY <1>1, <1>3, <1>4

LEMMA PlusType ==
  ASSUME NEW t \in Totals, NEW i \in Items PROVE Plus(t, i) \in Totals
<1>1. i.amount \in Nat /\ i.dfi \in Nat
  BY ItemType
<1> QED BY <1>1 DEF Plus, Totals

LEMMA ZeroType == Zero \in Totals
BY DEF Zero, Totals

\* One record more is read.
Reads(r) ==
  /\ verdict = "reading" /\ Len(lines) < MaxLines
  /\ lines' = Append(lines, r) /\ format' = format

LEMMA ReadsFacts ==
  ASSUME FileTypeOK, CurrentInv, NEW r \in Record, Reads(r)
  PROVE  /\ lines' \in Seq(Record) /\ Len(lines') = Len(lines) + 1 /\ Len(lines') <= MaxLines
         /\ lines'[Len(lines) + 1] = r /\ \A k \in 1..Len(lines) : lines'[k] = lines[k]
         /\ format' \in Formats
<1>1. Len(lines) \in Nat /\ lines \in Seq(Record) /\ MaxLines \in Nat
  BY StateFacts
<1> QED BY <1>1, FileFacts DEF Reads, FileTypeOK

\* The totals, if they follow the record and a control agreed with them.
LEMMA TotalsAppend ==
  ASSUME FileTypeOK, CurrentInv, TotalsInv, NEW r \in Record, Reads(r),
         \A l \in Levels : (l = "letter" => format = "x937") =>
           sums'[l] = IF r.kind \in Opening[l] THEN Zero
                      ELSE IF r.kind = "item" THEN Plus(sums[l], r.item) ELSE sums[l],
         r.kind \in Levels => (r.kind = "letter" => format = "x937") /\ r.totals = Shown(sums[r.kind])
  PROVE  TotalsInv'
<1>1. lines \in Seq(Record)
  BY StateFacts
<1>2. Running(lines, sums) /\ Declaring(lines)
  BY DEF TotalsInv, Reads
<1>3. Running(Append(lines, r), sums')
  BY <1>1, <1>2, RunningAppend
<1>4. r.kind \in Levels => r.totals = Shown(Sum(lines, Since(lines, r.kind)))
  BY <1>2 DEF Running
<1>5. Declaring(Append(lines, r))
  BY <1>1, <1>2, <1>4, DeclaringAppend
<1>6. lines' = Append(lines, r) /\ format' = format
  BY DEF Reads
<1>7. Running(lines, sums)'
  BY <1>3, <1>6 DEF Running
<1>8. Declaring(lines)'
  BY <1>5, <1>6 DEF Declaring, Shown
<1> QED BY <1>7, <1>8 DEF TotalsInv

\* The batch, if it follows the record, and what was handed on in batches before.
LEMMA BatchAppend ==
  ASSUME FileTypeOK, CurrentInv, BatchInv, ItemsInv, NEW r \in Record, Reads(r), format = "nacha",
         batch' = IF r.kind = "header" THEN r.date ELSE IF r.kind = "batch" THEN NoValue ELSE batch
  PROVE  /\ batch' = IF OpenAt(lines', Len(lines') + 1)
                     THEN lines'[LastBefore(lines', Len(lines') + 1, {"header"})].date
                     ELSE NoValue
         /\ \A n \in 1..Len(result) :
              /\ OpenAt(lines', result[n].line)
              /\ result[n].date = lines'[LastBefore(lines', result[n].line, {"header"})].date
<1>1. /\ lines \in Seq(Record) /\ Len(lines) \in Nat /\ lines' = Append(lines, r)
      /\ Len(lines') + 1 = Len(lines) + 2 /\ \A k \in 1..Len(lines) : lines'[k] = lines[k]
  BY StateFacts, ReadsFacts DEF Reads
<1>2. verdict = "reading" /\ Flushed = result
  BY DEF Reads, CurrentInv, Flushed
<1>3. \A n \in 1..Len(result) : result[n].line \in 1..(Len(lines) + 1)
  BY <1>1, <1>2, OnceLines DEF ItemsInv, Handed
<1>4. \A n \in 1..Len(result) :
        /\ OpenAt(lines', result[n].line)
        /\ result[n].date = lines'[LastBefore(lines', result[n].line, {"header"})].date
  <2> TAKE n \in 1..Len(result)
  <2> DEFINE k == result[n].line
  <2>1. k \in 1..(Len(lines) + 1)
    BY <1>3
  <2>2. OpenAt(lines, k) /\ result[n].date = lines[LastBefore(lines, k, {"header"})].date
    BY <1>2 DEF BatchInv
  <2> HIDE DEF k
  <2>3. /\ OpenAt(lines', k) = OpenAt(lines, k)
        /\ lines'[LastBefore(lines', k, {"header"})] = lines[LastBefore(lines, k, {"header"})]
    BY <1>1, <2>1, <2>2, OpenAppend
  <2> QED BY <2>2, <2>3 DEF k
<1>5. batch = IF OpenAt(lines, Len(lines) + 1)
              THEN lines[LastBefore(lines, Len(lines) + 1, {"header"})].date
              ELSE NoValue
  BY <1>2 DEF BatchInv
<1>6. batch' = IF OpenAt(lines', Len(lines') + 1)
               THEN lines'[LastBefore(lines', Len(lines') + 1, {"header"})].date
               ELSE NoValue
  <2>1. CASE r.kind = "header"
    <3>1. /\ OpenAt(lines', Len(lines) + 2)
          /\ lines'[LastBefore(lines', Len(lines) + 2, {"header"})] = r
      BY <1>1, <2>1, OpenAppend
    <3> QED BY <1>1, <2>1, <3>1
  <2>2. CASE r.kind = "batch"
    BY <1>1, <2>2, OpenAppend
  <2>3. CASE r.kind \notin {"header", "batch"}
    <3>1. /\ OpenAt(lines', Len(lines') + 1) = OpenAt(lines, Len(lines) + 1)
          /\ LastBefore(lines', Len(lines') + 1, {"header"}) = LastBefore(lines, Len(lines) + 1, {"header"})
      BY <1>1, <2>3, OpenAppend
    <3>2. OpenAt(lines, Len(lines) + 1) => LastBefore(lines, Len(lines) + 1, {"header"}) \in 1..Len(lines)
      <4>1. Len(lines) + 1 \in 1..(Len(lines) + 1)
        BY <1>1
      <4> QED BY <1>1, <4>1, OpenFacts
    <3>3. batch' = batch
      BY <2>3
    <3> QED BY <1>1, <1>5, <3>1, <3>2, <3>3
  <2> QED BY <2>1, <2>2, <2>3
<1> QED BY <1>4, <1>6

\* While the check being collected stays the same, what is handed on differs
\* only in its images and its date.
LEMMA FlushedAlike ==
  ASSUME FileTypeOK, CurrentInv, NEW r \in Record, Reads(r), current' = current, result' = result,
         batch' \in Dates \cup {NoValue}, images' \in Seq(Images)
  PROVE  /\ Len(Flushed') = Len(Flushed) /\ Len(Flushed) \in Nat
         /\ \A n \in 1..Len(Flushed) : Flushed'[n].line = Flushed[n].line /\ Flushed'[n].item = Flushed[n].item
         /\ \A n \in 1..Len(Flushed) :
              (n # Len(Flushed) \/ current = NoValue \/ images' = images) =>
                Flushed'[n].front = Flushed[n].front /\ Flushed'[n].back = Flushed[n].back
         /\ current # NoValue =>
              /\ Len(Flushed) \in 1..Len(Flushed) /\ Flushed[Len(Flushed)].line = current
              /\ Flushed'[Len(Flushed)].front = IF Len(images') >= 1 THEN images'[1] ELSE NoValue
              /\ Flushed'[Len(Flushed)].back = IF Len(images') >= 2 THEN images'[2] ELSE NoValue
<1>1. /\ lines \in Seq(Record) /\ result \in Seq(Read) /\ Len(result) \in Nat /\ images \in Seq(Images)
      /\ batch \in Dates \cup {NoValue} /\ Len(lines) <= MaxLines /\ Len(lines) \in Nat
  BY StateFacts DEF FileTypeOK
<1>2. /\ lines' \in Seq(Record) /\ Len(lines') = Len(lines) + 1 /\ Len(lines') <= MaxLines
      /\ \A k \in 1..Len(lines) : lines'[k] = lines[k]
  BY ReadsFacts
<1>3. CASE current = NoValue
  <2>1. Flushed = result /\ Flushed' = result
    BY <1>3, FlushedIs
  <2> QED BY <1>1, <1>3, <2>1
<1>4. CASE current # NoValue
  <2> DEFINE last == Len(result) + 1
  <2>1. current \in 1..Len(lines) /\ lines[current].kind = "item"
    BY <1>4 DEF CurrentInv
  <2>2. current \in 1..Len(lines') /\ lines'[current] = lines[current]
    BY <1>1, <1>2, <2>1
  <2>3. PICK e : e = Collecting(lines, current, batch, images)
    OBVIOUS
  <2>4. PICK f : f = Collecting(lines', current, batch', images')
    OBVIOUS
  <2>5. /\ e \in Read /\ e.line = current /\ e.item = lines[current].item
        /\ e.front = IF Len(images) >= 1 THEN images[1] ELSE NoValue
        /\ e.back = IF Len(images) >= 2 THEN images[2] ELSE NoValue
    BY <1>1, <2>1, <2>3, CollectingFacts
  <2>6. /\ f \in Read /\ f.line = current /\ f.item = lines[current].item
        /\ f.front = IF Len(images') >= 1 THEN images'[1] ELSE NoValue
        /\ f.back = IF Len(images') >= 2 THEN images'[2] ELSE NoValue
    <3>1. PICK next : next = lines'
      OBVIOUS
    <3>2. PICK date : date = batch'
      OBVIOUS
    <3>3. PICK collected : collected = images'
      OBVIOUS
    <3>4. /\ next \in Seq(Record) /\ current \in 1..Len(next) /\ next[current].kind = "item"
          /\ Len(next) <= MaxLines /\ date \in Dates \cup {NoValue} /\ collected \in Seq(Images)
          /\ next[current].item = lines[current].item
      BY <1>2, <2>1, <2>2, <3>1, <3>2, <3>3
    <3>5. f = Collecting(next, current, date, collected)
      BY <2>4, <3>1, <3>2, <3>3
    <3>6. /\ f \in Read /\ f.line = current /\ f.item = next[current].item
          /\ f.front = IF Len(collected) >= 1 THEN collected[1] ELSE NoValue
          /\ f.back = IF Len(collected) >= 2 THEN collected[2] ELSE NoValue
      BY <3>4, <3>5, CollectingFacts
    <3> QED BY <3>3, <3>4, <3>6
  <2>7. Flushed = Append(result, e) /\ Flushed' = Append(result, f)
    BY <1>4, <2>3, <2>4, FlushedIs
  <2>8. /\ Len(Flushed) = last /\ Len(Flushed') = last /\ Flushed[last] = e /\ Flushed'[last] = f
        /\ \A n \in 1..Len(result) : Flushed[n] = result[n] /\ Flushed'[n] = result[n]
    BY <1>1, <2>5, <2>6, <2>7
  <2>9. last \in Nat /\ last \in 1..last /\ \A n \in 1..last : n = last \/ n \in 1..Len(result)
    BY <1>1
  <2> HIDE DEF last
  <2>10. ASSUME NEW n \in 1..last
         PROVE  /\ Flushed'[n].line = Flushed[n].line /\ Flushed'[n].item = Flushed[n].item
                /\ n # last \/ images' = images =>
                     Flushed'[n].front = Flushed[n].front /\ Flushed'[n].back = Flushed[n].back
    <3>1. CASE n = last
      BY <2>5, <2>6, <2>8, <3>1
    <3>2. CASE n # last
      BY <2>8, <2>9, <3>2
    <3> QED BY <3>1, <3>2
  <2>11. /\ Flushed[last].line = current
         /\ Flushed'[last].front = IF Len(images') >= 1 THEN images'[1] ELSE NoValue
         /\ Flushed'[last].back = IF Len(images') >= 2 THEN images'[2] ELSE NoValue
    BY <2>5, <2>6, <2>8
  <2> QED BY <1>4, <2>8, <2>9, <2>10, <2>11
<1> QED BY <1>3, <1>4

\* What is handed on while reading.
LEMMA HandedFacts ==
  ASSUME RecordsInv, verdict = "reading"
  PROVE  /\ Handed = Flushed /\ Flushed \in Seq(Read) /\ Len(Flushed) \in Nat /\ Once(lines, Flushed)
         /\ \A n \in 1..Len(Flushed) : Flushed[n].line \in 1..Len(lines)
         /\ format = "x937" => \A n \in 1..Len(Flushed) : HasOwn(lines, Flushed, n)
         /\ format = "x937" /\ current # NoValue => Collected(lines, current, images)
         /\ format = "nacha" => Flushed = result
<1>1. FileTypeOK /\ CurrentInv /\ lines \in Seq(Record) /\ Flushed \in Seq(Read)
  BY StateFacts DEF RecordsInv
<1>2. Handed = Flushed /\ Once(lines, Flushed)
  BY DEF RecordsInv, ItemsInv, Handed
<1>3. \A n \in 1..Len(Flushed) : Flushed[n].line \in 1..Len(lines)
  BY <1>1, <1>2, OnceLines
<1>4. /\ format = "x937" => \A n \in 1..Len(Flushed) : HasOwn(lines, Flushed, n)
      /\ format = "x937" /\ current # NoValue => Collected(lines, current, images)
  BY <1>2 DEF RecordsInv, ImagesInv
<1>5. format = "nacha" => Flushed = result
  BY <1>1, FlushedIs DEF CurrentInv
<1> QED BY <1>1, <1>2, <1>3, <1>4, <1>5

-----------------------------------------------------------------------------
(* Every step keeps the invariant.                                          *)

\* A file that is rejected is none of the others' business.
LEMMA RejectStep ==
  ASSUME RecordsInv, NEW r \in Record, Reads(r), RejectFile
  PROVE  RecordsInv'
<1>1. FileTypeOK /\ CurrentInv /\ Len(lines) \in Nat
  BY StateFacts DEF RecordsInv
<1>2. /\ lines' \in Seq(Record) /\ Len(lines') = Len(lines) + 1 /\ Len(lines') <= MaxLines
      /\ \A k \in 1..Len(lines) : lines'[k] = lines[k]
      /\ format' \in Formats /\ format' = format
  BY <1>1, ReadsFacts DEF Reads
<1>3. verdict' = "rejected" /\ UNCHANGED <<batch, sums, current, images, result>>
  BY DEF RejectFile
<1>4. FileTypeOK'
  BY <1>1, <1>2, <1>3 DEF FileTypeOK
<1>5. CurrentInv'
  BY <1>1, <1>2, <1>3 DEF CurrentInv
<1> QED BY <1>3, <1>4, <1>5 DEF RecordsInv, TotalsInv, BatchInv, ItemsInv, ImagesInv

\* Headers and controls: what is handed on stays as it is.
Notes(r) ==
  /\ Reads(r) /\ r.kind \notin {"item", "image"}
  /\ batch' \in Dates \cup {NoValue} /\ sums' \in [Levels -> Totals]
  /\ \A l \in Levels : (l = "letter" => format = "x937") =>
       sums'[l] = IF r.kind \in Opening[l] THEN Zero ELSE sums[l]
  /\ r.kind \in Levels => (r.kind = "letter" => format = "x937") /\ r.totals = Shown(sums[r.kind])
  /\ format = "nacha" =>
       batch' = IF r.kind = "header" THEN r.date ELSE IF r.kind = "batch" THEN NoValue ELSE batch
  /\ UNCHANGED <<current, images, result, verdict>>

LEMMA NotesStep ==
  ASSUME RecordsInv, NEW r \in Record, Notes(r)
  PROVE  RecordsInv'
<1>1. /\ FileTypeOK /\ CurrentInv /\ TotalsInv /\ BatchInv /\ ItemsInv /\ verdict = "reading" /\ Reads(r)
      /\ lines \in Seq(Record) /\ lines' = Append(lines, r) /\ Len(lines) \in Nat /\ images \in Seq(Images)
  BY StateFacts DEF RecordsInv, Notes, Reads
<1>2. /\ lines' \in Seq(Record) /\ Len(lines') = Len(lines) + 1 /\ Len(lines') <= MaxLines
      /\ \A k \in 1..Len(lines) : lines'[k] = lines[k]
      /\ format' \in Formats /\ format' = format
  BY <1>1, ReadsFacts DEF Reads
<1>3. FileTypeOK'
  BY <1>1, <1>2 DEF Notes, FileTypeOK
<1>4. CurrentInv'
  BY <1>1, <1>2 DEF Notes, CurrentInv
<1>5. TotalsInv'
  <2>1. \A l \in Levels : (l = "letter" => format = "x937") =>
          sums'[l] = IF r.kind \in Opening[l] THEN Zero
                     ELSE IF r.kind = "item" THEN Plus(sums[l], r.item) ELSE sums[l]
    BY DEF Notes
  <2>2. r.kind \in Levels => (r.kind = "letter" => format = "x937") /\ r.totals = Shown(sums[r.kind])
    BY DEF Notes
  <2> QED BY <1>1, <2>1, <2>2, TotalsAppend
<1>6. BatchInv'
  <2>1. CASE format = "nacha"
    <3>1. result' = result
      BY DEF Notes
    <3>2. batch' = IF r.kind = "header" THEN r.date ELSE IF r.kind = "batch" THEN NoValue ELSE batch
      BY <2>1 DEF Notes
    <3> QED BY <1>1, <2>1, <3>1, <3>2, BatchAppend DEF BatchInv
  <2>2. CASE format # "nacha"
    BY <1>2, <2>2 DEF BatchInv
  <2> QED BY <2>1, <2>2
<1>7. PICK old : old = Flushed
  OBVIOUS
<1>8. PICK new : new = Flushed'
  OBVIOUS
<1>9. /\ Len(new) = Len(old) /\ Len(old) \in Nat
      /\ \A n \in 1..Len(old) : /\ new[n].line = old[n].line /\ new[n].item = old[n].item
                                /\ new[n].front = old[n].front /\ new[n].back = old[n].back
  <2>1. current' = current /\ result' = result /\ batch' \in Dates \cup {NoValue} /\ images' \in Seq(Images)
        /\ images' = images
    BY <1>1 DEF Notes
  <2> QED BY <1>1, <1>7, <1>8, <2>1, FlushedAlike
<1>10. /\ Once(lines, old) /\ \A n \in 1..Len(old) : old[n].line \in 1..Len(lines)
       /\ format = "x937" => \A n \in 1..Len(old) : HasOwn(lines, old, n)
       /\ format = "x937" /\ current # NoValue => Collected(lines, current, images)
  BY <1>1, <1>7, HandedFacts
<1>11. Handed' = new
  BY <1>1, <1>8 DEF Notes, Handed
<1>12. r.kind # "item" /\ r.kind # "image"
  BY DEF Notes
<1>13. ItemsInv'
  <2>1. Once(Append(lines, r), new)
    BY <1>1, <1>9, <1>10, <1>12, OnceKept
  <2> QED BY <1>1, <1>11, <2>1 DEF ItemsInv
<1>14. ImagesInv'
  <2> SUFFICES ASSUME format = "x937"
               PROVE  /\ \A n \in 1..Len(new) : HasOwn(lines', new, n)
                      /\ current' # NoValue => Collected(lines', current', images')
    BY <1>2, <1>11 DEF ImagesInv
  <2>1. ASSUME NEW n \in 1..Len(new) PROVE HasOwn(Append(lines, r), new, n)
    <3>1. n \in 1..Len(old) /\ HasOwn(lines, old, n)
      BY <1>9, <1>10
    <3> QED BY <1>1, <1>9, <1>10, <1>12, <3>1, OwnKept
  <2>2. ASSUME current # NoValue PROVE Collected(Append(lines, r), current, images)
    <3>1. current \in 1..Len(lines) /\ Collected(lines, current, images)
      BY <1>1, <1>10, <2>2 DEF CurrentInv
    <3> QED BY <1>1, <1>12, <3>1, CollectedKept
  <2>3. current' = current /\ images' = images
    BY DEF Notes
  <2> QED BY <1>1, <2>1, <2>2, <2>3
<1> QED BY <1>3, <1>4, <1>5, <1>6, <1>13, <1>14 DEF RecordsInv

\* An entry of NACHA is handed on at once, in the batch that is open.
LEMMA EntryStep ==
  ASSUME RecordsInv, NEW i \in Items, EntryDetail(i), batch # NoValue
  PROVE  RecordsInv'
<1> DEFINE last == Len(lines) + 1
<1>1. PICK r : r = [kind |-> "item", item |-> i]
  OBVIOUS
<1>2. PICK e : e = [item |-> i, date |-> batch, front |-> NoValue, back |-> NoValue, line |-> last]
  OBVIOUS
<1>3. r \in Record /\ r.kind = "item" /\ r.item = i
  BY <1>1 DEF Record
<1>4. /\ Reads(r) /\ format = "nacha" /\ result' = Append(result, e)
      /\ sums' = [sums EXCEPT !["batch"] = Plus(@, i), !["file"] = Plus(@, i)]
      /\ UNCHANGED <<format, batch, current, images, verdict>>
  BY <1>1, <1>2 DEF EntryDetail, Reading, Line, Reads
<1>5. /\ FileTypeOK /\ CurrentInv /\ TotalsInv /\ BatchInv /\ ItemsInv /\ verdict = "reading"
      /\ lines \in Seq(Record) /\ lines' = Append(lines, r) /\ Len(lines) \in Nat
      /\ result \in Seq(Read) /\ Len(result) \in Nat /\ MaxLines \in Nat
  BY <1>4, StateFacts DEF RecordsInv, Reads
<1>6. /\ lines' \in Seq(Record) /\ Len(lines') = last /\ last <= MaxLines
      /\ \A k \in 1..Len(lines) : lines'[k] = lines[k]
      /\ format' \in Formats
  BY <1>3, <1>4, <1>5, ReadsFacts
<1>7. /\ e \in Read /\ e.line = last /\ e.item = i /\ e.date = batch
  <2>1. last \in 1..MaxLines
    BY <1>5, <1>6
  <2>2. batch \in Dates \cup {NoValue}
    BY <1>5 DEF FileTypeOK
  <2> QED BY <1>2, <2>1, <2>2 DEF Read
<1>8. \A l \in Levels : sums'[l] = IF l = "letter" THEN sums[l] ELSE Plus(sums[l], i)
  <2>1. sums \in [Levels -> Totals]
    BY <1>5 DEF FileTypeOK
  <2> QED BY <1>4, <2>1 DEF Levels
<1>9. FileTypeOK'
  <2>1. sums' \in [Levels -> Totals]
    <3>1. \A l \in Levels : sums'[l] \in Totals
      BY <1>5, <1>8, PlusType DEF FileTypeOK
    <3>2. sums' = [l \in Levels |-> sums'[l]]
      BY <1>4, <1>5 DEF FileTypeOK
    <3> QED BY <3>1, <3>2
  <2>2. result' \in Seq(Read)
    BY <1>4, <1>5, <1>7
  <2> QED BY <1>4, <1>5, <1>6, <2>1, <2>2 DEF FileTypeOK
<1>10. CurrentInv'
  BY <1>4, <1>5, <1>6 DEF CurrentInv
<1>11. TotalsInv'
  <2>1. \A l \in Levels : (l = "letter" => format = "x937") =>
          sums'[l] = IF r.kind \in Opening[l] THEN Zero
                     ELSE IF r.kind = "item" THEN Plus(sums[l], r.item) ELSE sums[l]
    <3>1. \A l \in Levels : r.kind \notin Opening[l]
      BY <1>3 DEF Levels, Opening
    <3>2. \A l \in Levels : (l = "letter" => format = "x937") => sums'[l] = Plus(sums[l], r.item)
      BY <1>3, <1>4, <1>8
    <3> QED BY <1>3, <3>1, <3>2
  <2>2. r.kind \notin Levels
    BY <1>3 DEF Levels
  <2> QED BY <1>3, <1>4, <1>5, <2>1, <2>2, TotalsAppend
<1>12. Flushed = result /\ Once(lines, result) /\ Handed' = result'
  <2>1. current = NoValue /\ current' = NoValue
    BY <1>4, <1>5 DEF CurrentInv
  <2>2. Flushed' = result'
    BY <2>1, FlushedIs
  <2> QED BY <1>4, <1>5, <2>2, HandedFacts DEF Handed
<1>13. Once(Append(lines, r), Append(result, e))
  BY <1>3, <1>5, <1>7, <1>12, OnceMore
<1>14. ItemsInv'
  BY <1>4, <1>5, <1>12, <1>13 DEF ItemsInv
<1>15. BatchInv'
  <2>1. /\ batch' = IF OpenAt(lines', Len(lines') + 1)
                    THEN lines'[LastBefore(lines', Len(lines') + 1, {"header"})].date
                    ELSE NoValue
        /\ \A n \in 1..Len(result) :
             /\ OpenAt(lines', result[n].line)
             /\ result[n].date = lines'[LastBefore(lines', result[n].line, {"header"})].date
    <3>1. batch' = IF r.kind = "header" THEN r.date ELSE IF r.kind = "batch" THEN NoValue ELSE batch
      BY <1>3, <1>4
    <3> QED BY <1>3, <1>4, <1>5, <3>1, BatchAppend
  <2>2. OpenAt(lines, last) /\ batch = lines[LastBefore(lines, last, {"header"})].date
    BY <1>4, <1>5 DEF BatchInv, EntryDetail
  <2>3. OpenAt(lines', last) /\ lines'[LastBefore(lines', last, {"header"})].date = batch
    <3>1. last \in 1..(Len(lines) + 1)
      BY <1>5
    <3> QED BY <1>3, <1>5, <2>2, <3>1, OpenAppend
  <2>4. ASSUME NEW n \in 1..Len(result')
        PROVE  /\ OpenAt(lines', result'[n].line)
               /\ result'[n].date = lines'[LastBefore(lines', result'[n].line, {"header"})].date
    <3>1. CASE n \in 1..Len(result)
      <4>1. result'[n] = result[n]
        BY <1>4, <1>5, <1>7, <3>1
      <4> QED BY <2>1, <3>1, <4>1
    <3>2. CASE n \notin 1..Len(result)
      <4>1. result'[n] = e
        BY <1>4, <1>5, <1>7, <3>2
      <4> QED BY <1>7, <2>3, <4>1
    <3> QED BY <3>1, <3>2
  <2> QED BY <1>4, <2>1, <2>4 DEF BatchInv
<1>16. ImagesInv'
  BY <1>4 DEF ImagesInv
<1> QED BY <1>9, <1>10, <1>11, <1>14, <1>15, <1>16 DEF RecordsInv

\* A check of X9.37 is collected once the one before is handed on.
LEMMA CheckStep ==
  ASSUME RecordsInv, NEW i \in Items, CheckDetail(i)
  PROVE  RecordsInv'
<1> DEFINE last == Len(lines) + 1
<1>1. PICK r : r = [kind |-> "item", item |-> i]
  OBVIOUS
<1>2. PICK old : old = Flushed
  OBVIOUS
<1>3. r \in Record /\ r.kind = "item" /\ r.item = i
  BY <1>1 DEF Record
<1>4. /\ Reads(r) /\ format = "x937" /\ result' = old /\ current' = last /\ images' = <<>>
      /\ sums' = [l \in Levels |-> Plus(sums[l], i)]
      /\ UNCHANGED <<format, batch, verdict>>
  BY <1>1, <1>2 DEF CheckDetail, Reading, Line, Reads
<1>5. /\ FileTypeOK /\ CurrentInv /\ TotalsInv /\ verdict = "reading"
      /\ lines \in Seq(Record) /\ lines' = Append(lines, r) /\ Len(lines) \in Nat /\ MaxLines \in Nat
      /\ batch \in Dates \cup {NoValue} /\ \A l \in Levels : sums[l] \in Totals
  BY <1>4, StateFacts DEF RecordsInv, Reads, FileTypeOK
<1>6. /\ lines' \in Seq(Record) /\ Len(lines') = last /\ last <= MaxLines /\ lines'[last] = r
      /\ format' \in Formats
  BY <1>3, <1>4, <1>5, ReadsFacts
<1>7. /\ old \in Seq(Read) /\ Once(lines, old)
      /\ \A n \in 1..Len(old) : old[n].line \in 1..Len(lines) /\ HasOwn(lines, old, n)
  BY <1>2, <1>4, <1>5, HandedFacts
<1>8. last \in 1..MaxLines /\ last \in 1..Len(lines') /\ last \in Nat
  BY <1>5, <1>6
<1>9. FileTypeOK'
  <2>1. sums' \in [Levels -> Totals]
    BY <1>4, <1>5, PlusType
  <2>2. images' \in Seq(Images) /\ current' \in 1..MaxLines
    BY <1>4, <1>8
  <2> QED BY <1>4, <1>5, <1>6, <1>7, <2>1, <2>2 DEF FileTypeOK
<1>10. CurrentInv' /\ current' # NoValue
  <2>1. NoValue \notin Nat
    BY FileConstants
  <2> QED BY <1>3, <1>4, <1>6, <1>8, <2>1 DEF CurrentInv
<1>11. TotalsInv'
  <2>1. \A l \in Levels : (l = "letter" => format = "x937") =>
          sums'[l] = IF r.kind \in Opening[l] THEN Zero
                     ELSE IF r.kind = "item" THEN Plus(sums[l], r.item) ELSE sums[l]
    BY <1>3, <1>4 DEF Levels, Opening
  <2>2. r.kind \notin Levels
    BY <1>3 DEF Levels
  <2> QED BY <1>3, <1>4, <1>5, <2>1, <2>2, TotalsAppend
<1>12. PICK e : e = Collecting(lines', current', batch', images')
  OBVIOUS
<1>13. /\ e \in Read /\ e.line = last /\ e.item = r.item /\ e.front = NoValue /\ e.back = NoValue
  <2>1. PICK next : next = lines'
    OBVIOUS
  <2>2. PICK date : date = batch'
    OBVIOUS
  <2>3. /\ next \in Seq(Record) /\ last \in 1..Len(next) /\ next[last].kind = "item" /\ next[last].item = r.item
        /\ Len(next) <= MaxLines /\ date \in Dates \cup {NoValue}
    BY <1>3, <1>4, <1>5, <1>6, <1>8, <2>1, <2>2
  <2>4. PICK line : line = last
    OBVIOUS
  <2>5. line \in 1..Len(next) /\ next[line].kind = "item"
    BY <2>3, <2>4
  <2>6. e = Collecting(next, line, date, <<>>)
    BY <1>4, <1>12, <2>1, <2>2, <2>4
  <2>7. e \in Read /\ e.line = line /\ e.item = next[line].item /\ e.front = NoValue /\ e.back = NoValue
    BY <2>3, <2>5, <2>6, CollectingNone
  <2> QED BY <2>3, <2>4, <2>7
<1>14. Handed' = Append(old, e)
  BY <1>4, <1>5, <1>10, <1>12, FlushedIs DEF Handed
<1>15. Once(Append(lines, r), Append(old, e))
  BY <1>3, <1>5, <1>7, <1>13, OnceMore
<1>16. ItemsInv'
  BY <1>5, <1>14, <1>15 DEF ItemsInv
<1>17. \A n \in 1..Len(Append(old, e)) : HasOwn(Append(lines, r), Append(old, e), n)
  BY <1>3, <1>5, <1>7, <1>13, OwnMore
<1>18. Collected(Append(lines, r), last, <<>>)
  BY <1>3, <1>5, CollectedNew
<1>19. ImagesInv'
  BY <1>4, <1>5, <1>14, <1>17, <1>18 DEF ImagesInv
<1>20. BatchInv'
  BY <1>4 DEF BatchInv
<1> QED BY <1>9, <1>10, <1>11, <1>16, <1>19, <1>20 DEF RecordsInv

\* An image of X9.37 goes to the check being collected.
LEMMA ImageStep ==
  ASSUME RecordsInv, NEW i \in Images, ImageViewData(i)
  PROVE  RecordsInv'
<1>1. PICK r : r = [kind |-> "image", image |-> i]
  OBVIOUS
<1>2. r \in Record /\ r.kind = "image" /\ r.image = i
  BY <1>1 DEF Record
<1>3. /\ Reads(r) /\ format = "x937" /\ images' = Append(images, r.image)
      /\ UNCHANGED <<format, batch, sums, current, result, verdict>>
  BY <1>1, <1>2 DEF ImageViewData, Reading, Line, Reads
<1>4. /\ FileTypeOK /\ CurrentInv /\ TotalsInv /\ verdict = "reading"
      /\ lines \in Seq(Record) /\ lines' = Append(lines, r) /\ Len(lines) \in Nat
      /\ images \in Seq(Images) /\ batch \in Dates \cup {NoValue}
  BY <1>3, StateFacts DEF RecordsInv, Reads, FileTypeOK
<1>5. /\ lines' \in Seq(Record) /\ Len(lines') = Len(lines) + 1 /\ Len(lines') <= MaxLines
      /\ \A k \in 1..Len(lines) : lines'[k] = lines[k]
      /\ format' \in Formats
  BY <1>2, <1>3, <1>4, ReadsFacts
<1>6. images' \in Seq(Images)
  BY <1>2, <1>3, <1>4
<1>7. FileTypeOK'
  BY <1>3, <1>4, <1>5, <1>6 DEF FileTypeOK
<1>8. CurrentInv'
  BY <1>3, <1>4, <1>5 DEF CurrentInv
<1>9. TotalsInv'
  <2>1. \A l \in Levels : (l = "letter" => format = "x937") =>
          sums'[l] = IF r.kind \in Opening[l] THEN Zero
                     ELSE IF r.kind = "item" THEN Plus(sums[l], r.item) ELSE sums[l]
    BY <1>2, <1>3 DEF Levels, Opening
  <2>2. r.kind \notin Levels
    BY <1>2 DEF Levels
  <2> QED BY <1>2, <1>3, <1>4, <2>1, <2>2, TotalsAppend
<1>10. PICK old : old = Flushed
  OBVIOUS
<1>11. PICK new : new = Flushed'
  OBVIOUS
<1>12. /\ Len(new) = Len(old) /\ Len(old) \in Nat
       /\ \A n \in 1..Len(old) : new[n].line = old[n].line /\ new[n].item = old[n].item
       /\ \A n \in 1..Len(old) : (n # Len(old) \/ current = NoValue) =>
            new[n].front = old[n].front /\ new[n].back = old[n].back
       /\ current # NoValue =>
            /\ Len(old) \in 1..Len(old) /\ old[Len(old)].line = current
            /\ new[Len(old)].front = IF Len(images') >= 1 THEN images'[1] ELSE NoValue
            /\ new[Len(old)].back = IF Len(images') >= 2 THEN images'[2] ELSE NoValue
  <2>1. current' = current /\ result' = result /\ batch' \in Dates \cup {NoValue}
    BY <1>3, <1>4
  <2> QED BY <1>2, <1>3, <1>4, <1>6, <1>10, <1>11, <2>1, FlushedAlike
<1>13. /\ Once(lines, old) /\ \A n \in 1..Len(old) : old[n].line \in 1..Len(lines) /\ HasOwn(lines, old, n)
       /\ current # NoValue => Collected(lines, current, images)
  BY <1>3, <1>4, <1>10, HandedFacts
<1>14. Handed' = new
  BY <1>3, <1>4, <1>11 DEF Handed
<1>15. ItemsInv'
  <2>1. Once(Append(lines, r), new)
    <3>1. r.kind # "item"
      BY <1>2
    <3> QED BY <1>2, <1>4, <1>12, <1>13, <3>1, OnceKept
  <2> QED BY <1>4, <1>14, <2>1 DEF ItemsInv
<1>16. current # NoValue => current \in 1..Len(lines) /\ Collected(Append(lines, r), current, Append(images, r.image))
  <2> SUFFICES ASSUME current # NoValue
               PROVE  current \in 1..Len(lines) /\ Collected(Append(lines, r), current, Append(images, r.image))
    OBVIOUS
  <2>1. current \in 1..Len(lines)
    BY <1>4 DEF CurrentInv
  <2> QED BY <1>2, <1>4, <1>13, <2>1, CollectedMore
<1>17. ASSUME NEW n \in 1..Len(new) PROVE HasOwn(lines', new, n)
  <2>1. CASE n # Len(old)
    <3>1. HasOwn(Append(lines, r), new, n)
      <4>1. n \in 1..Len(old) /\ HasOwn(lines, old, n) /\ new[n].front = old[n].front /\ new[n].back = old[n].back
        BY <1>12, <1>13, <2>1
      <4> QED BY <1>2, <1>4, <1>12, <1>13, <2>1, <4>1, OwnKept
    <3> QED BY <1>4, <3>1
  <2>2. CASE n = Len(old)
    <3>1. current # NoValue
      <4>1. current = NoValue => Flushed = <<>>
        BY <1>3, <1>4, FlushedIs DEF CurrentInv
      <4> QED BY <1>10, <1>12, <2>2, <4>1
    <3>2. PICK next : next = lines'
      OBVIOUS
    <3>3. PICK collected : collected = images'
      OBVIOUS
    <3>4. PICK line : line = current
      OBVIOUS
    <3>5. next \in Seq(Record) /\ collected \in Seq(Images) /\ Collected(next, line, collected) /\ Len(next) \in Nat
      BY <1>3, <1>4, <1>5, <1>6, <1>16, <3>1, <3>2, <3>3, <3>4
    <3>6. \A k \in {1, 2} : IsImage(next, IF Len(collected) >= k THEN collected[k] ELSE NoValue, k,
                                    LinesOf(next, "image", line, Len(next)))
      BY <3>5, CollectedGives
    <3>7. Own(next, new, n) = LinesOf(next, "image", line, Len(next))
      <4>1. (Len(next) + 1) - 1 = Len(next) /\ n = Len(new) /\ new[n].line = line
        BY <1>12, <2>2, <3>1, <3>4, <3>5
      <4> QED BY <4>1 DEF Own
    <3>8. /\ new[n].front = IF Len(collected) >= 1 THEN collected[1] ELSE NoValue
          /\ new[n].back = IF Len(collected) >= 2 THEN collected[2] ELSE NoValue
      BY <1>12, <2>2, <3>1, <3>3
    <3>9. /\ IsImage(next, IF Len(collected) >= 1 THEN collected[1] ELSE NoValue, 1,
                     LinesOf(next, "image", line, Len(next)))
          /\ IsImage(next, IF Len(collected) >= 2 THEN collected[2] ELSE NoValue, 2,
                     LinesOf(next, "image", line, Len(next)))
      BY <3>6
    <3>10. HasOwn(next, new, n)
      BY <3>7, <3>8, <3>9 DEF HasOwn
    <3> QED BY <3>2, <3>10
  <2> QED BY <2>1, <2>2
<1>18. ImagesInv'
  BY <1>3, <1>4, <1>14, <1>16, <1>17 DEF ImagesInv
<1>19. BatchInv'
  BY <1>3 DEF BatchInv
<1> QED BY <1>7, <1>8, <1>9, <1>15, <1>18, <1>19 DEF RecordsInv

\* At the end of a file what was handed on is what it was, the check being
\* collected included.
LEMMA EndStep ==
  ASSUME RecordsInv, NachaEnd \/ X937End
  PROVE  RecordsInv'
<1>1. /\ FileTypeOK /\ CurrentInv /\ TotalsInv /\ BatchInv /\ ItemsInv /\ ImagesInv
      /\ Flushed \in Seq(Read)
  BY StateFacts DEF RecordsInv
<1>2. /\ verdict = "reading" /\ verdict' \in {"accepted", "rejected"}
      /\ UNCHANGED <<format, lines, batch, sums, current, images>>
      /\ format = "nacha" => result' = result
  BY DEF NachaEnd, X937End
<1>3. result' = Flushed
  BY <1>1, HandedFacts DEF NachaEnd, X937End
<1>4. Handed = Flushed /\ Handed' = Flushed
  BY <1>2, <1>3 DEF Handed
<1>5. FileTypeOK' /\ CurrentInv'
  BY <1>1, <1>2, <1>3 DEF FileTypeOK, CurrentInv
<1>6. TotalsInv'
  BY <1>1, <1>2 DEF TotalsInv, Running, Declaring, Shown
<1>7. BatchInv'
  BY <1>1, <1>2 DEF BatchInv
<1>8. ItemsInv'
  BY <1>1, <1>2, <1>4 DEF ItemsInv
<1>9. ImagesInv'
  BY <1>1, <1>2, <1>4 DEF ImagesInv
<1> QED BY <1>5, <1>6, <1>7, <1>8, <1>9 DEF RecordsInv

LEMMA FileStutter == RecordsInv /\ UNCHANGED fileVars => RecordsInv'
BY DEF fileVars, RecordsInv, FileTypeOK, CurrentInv, TotalsInv, Running, Declaring, Shown, BatchInv,
       ItemsInv, ImagesInv, Handed, Flushed, Image

\* What the headers and the controls that agree do is noted.
LEMMA HeaderNotes ==
  ASSUME RecordsInv, NEW d \in Dates
  PROVE  /\ BatchHeader(d) => \E r \in Record : Notes(r)
         /\ CashLetterHeader(d) => \E r \in Record : Notes(r)
<1>1. /\ batch \in Dates \cup {NoValue} /\ sums \in [Levels -> Totals]
  BY DEF RecordsInv, FileTypeOK
<1>2. \A l \in Levels : [sums EXCEPT ![l] = Zero] \in [Levels -> Totals]
  BY <1>1, ZeroType
<1>3. {"batch", "letter", "file"} = Levels
  BY DEF Levels
<1>4. CASE BatchHeader(d)
  <2>1. PICK r : r = [kind |-> "header", date |-> d]
    OBVIOUS
  <2>2. r \in Record /\ r.kind = "header" /\ r.date = d
    BY <2>1 DEF Record
  <2>3. Reads(r) /\ format = "nacha" /\ batch' = d /\ UNCHANGED <<current, images, result, verdict>>
    BY <1>4, <2>1 DEF BatchHeader, Reading, Line, Reads
  <2>4. sums' = [sums EXCEPT !["batch"] = Zero]
    BY <1>4 DEF BatchHeader
  <2>5. sums' \in [Levels -> Totals]
    BY <1>2, <1>3, <2>4
  <2>6. \A l \in Levels : (l = "letter" => format = "x937") =>
          sums'[l] = IF r.kind \in Opening[l] THEN Zero ELSE sums[l]
    BY <1>1, <2>2, <2>3, <2>4 DEF Levels, Opening
  <2>7. r.kind \notin Levels
    BY <2>2 DEF Levels
  <2> QED BY <2>2, <2>3, <2>5, <2>6, <2>7 DEF Notes
<1>5. CASE CashLetterHeader(d)
  <2>1. PICK r : r = [kind |-> "letterHeader", date |-> d]
    OBVIOUS
  <2>2. r \in Record /\ r.kind = "letterHeader"
    BY <2>1 DEF Record
  <2>3. Reads(r) /\ format = "x937" /\ batch' = d /\ UNCHANGED <<current, images, result, verdict>>
    BY <1>5, <2>1 DEF CashLetterHeader, Reading, Line, Reads
  <2>4. sums' = [sums EXCEPT !["letter"] = Zero]
    BY <1>5 DEF CashLetterHeader
  <2>5. sums' \in [Levels -> Totals]
    BY <1>2, <1>3, <2>4
  <2>6. \A l \in Levels : sums'[l] = IF r.kind \in Opening[l] THEN Zero ELSE sums[l]
    BY <1>1, <2>2, <2>4 DEF Levels, Opening
  <2>7. r.kind \notin Levels
    BY <2>2 DEF Levels
  <2> QED BY <2>2, <2>3, <2>5, <2>6, <2>7 DEF Notes
<1> QED BY <1>4, <1>5

LEMMA BundleNotes ==
  ASSUME RecordsInv, BundleHeader PROVE \E r \in Record : Notes(r)
<1>1. /\ batch \in Dates \cup {NoValue} /\ sums \in [Levels -> Totals]
  BY DEF RecordsInv, FileTypeOK
<1>2. "batch" \in Levels
  BY DEF Levels
<1>3. PICK r : r = [kind |-> "header"]
  OBVIOUS
<1>4. r \in Record /\ r.kind = "header"
  BY <1>3 DEF Record
<1>5. Reads(r) /\ format = "x937" /\ batch' = batch /\ UNCHANGED <<current, images, result, verdict>>
  BY <1>3 DEF BundleHeader, Reading, Line, Reads
<1>6. sums' = [sums EXCEPT !["batch"] = Zero]
  BY DEF BundleHeader
<1>7. sums' \in [Levels -> Totals]
  BY <1>1, <1>2, <1>6, ZeroType
<1>8. \A l \in Levels : sums'[l] = IF r.kind \in Opening[l] THEN Zero ELSE sums[l]
  BY <1>1, <1>4, <1>6 DEF Levels, Opening
<1>9. r.kind \notin Levels
  BY <1>4 DEF Levels
<1> QED BY <1>1, <1>4, <1>5, <1>7, <1>8, <1>9 DEF Notes

LEMMA ControlNotes ==
  ASSUME RecordsInv, NEW level \in Levels, NEW d \in Declared, NEW f, Control(f, level, d),
         level = "letter" => f = "x937", Shown(sums[level]) = d,
         batch' = IF f = "nacha" /\ level = "batch" THEN NoValue ELSE batch,
         UNCHANGED <<sums, current, images, result, verdict>>
  PROVE  \E r \in Record : Notes(r)
<1>1. PICK r : r = [kind |-> level, totals |-> d]
  OBVIOUS
<1>2. r \in Record /\ r.kind = level /\ r.totals = d
  BY <1>1 DEF Record
<1>3. batch \in Dates \cup {NoValue} /\ sums \in [Levels -> Totals]
  BY DEF RecordsInv, FileTypeOK
<1>4. Reads(r) /\ format = f
  BY <1>1 DEF Control, Reading, Line, Reads
<1>5. r.kind \notin {"item", "image", "header", "letterHeader"} /\ \A l \in Levels : r.kind \notin Opening[l]
  BY <1>2 DEF Levels, Opening
<1> QED BY <1>2, <1>3, <1>4, <1>5 DEF Notes

LEMMA ControlStep ==
  ASSUME RecordsInv, NEW level \in Levels, NEW d \in Declared,
         BatchControl(d) \/ NachaFileControl(d) \/ X937Control(level, d)
  PROVE  RecordsInv'
<1>1. ASSUME NEW l \in Levels, NEW f, Control(f, l, d), RejectFile PROVE RecordsInv'
  <2>1. PICK r : r = [kind |-> l, totals |-> d]
    OBVIOUS
  <2>2. r \in Record /\ Reads(r)
    BY <1>1, <2>1 DEF Record, Control, Reading, Line, Reads
  <2> QED BY <1>1, <2>2, RejectStep
<1>2. {"batch", "letter", "file"} = Levels
  BY DEF Levels
<1>3. (\E r \in Record : Notes(r)) => RecordsInv'
  BY NotesStep
<1>4. CASE BatchControl(d)
  <2>1. CASE Shown(sums["batch"]) # d
    BY <1>1, <1>2, <1>4, <2>1 DEF BatchControl
  <2>2. CASE Shown(sums["batch"]) = d
    <3>1. /\ Control("nacha", "batch", d) /\ batch' = NoValue
          /\ UNCHANGED <<sums, current, images, result, verdict>>
      BY <1>4, <2>2 DEF BatchControl
    <3> QED BY <1>2, <1>3, <2>2, <3>1, ControlNotes
  <2> QED BY <2>1, <2>2
<1>5. CASE NachaFileControl(d)
  <2>1. CASE Shown(sums["file"]) # d
    BY <1>1, <1>2, <1>5, <2>1 DEF NachaFileControl
  <2>2. CASE Shown(sums["file"]) = d
    <3>1. /\ Control("nacha", "file", d) /\ batch' = batch
          /\ UNCHANGED <<sums, current, images, result, verdict>>
      BY <1>5, <2>2 DEF NachaFileControl
    <3> QED BY <1>2, <1>3, <2>2, <3>1, ControlNotes
  <2> QED BY <2>1, <2>2
<1>6. CASE X937Control(level, d)
  <2>1. CASE Shown(sums[level]) # d
    BY <1>1, <1>6, <2>1 DEF X937Control
  <2>2. CASE Shown(sums[level]) = d
    <3>1. /\ Control("x937", level, d) /\ batch' = batch
          /\ UNCHANGED <<sums, current, images, result, verdict>>
      BY <1>6, <2>2 DEF X937Control
    <3> QED BY <1>3, <2>2, <3>1, ControlNotes
  <2> QED BY <2>1, <2>2
<1> QED BY <1>4, <1>5, <1>6

LEMMA FileStep == RecordsInv /\ [FileNext]_fileVars => RecordsInv'
<1> SUFFICES ASSUME RecordsInv, [FileNext]_fileVars PROVE RecordsInv'
  OBVIOUS
<1>1. ASSUME NEW d \in Dates, BatchHeader(d) \/ CashLetterHeader(d) PROVE RecordsInv'
  BY <1>1, HeaderNotes, NotesStep
<1>2. CASE BundleHeader
  BY <1>2, BundleNotes, NotesStep
<1>3. ASSUME NEW i \in Items, EntryDetail(i) PROVE RecordsInv'
  <2>1. CASE batch = NoValue
    <3>1. PICK r : r = [kind |-> "item", item |-> i]
      OBVIOUS
    <3>2. r \in Record /\ Reads(r) /\ RejectFile
      BY <1>3, <2>1, <3>1 DEF Record, EntryDetail, Reading, Line, Reads
    <3> QED BY <3>2, RejectStep
  <2> QED BY <1>3, <2>1, EntryStep
<1>4. ASSUME NEW i \in Items, CheckDetail(i) PROVE RecordsInv'
  BY <1>4, CheckStep
<1>5. ASSUME NEW d \in Declared,
             BatchControl(d) \/ NachaFileControl(d) \/ \E l \in Levels : X937Control(l, d)
      PROVE  RecordsInv'
  <2>1. Levels # {}
    BY DEF Levels
  <2> QED BY <1>5, <2>1, ControlStep
<1>6. CASE Unreadable
  <2>1. PICK r : r = [kind |-> "unreadable"]
    OBVIOUS
  <2>2. r \in Record /\ Reads(r) /\ RejectFile
    BY <1>6, <2>1 DEF Record, Unreadable, Line, Reads
  <2> QED BY <2>2, RejectStep
<1>7. ASSUME NEW i \in Images, ImageViewData(i) PROVE RecordsInv'
  BY <1>7, ImageStep
<1>8. CASE NachaEnd \/ X937End
  BY <1>8, EndStep
<1>9. CASE UNCHANGED fileVars
  BY <1>9, FileStutter
<1> QED BY <1>1, <1>2, <1>3, <1>4, <1>5, <1>6, <1>7, <1>8, <1>9 DEF FileNext

LEMMA FileBegins == FileInit => RecordsInv
<1> SUFFICES ASSUME FileInit PROVE RecordsInv
  OBVIOUS
<1>1. /\ format \in Formats /\ lines = <<>> /\ batch = NoValue /\ sums = [l \in Levels |-> Zero]
      /\ current = NoValue /\ images = <<>> /\ result = <<>> /\ verdict = "reading"
      /\ MaxLines \in Nat /\ Len(<<>>) = 0 /\ 1..0 = {}
  BY FileConstants DEF FileInit
<1>2. lines \in Seq(Record) /\ result \in Seq(Read) /\ images \in Seq(Images)
  BY <1>1
<1>3. FileTypeOK /\ CurrentInv
  BY <1>1, <1>2, ZeroType DEF FileTypeOK, CurrentInv
<1>4. \A kind : LinesOf(lines, kind, 1, 0) = {}
  BY <1>1 DEF LinesOf
<1>5. \A kinds : LastBefore(lines, 1, kinds) = 0
  <2> TAKE kinds
  <2>1. 1 \in Nat \ {0} /\ 1 - 1 = 0
    OBVIOUS
  <2>2. LastBefore(lines, 1, kinds) \in 0..(1 - 1)
    BY <2>1, LastFacts
  <2> QED BY <2>2
<1>6. \A l \in Levels : Sum(lines, Since(lines, l)) = Zero
  <2> TAKE l \in Levels
  <2>1. Since(lines, l) = {}
    BY <1>1, <1>4, <1>5 DEF Since
  <2> QED BY <2>1, SumOfNone
<1>7. TotalsInv
  BY <1>1, <1>6 DEF TotalsInv, Running, Declaring
<1>8. BatchInv
  BY <1>1, <1>5 DEF BatchInv, OpenAt
<1>9. Handed = <<>>
  BY <1>1 DEF Handed, Flushed
<1>10. ItemsInv
  BY <1>1, <1>4, <1>9 DEF ItemsInv, Once
<1>11. ImagesInv
  BY <1>1, <1>9 DEF ImagesInv
<1> QED BY <1>3, <1>7, <1>8, <1>10, <1>11 DEF RecordsInv

LEMMA FileInvariance == FileSpec => []RecordsInv
BY FileBegins, FileStep, PTL DEF FileSpec

-----------------------------------------------------------------------------
(* The theorems about BulkFiles.                                            *)

\* In an accepted file, of any length and any order of its records, every control
\* record declares just what stands between it and the header of its level, and
\* every entry of NACHA has the date of the batch that encloses it: what
\* parse_nacha_file and parse_x937_file keep in running totals that they reset,
\* add to and compare is what the records say.
THEOREM FilesAgreeWithTheirControls == FileSpec => []RecordsAgree
<1>1. RecordsInv => RecordsAgree
  <2> SUFFICES ASSUME RecordsInv PROVE RecordsAgree
    OBVIOUS
  <2>1. FileTypeOK /\ TotalsInv /\ BatchInv
    BY DEF RecordsInv
  <2>2. ControlsAgree
    BY <2>1 DEF ControlsAgree, TotalsInv, Declaring
  <2>3. EntriesEnclosed
    BY <2>1 DEF EntriesEnclosed, Accepted, BatchInv, OpenAt
  <2> QED BY <2>1, <2>2, <2>3 DEF RecordsAgree
<1> QED BY <1>1, FileInvariance, PTL

\* The items of an accepted file are handed on each once and in order, and of
\* X9.37 each with the first two of the images that follow it and precede the
\* next check, though the check is handed on only when the next one, or the end
\* of the file, is read (parse_x937_file, its _flush).
THEOREM ItemsAreThoseOfTheFile == FileSpec => []ItemsAreTheFiles
<1>1. RecordsInv => ItemsAreTheFiles
  <2> SUFFICES ASSUME RecordsInv, verdict = "accepted" PROVE EveryItemOnce /\ ImagesAreTheChecks
    BY DEF ItemsAreTheFiles, EveryItemOnce, ImagesAreTheChecks, Accepted
  <2>1. Handed = result
    BY DEF Handed
  <2>2. EveryItemOnce
    BY <2>1 DEF RecordsInv, ItemsInv, Once, EveryItemOnce
  <2>3. format = "x937" => \A n \in 1..Len(result) : HasOwn(lines, result, n)
    BY <2>1 DEF RecordsInv, ImagesInv
  <2>4. ImagesAreTheChecks
    BY <2>3 DEF ImagesAreTheChecks, Accepted, HasOwn, Own
  <2> QED BY <2>2, <2>4
<1> QED BY <1>1, FileInvariance, PTL

=============================================================================
