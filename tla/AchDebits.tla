------------------------------ MODULE AchDebits ------------------------------
(***************************************************************************)
(* ACH entries of one account: the authorizations a customer gives an      *)
(* originator, the rules an incoming entry is matched against, its         *)
(* settlement, the fraud labels put on it, and the written statements of   *)
(* unauthorized debit signed over what was returned (networks/ach,         *)
(* services/ach_authorization_service.py, fraud_training_service.py and    *)
(* wsud_service.py, and the pages in front of them).                       *)
(*                                                                         *)
(* A submission is one transaction, of which the two halves matter: it     *)
(* reads (Evaluate) and it commits (Ingest).  Up to Slots of them, and     *)
(* everything else, interleave.  What becomes of the exception itself is   *)
(* ExceptionReview's, with the catalog of return reasons and the rows a    *)
(* label adds; here it only is decided, once, and a label only is there.   *)
(***************************************************************************)
EXTENDS Integers, FiniteSets

CONSTANTS
  Rules,      \* authorizations that may be given, with their terms
  Entries,    \* what a submission or a row of a file may say
  Traces,     \* trace numbers
  Consumer,   \* SEC codes of consumer entries
  Window,     \* days a frequency limit looks back
  Slots,      \* submissions being handled at once
  Statements, \* statements that may be signed
  None

\* An ach_authorization_rule's terms: None for any receiver, no limit, any SEC
\* code, no last day.  All are of one originator.
Authorization ==
  [receiver: {None} \cup {e.receiver : e \in Entries}, max: Nat \cup {None}, freq: Nat \cup {None},
   secs: {None} \cup SUBSET {e.sec : e \in Entries}, from: Nat, until: Nat \cup {None}]

ASSUME ConstantsAssumption ==
  /\ Window \in Nat \ {0} /\ Slots \in Nat \ {0}
  /\ \A e \in Entries : /\ {"type", "receiver", "amount", "sec", "date"} \subseteq DOMAIN e
                        /\ e.type \in {"debit", "credit"} /\ e.amount \in Int /\ e.date \in Int
  /\ Rules \subseteq Authorization /\ None \notin Rules

Verdicts == {"unauthorized_originator", "receiver_id_not_permitted", "amount_exceeds_limit",
             "frequency_exceeded", "sec_code_not_permitted"}

\* What may stand against an entry; a row made for a label is known fraud.
Reasons == Verdicts \cup {"known_fraud"}

\* A submission that has read what it needs.  rule and read are history: the
\* authorization it was matched against and the traces already on file.
Evaluation == [trace: Traces, entry: Entries, why: SUBSET Verdicts, rule: Rules \cup {None},
               seen: SUBSET Rules, read: SUBSET Traces]

\* An ach_transaction row, the exception_item matching opened on it, with its
\* outcome once decided, and whether it is, or was, labelled as fraud.
Transaction == [entry: Entries, match: {"matched", "exception"},
                settlement: {"pending", "paid", "returned"},
                exception: {"none", "open", "pay", "return"}, label: {"none", "active", "retracted"},
                why: SUBSET Reasons, rule: Rules \cup {None}, seen: SUBSET Rules, read: SUBSET Traces]

ASSUME NoneAssumption == None \notin Transaction

VARIABLES
  status,    \* ach_authorization_rule.status, None before it is given
  blocked,   \* account.ach_debit_block_mode is BLOCK_ALL
  pending,   \* submissions that have read and not committed
  txns,      \* ach_transaction, None for a trace not on file
  statements \* wsud_statement with the transactions it covers

vars == <<status, blocked, pending, txns, statements>>

OnFile == {t \in Traces : txns[t] # None}

TypeOK ==
  /\ status \in [Rules -> {None, "active", "revoked"}]
  /\ blocked \in BOOLEAN
  /\ pending \subseteq Evaluation /\ Cardinality(pending) <= Slots
  /\ txns \in [Traces -> Transaction \cup {None}]
  /\ statements \in [Statements -> SUBSET Traces]

Init ==
  /\ status = [r \in Rules |-> None]
  /\ blocked \in BOOLEAN
  /\ pending = {}
  /\ txns = [t \in Traces |-> None]
  /\ statements = [s \in Statements |-> {}]

-----------------------------------------------------------------------------
(* The rules.                                                              *)

\* Active authorizations of the originator on the entry's date, whatever their
\* receiver.
Candidates(e) ==
  {r \in Rules : /\ status[r] = "active"
                 /\ r.from <= e.date
                 /\ r.until = None \/ e.date <= r.until}

\* Settled debits of the originator in the days before; those of the same day
\* are not among them.
PriorSettled(e) ==
  Cardinality({t \in OnFile : /\ txns[t].entry.type = "debit"
                              /\ txns[t].settlement = "paid"
                              /\ txns[t].entry.date \in (e.date - Window)..(e.date - 1)})

\* A mutant: any authorization covering the receiver will do.
Selected_Any(e) == {r \in Candidates(e) : r.receiver \in {None, e.receiver}}

\* An authorization of this very receiver before a blanket one.  The query has
\* no order: any of several equally specific ones may come first.
Selected(e) ==
  LET exact == {r \in Candidates(e) : r.receiver # None /\ r.receiver = e.receiver}
  IN  IF exact # {} THEN exact ELSE {r \in Candidates(e) : r.receiver = None}

\* Everything the entry exceeds of one authorization.
Exceeds(r, e) ==
  {v \in {"amount_exceeds_limit", "frequency_exceeded", "sec_code_not_permitted"} :
     \/ v = "amount_exceeds_limit" /\ r.max # None /\ e.amount > r.max
     \/ v = "frequency_exceeded" /\ r.freq # None /\ PriorSettled(e) >= r.freq
     \/ v = "sec_code_not_permitted" /\ r.secs # None /\ e.sec \notin r.secs}

\* <<verdicts, authorization>>: credits always clear, and of a debit the first
\* reason that makes the others pointless is the only one.
Outcomes(e) ==
  IF e.type = "credit" THEN {<<{}, None>>}
  ELSE IF blocked \/ Candidates(e) = {} THEN {<<{"unauthorized_originator"}, None>>}
  ELSE IF Selected(e) = {} THEN {<<{"receiver_id_not_permitted"}, r>> : r \in Candidates(e)}
  ELSE {<<Exceeds(r, e), r>> : r \in Selected(e)}

-----------------------------------------------------------------------------
(* Submissions: one by one, or as rows of a file, each its own transaction. *)

\* The row is inserted before it is matched: its trace number is unique, so a
\* second submission of it fails, or waits for what becomes of the first.
Evaluate(t, e) ==
  /\ Cardinality(pending) < Slots
  /\ txns[t] = None /\ \A p \in pending : p.trace # t
  /\ \E o \in Outcomes(e) :
       pending' = pending \cup {[trace |-> t, entry |-> e, why |-> o[1], rule |-> o[2],
                                 seen |-> Candidates(e), read |-> OnFile]}
  /\ UNCHANGED <<status, blocked, txns, statements>>

\* A mutant: what did not match is paid as well.
Settled_Always(p) == [match |-> IF p.why = {} THEN "matched" ELSE "exception", settlement |-> "paid",
                      exception |-> IF p.why = {} THEN "none" ELSE "open"]

Settled(p) ==
  IF p.why = {} THEN [match |-> "matched", settlement |-> "paid", exception |-> "none"]
  ELSE [match |-> "exception", settlement |-> "pending", exception |-> "open"]

\* The row, and for an entry that did not match its exception, in one commit.
Ingest(p) ==
  /\ p \in pending
  /\ txns' = [txns EXCEPT ![p.trace] =
       [entry |-> p.entry, match |-> Settled(p).match, settlement |-> Settled(p).settlement,
        exception |-> Settled(p).exception, label |-> "none",
        why |-> p.why, rule |-> p.rule, seen |-> p.seen, read |-> p.read]]
  /\ pending' = pending \ {p}
  /\ UNCHANGED <<status, blocked, statements>>

\* Any error: the submission, or the row of the file, is rolled back.
Reject(p) ==
  /\ p \in pending
  /\ pending' = pending \ {p}
  /\ UNCHANGED <<status, blocked, txns, statements>>

-----------------------------------------------------------------------------
(* Authorizations and the account.                                         *)

CreateAuthorization(r) ==
  /\ status[r] = None
  /\ status' = [status EXCEPT ![r] = "active"]
  /\ UNCHANGED <<blocked, pending, txns, statements>>

RevokeAuthorization(r) ==
  /\ status[r] # None
  /\ status' = [status EXCEPT ![r] = "revoked"]
  /\ UNCHANGED <<blocked, pending, txns, statements>>

SetDebitBlock(b) ==
  /\ blocked' = b
  /\ UNCHANGED <<status, pending, txns, statements>>

-----------------------------------------------------------------------------
(* What is decided, what is labelled, and statements over what was         *)
(* returned.                                                               *)

\* Paying an exception leaves the settlement as it is; only a return is noted.
Decide(t, outcome) ==
  /\ txns[t] # None /\ txns[t].exception = "open"
  /\ txns' = [txns EXCEPT ![t].exception = outcome,
                          ![t].settlement = IF outcome = "return" THEN "returned" ELSE @]
  /\ UNCHANGED <<status, blocked, pending, statements>>

\* A fraud example of what is on file, paid or a credit as it may be: the label's
\* own exception is beside the one matching opened, which stays as it is.
LabelTransaction(t) ==
  /\ txns[t] # None /\ txns[t].label # "active"
  /\ txns' = [txns EXCEPT ![t].label = "active", ![t].settlement = "returned"]
  /\ UNCHANGED <<status, blocked, pending, statements>>

\* A fraud example of what never came in: a row made for it, never matched.
LabelRaw(t, e) ==
  /\ txns[t] = None /\ \A p \in pending : p.trace # t
  /\ txns' = [txns EXCEPT ![t] =
       [entry |-> e, match |-> "exception", settlement |-> "returned", exception |-> "none",
        label |-> "active", why |-> {"known_fraud"}, rule |-> None, seen |-> {}, read |-> {}]]
  /\ UNCHANGED <<status, blocked, pending, statements>>

\* A mutant: withdrawing a label undoes what it did.
RetractFraudExample_Reinstates(t) ==
  /\ txns[t] # None /\ txns[t].label = "active"
  /\ txns' = [txns EXCEPT ![t].label = "none",
                          ![t].settlement = IF txns[t].why = {} THEN "paid" ELSE "pending"]
  /\ UNCHANGED <<status, blocked, pending, statements>>

\* Withdrawn, the example no longer trains; the settlement is not put back.
RetractFraudExample(t) ==
  /\ txns[t] # None /\ txns[t].label = "active"
  /\ txns' = [txns EXCEPT ![t].label = "retracted"]
  /\ UNCHANGED <<status, blocked, pending, statements>>

\* Whatever was returned, a credit too: the query asks for no type.
Eligible == {t \in OnFile : txns[t].settlement = "returned" /\ txns[t].entry.sec \in Consumer}

\* Over any of them, those another statement already covers included.
Signable(S) == S # {} /\ S \subseteq Eligible

\* What is eligible is looked up again when the signed form arrives.
SignStatement(s, S) ==
  /\ statements[s] = {}
  /\ Signable(S)
  /\ statements' = [statements EXCEPT ![s] = S]
  /\ UNCHANGED <<status, blocked, pending, txns>>

-----------------------------------------------------------------------------
Next ==
  \/ \E t \in Traces, e \in Entries : Evaluate(t, e)
  \/ \E p \in pending : Ingest(p) \/ Reject(p)
  \/ \E r \in Rules : CreateAuthorization(r) \/ RevokeAuthorization(r)
  \/ \E b \in BOOLEAN : SetDebitBlock(b)
  \/ \E t \in Traces, outcome \in {"pay", "return"} : Decide(t, outcome)
  \/ \E t \in Traces : LabelTransaction(t) \/ RetractFraudExample(t)
  \/ \E t \in Traces, e \in Entries : LabelRaw(t, e)
  \/ \E s \in Statements, S \in SUBSET Traces : SignStatement(s, S)

Spec == Init /\ [][Next]_vars

-----------------------------------------------------------------------------
(* Properties.                                                             *)

Cleared == {t \in OnFile : txns[t].match = "matched" /\ txns[t].entry.type = "debit"}

\* Limits tightened for one receiver hold against the blanket authorization of
\* its originator: a debit that cleared while the receiver had authorizations of
\* its own was within one of those, also when it came in while others were
\* being given or revoked.
TighterLimitHolds ==
  \A t \in Cleared :
    LET own == {r \in txns[t].seen : r.receiver = txns[t].entry.receiver}
        Within(r) == r.max = None \/ txns[t].entry.amount <= r.max
    IN  own # {} => \E r \in own : Within(r)

\* Under a limit of n in the window no debit clears once n others of earlier days
\* in it had cleared, were on file when it was looked at, and were never labelled
\* as fraud.  (More than n may clear: those of one day, those looked at together
\* and those that arrive out of order do not see each other, and one labelled
\* after it was paid makes room for another.)
LimitCountsEarlierDays ==
  \A t \in Cleared :
    txns[t].rule # None /\ txns[t].rule.freq # None =>
      Cardinality({u \in Cleared \cap txns[t].read : /\ txns[u].label = "none"
        /\ txns[u].entry.date \in (txns[t].entry.date - Window)..(txns[t].entry.date - 1)}) < txns[t].rule.freq

\* The limits on amount and number.
LimitsHold == TighterLimitHolds /\ LimitCountsEarlierDays

\* A person returned it: by deciding its exception or by labelling it.
Refused(x) == x.exception = "return" \/ x.label # "none"

\* A settlement has a reason, in whatever order matching, decisions and labels
\* come: an entry is returned exactly when a person refused it, and for good,
\* also when the label is withdrawn; otherwise it is paid exactly when matching
\* found nothing against it.
SettlementIsExplained ==
  \A t \in OnFile :
    /\ txns[t].settlement = "returned" <=> Refused(txns[t])
    /\ txns[t].settlement = "paid" <=> txns[t].why = {} /\ ~Refused(txns[t])

\* Types, and why each entry is settled as it is.
EntriesAgree == TypeOK /\ SettlementIsExplained

\* What an account holder attested stays true: everything a signed statement
\* covers is returned consumer business for good, refused by a person, and a
\* debit unless it was labelled as fraud.  (A labelled credit may be covered.)
StatementsStand ==
  \A s \in Statements : \A t \in statements[s] :
    /\ t \in Eligible /\ Refused(txns[t])
    /\ txns[t].entry.type = "credit" => txns[t].label # "none"
=============================================================================
