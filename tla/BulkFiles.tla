------------------------------ MODULE BulkFiles ------------------------------
(***************************************************************************)
(* Reading the two bank formats a bulk upload may have, record by record:  *)
(* NACHA (bulk_import/nacha.py) and X9.37 image cash letters               *)
(* (bulk_import/x937.py).  Both are read leniently but for their control   *)
(* records, which declare what came before them: one that disagrees        *)
(* rejects the whole file, so nothing is loaded of a file that was cut or  *)
(* put together wrongly.                                                   *)
(*                                                                         *)
(* Any file of up to MaxLines records is read.  A record is its kind and   *)
(* what the readers take from it; columns and padding are left out.        *)
(***************************************************************************)
EXTENDS Naturals, Sequences, FiniteSets, SequencesExt, FiniteSetsExt

CONSTANTS
  Formats,
  Dates,    \* of a batch or a cash letter
  Items,    \* what an entry or a check may say: [amount, dfi, code]
  Declared, \* totals a control record may declare: [items, hash, debit, credit]
  Modulus,  \* entry hashes are compared up to it
  Images,
  MaxLines, \* bound on the records of a file
  NoValue

ASSUME FileConstants ==
  /\ Formats \subseteq {"nacha", "x937"}
  /\ Modulus \in Nat \ {0} /\ MaxLines \in Nat
  /\ \A i \in Items : i.amount \in Nat /\ i.dfi \in Nat /\ i.code \in {"debit", "credit"}
  /\ NoValue \notin Nat \cup Dates \cup Items \cup Images

Totals == [items: Nat, hash: Nat, debit: Nat, credit: Nat]
Zero == [items |-> 0, hash |-> 0, debit |-> 0, credit |-> 0]

\* Of NACHA the batch is inside the file, of X9.37 the bundle inside the cash
\* letter inside the file.
Levels == {"batch", "letter", "file"}

\* An entry or a check as the reader hands it on.  line (history): its record.
Read == [item: Items, date: Dates \cup {NoValue}, front: Images \cup {NoValue}, back: Images \cup {NoValue},
         line: 1..MaxLines]

VARIABLES
  format,
  lines,   \* history: the records read so far
  batch,   \* date of the open batch, of the current cash letter, or NoValue
  sums,    \* running totals of each level
  current, \* X9.37: line of the check whose images are being collected, or NoValue
  images,  \* X9.37: its images so far
  result,  \* entries or checks handed on
  verdict

fileVars == <<format, lines, batch, sums, current, images, result, verdict>>

FileTypeOK ==
  /\ format \in Formats
  /\ Len(lines) <= MaxLines
  /\ batch \in Dates \cup {NoValue}
  /\ sums \in [Levels -> Totals]
  /\ current \in 1..MaxLines \cup {NoValue}
  /\ images \in Seq(Images)
  /\ result \in Seq(Read)
  /\ verdict \in {"reading", "accepted", "rejected"}

FileInit ==
  /\ format \in Formats
  /\ lines = <<>>
  /\ batch = NoValue
  /\ sums = [l \in Levels |-> Zero]
  /\ current = NoValue
  /\ images = <<>>
  /\ result = <<>>
  /\ verdict = "reading"

-----------------------------------------------------------------------------
Reading(f) == verdict = "reading" /\ format = f /\ Len(lines) < MaxLines

Line(record) == lines' = Append(lines, record)

RejectFile == verdict' = "rejected" /\ UNCHANGED <<batch, sums, current, images, result>>

Plus(t, i) ==
  [items |-> t.items + 1, hash |-> t.hash + i.dfi,
   debit |-> t.debit + (IF i.code = "debit" THEN i.amount ELSE 0),
   credit |-> t.credit + (IF i.code = "credit" THEN i.amount ELSE 0)]

\* What is compared of the running totals: X9.37 declares a count and an amount.
Shown(t) ==
  IF format = "nacha" THEN [t EXCEPT !.hash = @ % Modulus]
  ELSE [items |-> t.items, hash |-> 0, debit |-> t.debit + t.credit, credit |-> 0]

Control(f, level, d) ==
  /\ Reading(f)
  /\ Line([kind |-> level, totals |-> d])
  /\ UNCHANGED format

-----------------------------------------------------------------------------
(* NACHA.                                                                  *)

\* A mutant: the totals of the batch before go on.
BatchHeader_KeepsTotals(d) ==
  /\ Reading("nacha")
  /\ Line([kind |-> "header", date |-> d])
  /\ batch' = d
  /\ UNCHANGED <<format, sums, current, images, result, verdict>>

BatchHeader(d) ==
  /\ Reading("nacha")
  /\ Line([kind |-> "header", date |-> d])
  /\ batch' = d
  /\ sums' = [sums EXCEPT !["batch"] = Zero]
  /\ UNCHANGED <<format, current, images, result, verdict>>

\* An entry outside a batch rejects the file.
EntryDetail(i) ==
  /\ Reading("nacha")
  /\ Line([kind |-> "item", item |-> i])
  /\ IF batch = NoValue THEN RejectFile
     ELSE /\ sums' = [sums EXCEPT !["batch"] = Plus(@, i), !["file"] = Plus(@, i)]
          /\ result' = Append(result, [item |-> i, date |-> batch, front |-> NoValue, back |-> NoValue,
                                       line |-> Len(lines) + 1])
          /\ UNCHANGED <<batch, current, images, verdict>>
  /\ UNCHANGED format

BatchControl(d) ==
  /\ Control("nacha", "batch", d)
  /\ IF Shown(sums["batch"]) # d THEN RejectFile
     ELSE batch' = NoValue /\ UNCHANGED <<sums, current, images, result, verdict>>

NachaFileControl(d) ==
  /\ Control("nacha", "file", d)
  /\ IF Shown(sums["file"]) # d THEN RejectFile ELSE UNCHANGED <<batch, sums, current, images, result, verdict>>

\* A file need not have control records, but it must have an entry.
NachaEnd ==
  /\ verdict = "reading" /\ format = "nacha"
  /\ verdict' = IF result = <<>> THEN "rejected" ELSE "accepted"
  /\ UNCHANGED <<format, lines, batch, sums, current, images, result>>

-----------------------------------------------------------------------------
(* X9.37.                                                                  *)

Image(k) == IF Len(images) >= k THEN images[k] ELSE NoValue

\* The check whose images were being collected is complete.  It is dated by the
\* cash letter header read last.
Flushed ==
  IF current = NoValue THEN result
  ELSE Append(result, [item |-> lines[current].item, date |-> batch,
                       front |-> Image(1), back |-> Image(2), line |-> current])

CheckDetail(i) ==
  /\ Reading("x937")
  /\ Line([kind |-> "item", item |-> i])
  /\ result' = Flushed
  /\ current' = Len(lines) + 1
  /\ images' = <<>>
  /\ sums' = [l \in Levels |-> Plus(sums[l], i)]
  /\ UNCHANGED <<format, batch, verdict>>

ImageViewData(i) ==
  /\ Reading("x937")
  /\ Line([kind |-> "image", image |-> i])
  /\ images' = Append(images, i)
  /\ UNCHANGED <<format, batch, sums, current, result, verdict>>

CashLetterHeader(d) ==
  /\ Reading("x937")
  /\ Line([kind |-> "letterHeader", date |-> d])
  /\ batch' = d
  /\ sums' = [sums EXCEPT !["letter"] = Zero]
  /\ UNCHANGED <<format, current, images, result, verdict>>

BundleHeader ==
  /\ Reading("x937")
  /\ Line([kind |-> "header"])
  /\ sums' = [sums EXCEPT !["batch"] = Zero]
  /\ UNCHANGED <<format, batch, current, images, result, verdict>>

\* Bundle, cash letter and file control.
X937Control(level, d) ==
  /\ Control("x937", level, d)
  /\ IF Shown(sums[level]) # d THEN RejectFile ELSE UNCHANGED <<batch, sums, current, images, result, verdict>>

\* A record that is cut short, of an unknown type or not a number where one
\* belongs: there is no way to find the next one.
Unreadable ==
  /\ Len(lines) < MaxLines /\ verdict = "reading"
  /\ Line([kind |-> "unreadable"])
  /\ RejectFile
  /\ UNCHANGED format

\* A mutant: the last check is not handed on.
X937End_NoFlush ==
  /\ verdict = "reading" /\ format = "x937"
  /\ verdict' = "accepted"
  /\ UNCHANGED <<format, lines, batch, sums, current, images, result>>

X937End ==
  /\ verdict = "reading" /\ format = "x937"
  /\ result' = Flushed
  /\ verdict' = "accepted"
  /\ UNCHANGED <<format, lines, batch, sums, current, images>>

-----------------------------------------------------------------------------
FileNext ==
  \/ \E d \in Dates : BatchHeader(d) \/ CashLetterHeader(d)
  \/ \E i \in Items : EntryDetail(i) \/ CheckDetail(i)
  \/ \E d \in Declared : BatchControl(d) \/ NachaFileControl(d) \/ \E l \in Levels : X937Control(l, d)
  \/ BundleHeader \/ Unreadable
  \/ \E i \in Images : ImageViewData(i)
  \/ NachaEnd \/ X937End

FileSpec == FileInit /\ [][FileNext]_fileVars

-----------------------------------------------------------------------------
(* Properties.  Each says what a file that was accepted holds, from its     *)
(* records alone.                                                           *)

Accepted(f) == verdict = "accepted" /\ format = f

\* The last of the records of a file before k of one of the kinds, 0 without one.
LastBefore(file, k, kinds) == Max({0} \cup {j \in 1..(k - 1) : file[j].kind \in kinds})

LinesOf(file, kind, from, to) == {k \in from..to : file[k].kind = kind}

\* What the items of those lines come to.
Sum(file, S) ==
  LET Of(code) == SumFunction([k \in S |-> IF file[k].item.code = code THEN file[k].item.amount ELSE 0])
  IN  [items |-> Cardinality(S), hash |-> SumFunction([k \in S |-> file[k].item.dfi]),
       debit |-> Of("debit"), credit |-> Of("credit")]

\* Header of the level a control record closes.
Opening == [batch |-> {"header"}, letter |-> {"letterHeader"}, file |-> {}]

\* Every control record of an accepted file declares just what stands between it
\* and the header of its level: no cut, doubled or reordered stretch of a file
\* is loaded under controls that contradict it.
ControlsAgree ==
  verdict = "accepted" =>
    \A k \in 1..Len(lines) :
      lines[k].kind \in Levels =>
        LET header == LastBefore(lines, k, Opening[lines[k].kind])
        IN  lines[k].totals = Shown(Sum(lines, LinesOf(lines, "item", header + 1, k)))

\* Every entry belongs to the batch that encloses it, whose date it takes: its
\* header came before it and no batch control in between.
EntriesEnclosed ==
  Accepted("nacha") =>
    \A n \in 1..Len(result) :
      LET header == LastBefore(lines, result[n].line, {"header"}) IN
      /\ header > LastBefore(lines, result[n].line, {"batch"})
      /\ result[n].date = lines[header].date

\* Types, and what the control and header records of a file say of its entries.
RecordsAgree == FileTypeOK /\ ControlsAgree /\ EntriesEnclosed

\* Nothing is lost or doubled: the file's items are handed on each once, in order.
EveryItemOnce ==
  verdict = "accepted" =>
    /\ {result[n].line : n \in 1..Len(result)} = LinesOf(lines, "item", 1, Len(lines))
    /\ \A m, n \in 1..Len(result) : m < n => result[m].line < result[n].line
    /\ \A n \in 1..Len(result) : result[n].item = lines[result[n].line].item

\* x is the image of the k-th record of those lines, NoValue if there are fewer.
IsImage(file, x, k, S) ==
  \/ \E j \in S : Cardinality({i \in S : i <= j}) = k /\ x = file[j].image
  \/ Cardinality(S) < k /\ x = NoValue

\* A check has the images that follow it and precede the next check, the first
\* as its front and the second as its back.
ImagesAreTheChecks ==
  Accepted("x937") =>
    \A n \in 1..Len(result) :
      LET next == IF n = Len(result) THEN Len(lines) + 1 ELSE result[n + 1].line
          own == LinesOf(lines, "image", result[n].line, next - 1)
      IN  IsImage(lines, result[n].front, 1, own) /\ IsImage(lines, result[n].back, 2, own)

\* What is handed on are the file's items with their own images.
ItemsAreTheFiles == EveryItemOnce /\ ImagesAreTheChecks
=============================================================================
