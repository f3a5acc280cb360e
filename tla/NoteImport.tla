----------------------------- MODULE NoteImport -----------------------------
(***************************************************************************)
(* Entering broker notes.  An upload is several files, each imported by an *)
(* importEntriesOnly of its own: an index of the book is built once, then  *)
(* every line is looked up, first in the book by its own reference, then   *)
(* in the index by reference, note number, cash on its day and print of    *)
(* the operation.  A known line is skipped, but the cash it expects is     *)
(* made up for.  Nothing is locked, and an import may stop anywhere and be *)
(* sent again.  Headers and links are in InvestOperations; here all lines  *)
(* of notes defer their cash (skip_financial_ledger).                      *)
(***************************************************************************)
EXTENDS Naturals, FiniteSetsExt, SequencesExt

CONSTANTS
  Line,          (* reference of a line -> [trade, note, print, net, row,   *)
                 (* fee]: the fact it tells of, the number of its note, its *)
                 (* fingerprint, the date and cash it is looked up by, those*)
                 (* its cash row is found under, whether it is a fee        *)
  Old,           (* lines of the history importPortfolio may have entered   *)
  Uploads,       (* what may be sent: [files, month], files of lines        *)
  Agents,        (* requests that import                                    *)
  MaxUploads,    (* bound: uploads begun                                    *)
  MaxStops       (* bound: exceptions and restarts                          *)

Lines == DOMAIN Line
Trades == {Line[l].trade : l \in Lines}

ASSUME OldAssumption == Old \subseteq Lines
\* The history tells of a trade once.
ASSUME HistoryAssumption == \A k, l \in Old : Line[k].trade = Line[l].trade => k = l
\* A print is made of facts of the trade: day, paper, operation, quantity and
\* price.  Lines of one fee come from one note.
ASSUME TradeAssumption ==
  \A k, l \in Lines : Line[k].trade = Line[l].trade =>
    /\ Line[k].print = Line[l].print /\ Line[k].fee = Line[l].fee
    /\ Line[k].fee => Line[k].note = Line[l].note
\* The pending row of a line of a note has the day and the signed cash the line
\* is looked up by (applyFeesToLine, importLineExpectedCashNet).
ASSUME RowAssumption == \A l \in Lines \ Old : Line[l].row = Line[l].net
ASSUME UploadAssumption ==
  \A u \in Uploads : u.month \in BOOLEAN /\ u.files \in Seq(Seq(Lines \ Old)) \ {<<>>}
ASSUME BoundAssumption == MaxUploads \in Nat /\ MaxStops \in Nat

VARIABLES
  custody,       (* custody rows per line                                   *)
  expected,      (* pending rows per line, BROKER_REF:{ref}:PENDING         *)
  cash,          (* lines with a cleared row, BROKER_REF:{ref}:CASH         *)
  job,           (* per agent: where its upload is; read: the index as it   *)
                 (* was built, for the properties                           *)
  finished,      (* lines of files whose import came to its end             *)
  alone,         (* no two uploads have run at one time                     *)
  uploads, stops

book == <<custody, expected, cash>>
bounds == <<uploads, stops>>
vars == <<custody, expected, cash, job, finished, alone, uploads, stops>>

Idle == [at |-> "idle"]
NoIndex == [refs |-> {}, notes |-> {}, nets |-> {}, prints |-> {}]

Init ==
  /\ cash \in SUBSET Old
  /\ custody = [l \in Lines |-> IF l \in cash THEN 1 ELSE 0]
  /\ expected = [l \in Lines |-> 0]
  /\ job = [a \in Agents |-> Idle]
  /\ finished = {} /\ alone = TRUE /\ uploads = 0 /\ stops = 0

Booked == {l \in Lines : custody[l] > 0}
Paid == {l \in Lines : expected[l] > 0 \/ l \in cash}

At(a, point) == job[a].at = point
Go(a, point) == job' = [job EXCEPT ![a].at = point]
File(a) == Head(job[a].files)

\* applyBtgBrokerageUpload begins with its first file.
StartUpload(a, u) ==
  /\ At(a, "idle") /\ uploads < MaxUploads
  /\ job' = [job EXCEPT ![a] = [at |-> "readCustody", files |-> u.files, rest |-> Head(u.files),
                                 index |-> NoIndex, read |-> NoIndex,
                                 later |-> IF u.month THEN FlattenSeq(u.files) ELSE <<>>]]
  /\ alone' = (alone /\ \A b \in Agents : At(b, "idle"))
  /\ uploads' = uploads + 1
  /\ UNCHANGED <<book, finished, stops>>

\* buildLedgerDedupIndex over listLedgerEvents, which reads the custody rows
\* and then the cash rows, pending ones too.  The custody row of a fee is a
\* cost_adjustment and has a print no line has.
CustodyIndex ==
  [refs |-> Booked, notes |-> {Line[l].note : l \in Booked}, nets |-> {},
   prints |-> {Line[l].print : l \in {b \in Booked : ~Line[b].fee}}]
CashIndex == {Line[l].row : l \in Paid}

ReadCustody(a) ==
  /\ At(a, "readCustody")
  /\ job' = [job EXCEPT ![a] = [@ EXCEPT !.at = "readCash", !.index = CustodyIndex]]
  /\ UNCHANGED <<book, finished, alone, bounds>>

ReadCash(a) ==
  /\ At(a, "readCash")
  /\ LET index == [job[a].index EXCEPT !.nets = CashIndex]
     IN  job' = [job EXCEPT ![a] = [@ EXCEPT !.at = "look", !.index = index, !.read = index]]
  /\ UNCHANGED <<book, finished, alone, bounds>>

\* hasExistingByRef: the line's own rows, a pending one not among them.
Known(l) == l \in Booked \/ l \in cash

\* Mutation: another reference is another operation.
X_Duplicate(index, l) == l \in index.refs

\* lookupDuplicate
Duplicate(index, l) ==
  \/ l \in index.refs
  \/ Line[l].note \in index.notes
  \/ Line[l].net \in index.nets
  \/ Line[l].print \in index.prints

\* Mutation: the note number is registered with the line.
X_Registered(index, l) ==
  [index EXCEPT !.refs = @ \cup {l}, !.prints = @ \cup {Line[l].print},
                !.notes = @ \cup {Line[l].note}]

\* registerLineInDedupIndex: neither the note number nor the cash, so that
\* the other lines of a note pass.
Registered(index, l) ==
  [index EXCEPT !.refs = @ \cup {l}, !.prints = @ \cup {Line[l].print}]

\* Mutation: a skipped line is done with.
X_Look(a) ==
  LET l == Head(job[a].rest) IN
  /\ At(a, "look") /\ job[a].rest # <<>>
  /\ IF Known(l) \/ Duplicate(job[a].index, l)
     THEN job' = [job EXCEPT ![a].rest = Tail(@)]
     ELSE Go(a, "book")
  /\ UNCHANGED <<book, finished, alone, bounds>>

\* The top of recordOperation; a line of a note is skipped or booked.
Look(a) ==
  LET l == Head(job[a].rest) IN
  /\ At(a, "look") /\ job[a].rest # <<>>
  /\ Go(a, IF Known(l) \/ Duplicate(job[a].index, l) THEN "check" ELSE "book")
  /\ UNCHANGED <<book, finished, alone, bounds>>

Book(a) ==
  /\ At(a, "book")
  /\ custody' = [custody EXCEPT ![Head(job[a].rest)] = @ + 1]
  /\ Go(a, "expect")
  /\ UNCHANGED <<expected, cash, finished, alone, bounds>>

\* The pending row of a line just booked; recordOperation returns and the
\* line is registered.
Expect(a) ==
  LET l == Head(job[a].rest) IN
  /\ At(a, "expect")
  /\ expected' = [expected EXCEPT ![l] = @ + 1]
  /\ job' = [job EXCEPT ![a] = [@ EXCEPT !.at = "look", !.rest = Tail(job[a].rest),
                                 !.index = Registered(job[a].index, l)]]
  /\ UNCHANGED <<custody, cash, finished, alone, bounds>>

\* After a known line the import goes on; after a line of the backfill, the
\* backfill does.
Onward(a) ==
  job' = [job EXCEPT ![a] = [@ EXCEPT !.rest = Tail(job[a].rest),
                              !.at = IF job[a].files = <<>> THEN "backfill" ELSE "look"]]

\* Mutation: the leg is made up for without a look at the book.
X_CheckExpected(a) == At(a, "check") /\ Go(a, "fill") /\ UNCHANGED <<book, finished, alone, bounds>>

\* ensurePendingFinancialLegForImportLine looks for the line's pending row
\* and makes up for a missing one.
CheckExpected(a) ==
  /\ At(a, "check")
  /\ IF expected[Head(job[a].rest)] > 0 THEN Onward(a) ELSE Go(a, "fill")
  /\ UNCHANGED <<book, finished, alone, bounds>>

Fill(a) ==
  /\ At(a, "fill")
  /\ expected' = [expected EXCEPT ![Head(job[a].rest)] = @ + 1]
  /\ Onward(a)
  /\ UNCHANGED <<custody, cash, finished, alone, bounds>>

\* The next file, or the backfill of the whole month.
NextFile(a) ==
  LET files == Tail(job[a].files) IN
  job' = [job EXCEPT ![a] =
            IF files # <<>> THEN [@ EXCEPT !.at = "readCustody", !.files = files,
                                           !.rest = Head(files), !.index = NoIndex,
                                           !.read = NoIndex]
            ELSE [@ EXCEPT !.at = "backfill", !.files = <<>>, !.rest = job[a].later,
                           !.index = NoIndex, !.read = NoIndex]]

EndOfFile(a) ==
  /\ At(a, "look") /\ job[a].rest = <<>>
  /\ finished' = finished \cup ToSet(File(a))
  /\ NextFile(a)
  /\ UNCHANGED <<book, alone, bounds>>

\* An exception ends its file, and applyBtgBrokerageUpload goes on with the
\* next; in the backfill it ends the request.
Throw(a) ==
  /\ ~At(a, "idle") /\ stops < MaxStops
  /\ IF job[a].files # <<>> THEN NextFile(a) ELSE job' = [job EXCEPT ![a] = Idle]
  /\ stops' = stops + 1
  /\ UNCHANGED <<book, finished, alone, uploads>>

\* backfillPendingFinancialForImportLines
Backfill(a) ==
  /\ At(a, "backfill")
  /\ IF job[a].rest = <<>> THEN job' = [job EXCEPT ![a] = Idle] ELSE Go(a, "check")
  /\ UNCHANGED <<book, finished, alone, bounds>>

\* The process restarts.
Restart ==
  /\ stops < MaxStops /\ \E a \in Agents : ~At(a, "idle")
  /\ job' = [a \in Agents |-> Idle] /\ stops' = stops + 1
  /\ UNCHANGED <<book, finished, alone, uploads>>

Step(a) ==
  \/ ReadCustody(a) \/ ReadCash(a) \/ Look(a) \/ Book(a) \/ Expect(a)
  \/ CheckExpected(a) \/ Fill(a) \/ EndOfFile(a) \/ Backfill(a)

Next ==
  \/ \E a \in Agents : \/ \E u \in Uploads : StartUpload(a, u)
                       \/ Step(a) \/ Throw(a)
  \/ Restart

Spec == Init /\ [][Next]_vars

-----------------------------------------------------------------------------
TypeOK ==
  /\ custody \in [Lines -> Nat] /\ expected \in [Lines -> Nat] /\ cash \subseteq Old
  /\ \A a \in Agents :
       job[a].at \in {"check", "fill", "book", "expect"} => job[a].rest # <<>>
  /\ finished \subseteq Lines \ Old

Entered(t) == \E l \in Booked : Line[l].trade = t

(* Sent again after a timeout, cut off and sent again, told of by two files *)
(* under two references, or known from the history: with one upload at a    *)
(* time a trade has one custody row (hasExistingByRef, lookupDuplicate).    *)
TradeBookedOnce ==
  alone => \A k, l \in Booked : Line[k].trade = Line[l].trade => k = l /\ custody[k] = 1

(* With one upload at a time a line's cash is expected once, whichever of   *)
(* recordOperation, the skip of a known line and the backfill comes to it.  *)
CashExpectedOnce == alone => \A l \in Lines : expected[l] <= 1

(* However uploads overlap and stop: when the import of a file came to its  *)
(* end, each of its lines has a pending row, skipped lines too, and a stop  *)
(* between custody and cash is made up for by whoever sends the file again. *)
FinishedIsExpected == \A l \in finished : expected[l] > 0

(* A line is in the book, or the index as it was built knew its note or its *)
(* cash, or another line of its print is booked.                            *)
AccountedFor(a, l) ==
  \/ custody[l] > 0
  \/ Line[l].note \in job[a].read.notes \/ Line[l].net \in job[a].read.nets
  \/ \E k \in Booked \ {l} : Line[k].print = Line[l].print

(* A file that ran to its end has booked each line of a note that was not   *)
(* in the book when the file began, unless another line had the cash or the *)
(* print of it: lines of one note do not shut each other out, however       *)
(* uploads overlap (registerLineInDedupIndex).                              *)
NewNoteIsBooked ==
  \A a \in Agents : At(a, "look") /\ job[a].rest = <<>> =>
    \A l \in ToSet(File(a)) : AccountedFor(a, l)

-----------------------------------------------------------------------------
(***************************************************************************)
(* What the code does not keep.                                            *)
(***************************************************************************)

Done == \A a \in Agents : At(a, "idle")
Twins(l) == {k \in Lines \ {l} : Line[k].row = Line[l].net \/ Line[k].print = Line[l].print}

(* "sem repetir broker_note_ref já existentes" (LedgerImportService.ts:340):*)
(* a line that is not in the book is entered.  A note cut off after its     *)
(* first line has its number in the index, so its other lines are skipped   *)
(* for good, while the cash they bring is expected.                         *)
CutOffNoteIsCompleted ==
  Done /\ cash = {} => \A l \in finished : Twins(l) = {} => Entered(Line[l].trade)

(* Another trade of the day with the same cash, or with the same quantity   *)
(* and price, is another trade.  The index takes it for the one it knows.   *)
EachTradeIsBooked ==
  Done /\ stops = 0 /\ cash = {} => \A l \in finished : Entered(Line[l].trade)

(* "para evitar duplicar custódia/caixa" (ledgerOperationDedup.ts:117): the *)
(* cash of a trade counts once.  A trade of the history has been paid; the  *)
(* note that tells of it again is skipped and its cash expected all the     *)
(* same.                                                                    *)
TradePaidOnce ==
  \A t \in Trades : \A k, l \in Paid : Line[k].trade = t /\ Line[l].trade = t => k = l
=============================================================================
