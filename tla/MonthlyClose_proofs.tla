------------------------- MODULE MonthlyClose_proofs -------------------------
(***************************************************************************)
(* For any number of months, clients and faults: the monthly close goes    *)
(* through its months in order while one caller at a time is inside the    *)
(* run, and what a finished run has written, drawn and reported.           *)
(***************************************************************************)
EXTENDS MonthlyClose, TLAPS

States == [phase : {"notes", "extracts", "done"}, index : Nat,
           status : {"idle", "running", "done", "error"},
           mode : {"strict", "homologation"}, horizon : Nat]

Runs == [phase : {"run"}, state : States, plan : BOOLEAN, synced : BOOLEAN,
         book : SUBSET Months, kept : SUBSET Months, skipped : SUBSET Months]

Types ==
  /\ run \in Runs \cup {NoRun}
  /\ row \in States \cup {NoSave} /\ late \in States \cup {NoSave}
  /\ call \in [Callers -> [at : Points, month : 0..Last, base : SUBSET Months]]
  /\ loop \in [kind : {"none", "request", "detached"}, turns : Nat]
  /\ imports \in [Months -> 0..2]
  /\ drawn \subseteq Months /\ alone \in BOOLEAN
  /\ faults \in Nat /\ restarts \in Nat

MonthPoints == {"quotes", "custody", "import", "fold", "draw", "drawing"}
FinalPoints == {"final_quotes", "final_draw", "final_drawing", "report"}

(* Calls and the loop are of a run that lives, calls of a month are of one *)
(* of the calendar.                                                        *)
InPlace ==
  /\ ~Live => loop = Off /\ \A c \in Callers : ~Inside(c)
  /\ \A c \in Callers : call[c].at \in MonthPoints => call[c].month \in Months

(* The phase says whether months are left.                                 *)
Coherent(s) == s.index <= Last /\ (s.phase = "notes" <=> s.index < Last)

Exclusive == \A c, d \in Callers : Inside(c) /\ Inside(d) => c = d

StatesCohere ==
  /\ Live => Coherent(run.state)
  /\ row # NoSave => Coherent(row)
  /\ late # NoSave => Coherent(late) /\ late.phase = "notes"

(* Where a call is tells where the run is: nobody else moves it.           *)
PositionOf(c) ==
  /\ call[c].at \in MonthPoints =>
       run.plan /\ run.state.phase = "notes" /\ call[c].month = run.state.index + 1
  /\ call[c].at \in {"fold", "draw", "drawing"} => call[c].month \in run.kept
  /\ call[c].at \in FinalPoints => run.state.phase = "extracts"
  /\ call[c].at = "final_save" => run.state.phase = "done"

(* The months behind the position are decided, kept months are written and *)
(* in the simulated book.                                                  *)
BookOf(c) ==
  /\ call[c].at = "fold" => call[c].base = run.book
  /\ call[c].at = "draw" => \A m \in run.book : m <= call[c].month

MonthsDecided ==
  Live /\ run.plan =>
    /\ \A m \in run.kept : m <= run.state.index + 1 /\ imports[m] > 0
    /\ \A m \in Months : m <= run.state.index => m \in run.kept \cup run.skipped
    /\ \A m \in run.kept : \/ m \in run.book
                           \/ \E c \in Callers : At(c, "fold") /\ m = call[c].month

DaysDrawn ==
  /\ (\E c \in Callers : At(c, "report")) \/ (Live /\ run.state.phase = "done") => drawn = Months
  /\ row.phase = "done" => drawn = Months /\ (Live => run.state.phase = "done")

WhileAlone ==
  /\ Exclusive /\ StatesCohere /\ MonthsDecided /\ DaysDrawn
  /\ \A c \in Callers : PositionOf(c) /\ BookOf(c)

(* In the process that started it a run has its plan, the loop has taken   *)
(* no more turns than months are behind, and what was saved as done is.    *)
TurnsCount ==
  /\ Live /\ run.state.status = "running" => loop.kind = "detached"
  /\ Live /\ loop.kind # "none" =>
       IF Inside(Loop) THEN loop.turns <= run.state.index + 1
                       ELSE loop.turns <= run.state.index \/ run.state.phase = "done"

SavedIsWritten ==
  /\ \A c \in Callers : At(c, "final_save") => run.state.status = "error" \/ run.skipped = {}
  /\ row.phase = "done" /\ row.status = "done" => \A m \in Months : imports[m] > 0

InOneProcess ==
  /\ ~Live => row = NoSave /\ late = NoSave
  /\ Live => run.plan
  /\ TurnsCount /\ SavedIsWritten

IInv == Types /\ InPlace /\ (alone => WhileAlone) /\ (Orderly => InOneProcess)
-----------------------------------------------------------------------------
Calls == [at : Points, month : 0..Last, base : SUBSET Months]

(* A call that is inside a run nobody else is inside of.                    *)
LEMMA NobodyElse ==
  ASSUME IInv, alone, NEW c \in Callers, Inside(c), NEW d \in Callers \ {c}
  PROVE  call[d].at \in {"idle", "refused"}
BY DEF IInv, WhileAlone, Exclusive, Inside

LEMMA InsideRun ==
  ASSUME IInv, NEW c \in Callers, Inside(c)
  PROVE  Live /\ run \in Runs
BY DEF IInv, InPlace, Live, Types

(* A step of a call that is inside leaves the others where they were: what  *)
(* is to be shown is about this call and the run.                           *)
LEMMA InsideStep ==
  ASSUME IInv, NEW c \in Callers, Inside(c), alone' = alone, restarts' = restarts,
         NEW k \in Calls, call' = [call EXCEPT ![c] = k], k.at \in MonthPoints => k.month \in Months,
         Types', run' \in Runs,
         alone => PositionOf(c)' /\ BookOf(c)' /\ StatesCohere' /\ MonthsDecided' /\ DaysDrawn',
         Orderly => TurnsCount' /\ SavedIsWritten' /\ run'.plan
  PROVE  IInv'
<1>1. call' \in [Callers -> Calls] /\ call'[c] = k /\ \A d \in Callers \ {c} : call'[d] = call[d]
  BY DEF IInv, Types, Calls
<1>2. Live'
  BY DEF Live, Runs, NoRun
<1>3. InPlace'
  BY <1>1, <1>2 DEF IInv, InPlace, Live
<1>4. ASSUME alone' PROVE WhileAlone'
  <2>1. \A d \in Callers \ {c} : call'[d].at \in {"idle", "refused"}
    BY <1>1, <1>4, NobodyElse
  <2>2. Exclusive'
    BY <2>1 DEF Exclusive, Inside
  <2>3. \A d \in Callers \ {c} : PositionOf(d)' /\ BookOf(d)'
    BY <2>1 DEF PositionOf, BookOf, MonthPoints, FinalPoints
  <2> QED
    BY <1>4, <2>2, <2>3 DEF WhileAlone
<1>5. ASSUME Orderly' PROVE InOneProcess'
  BY <1>2, <1>5 DEF Orderly, InOneProcess
<1> QED
  BY <1>3, <1>4, <1>5 DEF IInv

LEMMA QuietCall == Quiet \in Calls
BY MonthsAssumption DEF Quiet, Calls, Points

(* What run-all in the background writes over a state is its status.        *)
LEMMA OverwrittenState ==
  ASSUME NEW s \in States, NEW answer, NEW q, q = Overwritten(s, answer)
  PROVE  /\ q \in States /\ q.index = s.index /\ q.phase = s.phase /\ q.mode = s.mode
         /\ q.status = "running" => s.phase # "done" /\ ~(answer = "blocked" /\ s.mode = "strict")
BY DEF States, Overwritten

(* What an answer changes of the run is its status, and only for the loop. *)
LEMMA AnswerOf ==
  ASSUME Types, NEW c \in Callers, NEW r \in Runs, NEW answer, Return(c, r, answer)
  PROVE  /\ run' \in Runs /\ run'.plan = r.plan /\ run'.book = r.book
         /\ run'.kept = r.kept /\ run'.skipped = r.skipped
         /\ run'.state.index = r.state.index /\ run'.state.phase = r.state.phase
         /\ loop' \in [kind : {"none", "request", "detached"}, turns : Nat]
<1>1. loop' \in [kind : {"none", "request", "detached"}, turns : Nat]
  BY DEF Return, Types, Off
<1>2. CASE c = Loop /\ loop.kind = "detached"
  <2>1. r.state \in States
    BY DEF Runs
  <2>2. PICK q : q = Overwritten(r.state, answer)
    OBVIOUS
  <2>3. /\ run' = [r EXCEPT !.state = q]
        /\ q \in States /\ q.index = r.state.index /\ q.phase = r.state.phase
    BY <1>2, <2>1, <2>2, OverwrittenState DEF Return
  <2> QED
    BY <1>1, <2>3 DEF Runs
<1>3. CASE ~(c = Loop /\ loop.kind = "detached")
  BY <1>1, <1>3 DEF Return
<1> QED
  BY <1>2, <1>3

(* A move within closeNextDay keeps the month and the book it began with.  *)
LEMMA MoveStep ==
  ASSUME IInv, NEW c \in Callers, Inside(c), alone' = alone, restarts' = restarts,
         NEW p \in Points, Move(c, p), p \in MonthPoints => call[c].at \in MonthPoints,
         Types', run' \in Runs,
         alone => PositionOf(c)' /\ BookOf(c)' /\ StatesCohere' /\ MonthsDecided' /\ DaysDrawn',
         Orderly => TurnsCount' /\ SavedIsWritten' /\ run'.plan
  PROVE  IInv'
<1> DEFINE k == [at |-> p, month |-> call[c].month, base |-> call[c].base]
<1>0. call[c] \in Calls
  BY DEF IInv, Types, Calls
<1>1. k = [call[c] EXCEPT !.at = p] /\ k \in Calls /\ k.at = p /\ k.month = call[c].month
  BY <1>0 DEF Calls
<1>3. call' = [call EXCEPT ![c] = k]
  BY <1>1 DEF Move
<1>2. k.at \in MonthPoints => k.month \in Months
  BY <1>1 DEF IInv, InPlace
<1> HIDE DEF k
<1> QED
  BY <1>1, <1>2, <1>3, InsideStep

(* Leaving closeNextDay, with an answer or by an exception.                 *)
LEMMA LeaveStep ==
  ASSUME IInv, NEW c \in Callers, Inside(c), alone' = alone, restarts' = restarts,
         call' = [call EXCEPT ![c] = Quiet], Types', run' \in Runs,
         alone => StatesCohere' /\ MonthsDecided' /\ DaysDrawn',
         Orderly => TurnsCount' /\ SavedIsWritten' /\ run'.plan
  PROVE  IInv'
<1>1. Quiet.at \notin MonthPoints
  BY DEF Quiet, MonthPoints
<1>2. call'[c].at = "idle"
  BY DEF IInv, Types, Quiet
<1>3. PositionOf(c)' /\ BookOf(c)'
  BY <1>2 DEF PositionOf, BookOf, MonthPoints, FinalPoints
<1> QED
  BY <1>1, <1>3, QuietCall, InsideStep

LEMMA ReconcileCustodyIInv ==
  ASSUME IInv, NEW c \in Callers, ReconcileCustody(c)
  PROVE  IInv'
<1> USE DEF ReconcileCustody, At, Move, database, bounds
<1>1. Inside(c) /\ run' \in Runs
  BY InsideRun DEF Inside
<1>2. Types'
  BY DEF IInv, Types, Points
<1>3. ASSUME alone
      PROVE  PositionOf(c)' /\ BookOf(c)' /\ StatesCohere' /\ MonthsDecided' /\ DaysDrawn'
  BY <1>3, NobodyElse, <1>1 DEF IInv, Types, Points, WhileAlone, PositionOf, BookOf, StatesCohere, MonthsDecided, DaysDrawn,
     Coherent, MonthPoints, FinalPoints, Live
<1>4. ASSUME Orderly PROVE TurnsCount' /\ SavedIsWritten' /\ run'.plan
  BY <1>1, <1>4, InsideRun DEF IInv, InOneProcess, Orderly, TurnsCount, SavedIsWritten, Types, Inside, Live
<1> QED
  BY <1>1, <1>2, <1>3, <1>4, MoveStep DEF Points, MonthPoints

LEMMA MovedCall ==
  ASSUME Types, NEW c \in Callers, NEW p \in Points, Move(c, p)
  PROVE  /\ call'[c].at = p /\ call'[c].month = call[c].month /\ call'[c].base = call[c].base
         /\ call' \in [Callers -> [at : Points, month : 0..Last, base : SUBSET Months]]
BY DEF Types, Move

(* A move that saves the run and changes nothing in it that counts.         *)
LEMMA SavingStep ==
  ASSUME IInv, NEW c \in Callers, Inside(c), call[c].at \notin {"fold", "final_save"},
         NEW p \in Points \ {"idle", "refused", "fold", "final_save"}, Move(c, p),
         p \in MonthPoints => call[c].at \in MonthPoints,
         Save(run.state), UNCHANGED <<late, loop, imports, alone, restarts>>,
         run' \in Runs, run'.state = run.state, run'.plan = run.plan,
         run'.book = run.book, run'.kept = run.kept, run'.skipped = run.skipped,
         drawn' \subseteq Months,
         alone => PositionOf(c)' /\ BookOf(c)' /\ DaysDrawn'
  PROVE  IInv'
<1>1. Live /\ Live' /\ run \in Runs
  BY InsideRun DEF Live, Runs, NoRun
<1>2. row' \in {row, run.state}
  BY DEF Save
<1>3. /\ call'[c].at = p /\ call'[c].month = call[c].month
      /\ call' \in [Callers -> [at : Points, month : 0..Last, base : SUBSET Months]]
  BY MovedCall DEF IInv
<1>4. \A d \in Callers \ {c} : call'[d] = call[d]
  BY DEF IInv, Types, Move
<1>5. Types'
  <2>1. faults' \in Nat
    BY DEF Save, IInv, Types
  <2>2. row' \in States \cup {NoSave}
    BY <1>1, <1>2 DEF IInv, Types, Runs
  <2> QED
    BY <1>3, <2>1, <2>2 DEF IInv, Types
<1>6. ASSUME alone PROVE StatesCohere' /\ MonthsDecided'
  <2>1. StatesCohere'
    BY <1>1, <1>2, <1>6 DEF IInv, WhileAlone, StatesCohere
  <2>2. MonthsDecided'
    BY <1>1, <1>3, <1>4, <1>6 DEF IInv, WhileAlone, MonthsDecided, At
  <2> QED
    BY <2>1, <2>2
<1>7. ASSUME Orderly PROVE TurnsCount' /\ SavedIsWritten' /\ run'.plan
  <2>0. (Inside(Loop))' <=> Inside(Loop)
    BY <1>3, <1>4 DEF Callers, Inside
  <2>1. TurnsCount'
    BY <1>1, <1>7, <2>0 DEF IInv, InOneProcess, TurnsCount
  <2>2. run.state.phase # "done"
    BY <1>7 DEF IInv, Orderly, WhileAlone, PositionOf, MonthPoints, FinalPoints, Inside, Types, Points
  <2>3. SavedIsWritten'
    BY <1>2, <1>3, <1>4, <1>7, <2>2 DEF IInv, InOneProcess, SavedIsWritten, At
  <2> QED
    BY <1>1, <1>7, <2>1, <2>3 DEF IInv, InOneProcess
<1> QED
  BY <1>5, <1>6, <1>7, MoveStep

LEMMA SyncQuotesIInv ==
  ASSUME IInv, NEW c \in Callers, SyncQuotes(c)
  PROVE  IInv'
<1>1. Inside(c) /\ run \in Runs
  BY InsideRun DEF Inside, SyncQuotes, At
<1>2. /\ run' \in Runs /\ run'.state = run.state /\ run'.plan = run.plan
      /\ run'.book = run.book /\ run'.kept = run.kept /\ run'.skipped = run.skipped
  BY <1>1 DEF SyncQuotes, Runs
<1>3. PICK p \in {"custody", "final_draw"} :
        Move(c, p) /\ call[c].at = IF p = "custody" THEN "quotes" ELSE "final_quotes"
  BY DEF SyncQuotes, At
<1>4. call'[c].at = p /\ call'[c].month = call[c].month
  BY <1>3, MovedCall DEF IInv, Points
<1>5. ASSUME alone PROVE PositionOf(c)' /\ BookOf(c)'
  BY <1>2, <1>3, <1>4, <1>5 DEF IInv, WhileAlone, PositionOf, BookOf, MonthPoints, FinalPoints
<1>6. ASSUME alone PROVE DaysDrawn'
  <2>1. \A d \in Callers : call'[d].at = "report" => call[d].at = "report"
    BY <1>3, <1>4 DEF IInv, Types, Move
  <2>2. run.state.phase # "done" /\ Live
    BY <1>1, <1>3, <1>6, InsideRun DEF IInv, WhileAlone, PositionOf, MonthPoints, FinalPoints
  <2> QED
    BY <1>2, <1>6, <2>1, <2>2 DEF SyncQuotes, Save, IInv, WhileAlone, DaysDrawn, At
<1> QED
  BY <1>1, <1>2, <1>3, <1>5, <1>6, SavingStep
  DEF SyncQuotes, Points, MonthPoints, IInv, Types

LEMMA DrawMonthIInv ==
  ASSUME IInv, NEW c \in Callers, DrawMonth(c)
  PROVE  IInv'
<1>1. Inside(c) /\ run \in Runs
  BY InsideRun DEF Inside, DrawMonth, At
<1>2. call'[c].at = "drawing" /\ call'[c].month = call[c].month
  BY MovedCall DEF IInv, DrawMonth, Points
<1>3. drawn' \subseteq Months
  BY DEF DrawMonth, IInv, Types
<1>4. ASSUME alone PROVE PositionOf(c)' /\ BookOf(c)'
  BY <1>2, <1>4 DEF DrawMonth, At, IInv, WhileAlone, PositionOf, BookOf, MonthPoints, FinalPoints
<1>5. ASSUME alone PROVE DaysDrawn'
  <2>1. run.state.phase = "notes" /\ Live
    BY <1>1, <1>5, InsideRun DEF DrawMonth, At, IInv, WhileAlone, PositionOf, MonthPoints
  <2>2. \A d \in Callers : call'[d].at # "report"
    BY <1>1, <1>2, <1>5, NobodyElse DEF DrawMonth, Move, IInv, Types
  <2>3. row.phase # "done"
    BY <1>5, <2>1 DEF IInv, WhileAlone, DaysDrawn
  <2> QED
    BY <2>1, <2>2, <2>3 DEF DrawMonth, Save, DaysDrawn, At
<1> QED
  BY <1>1, <1>3, <1>4, <1>5, SavingStep DEF DrawMonth, At, Points, MonthPoints

LEMMA DrawAllIInv ==
  ASSUME IInv, NEW c \in Callers, DrawAll(c)
  PROVE  IInv'
<1>1. Inside(c) /\ run \in Runs
  BY InsideRun DEF Inside, DrawAll, At
<1>2. call'[c].at = "final_drawing"
  BY MovedCall DEF IInv, DrawAll, Points
<1>3. ASSUME alone PROVE PositionOf(c)' /\ BookOf(c)'
  BY <1>2, <1>3 DEF DrawAll, At, IInv, WhileAlone, PositionOf, BookOf, MonthPoints, FinalPoints
<1>4. ASSUME alone PROVE DaysDrawn'
  <2>1. run.state.phase = "extracts" /\ Live
    BY <1>1, <1>4, InsideRun DEF DrawAll, At, IInv, WhileAlone, PositionOf, FinalPoints
  <2>2. \A d \in Callers : call'[d].at # "report"
    BY <1>1, <1>2, <1>4, NobodyElse DEF DrawAll, Move, IInv, Types
  <2>3. row.phase # "done"
    BY <1>4, <2>1 DEF IInv, WhileAlone, DaysDrawn
  <2> QED
    BY <2>1, <2>2, <2>3 DEF DrawAll, Save, DaysDrawn, At
<1> QED
  BY <1>1, <1>3, <1>4, SavingStep DEF DrawAll, At, Points, MonthPoints

LEMMA FoldMonthIInv ==
  ASSUME IInv, NEW c \in Callers, FoldMonth(c)
  PROVE  IInv'
<1>1. Inside(c) /\ run \in Runs /\ Live
  BY InsideRun DEF Inside, FoldMonth, At
<1>2. call[c].month \in 0..Last /\ call[c].base \subseteq Months /\ call[c].month \in Months
  BY DEF FoldMonth, At, IInv, Types, InPlace, MonthPoints
<1>3. /\ run' \in Runs /\ run'.state = run.state /\ run'.plan = run.plan
      /\ run'.book = Folded(call[c].month, call[c].base)
      /\ run'.kept = run.kept /\ run'.skipped = run.skipped
  BY <1>1, <1>2 DEF FoldMonth, Runs, Folded
<1>4. /\ call'[c].at = "draw" /\ call'[c].month = call[c].month
      /\ call' \in [Callers -> [at : Points, month : 0..Last, base : SUBSET Months]]
      /\ \A d \in Callers \ {c} : call'[d] = call[d]
  BY MovedCall DEF IInv, FoldMonth, Points, Types, Move
<1>5. Types'
  BY <1>3, <1>4 DEF FoldMonth, IInv, Types, database, bounds
<1>6. ASSUME alone
      PROVE  PositionOf(c)' /\ BookOf(c)' /\ StatesCohere' /\ MonthsDecided' /\ DaysDrawn'
  <2>1. PositionOf(c)'
    BY <1>3, <1>4, <1>6 DEF FoldMonth, At, IInv, WhileAlone, PositionOf, MonthPoints, FinalPoints
  <2>2. BookOf(c)'
    BY <1>2, <1>3, <1>4 DEF BookOf, Folded, Months
  <2>3. StatesCohere'
    BY <1>1, <1>3, <1>6 DEF FoldMonth, database, IInv, WhileAlone, StatesCohere
  <2>4. MonthsDecided'
    <3>1. \A m \in run.kept : m \in run.book \/ m = call[c].month
      BY <1>1, <1>6, NobodyElse DEF IInv, WhileAlone, MonthsDecided, At, PositionOf, MonthPoints, FoldMonth
    <3>2. \A m \in run.kept : m \in Months /\ m <= call[c].month
      BY <1>1, <1>6 DEF IInv, WhileAlone, MonthsDecided, At, PositionOf, MonthPoints, FoldMonth, Runs
    <3>3. \A m \in run.kept : m \in run'.book
      BY <1>2, <1>3, <1>6, <3>1, <3>2 DEF IInv, WhileAlone, BookOf, FoldMonth, At, Folded, Months
    <3> QED
      BY <1>1, <1>3, <1>6, <3>3 DEF FoldMonth, database, IInv, WhileAlone, MonthsDecided
  <2>5. DaysDrawn'
    BY <1>1, <1>3, <1>4, <1>6 DEF FoldMonth, database, IInv, WhileAlone, DaysDrawn, At
  <2> QED
    BY <2>1, <2>2, <2>3, <2>4, <2>5
<1>7. ASSUME Orderly PROVE TurnsCount' /\ SavedIsWritten' /\ run'.plan
  <2>1. (Inside(Loop))' <=> Inside(Loop)
    BY <1>1, <1>4 DEF Callers, Inside
  <2>2. TurnsCount'
    BY <1>1, <1>3, <1>7, <2>1 DEF FoldMonth, IInv, InOneProcess, TurnsCount
  <2>3. SavedIsWritten'
    BY <1>3, <1>4, <1>7 DEF FoldMonth, database, IInv, InOneProcess, SavedIsWritten, At
  <2> QED
    BY <1>1, <1>3, <1>7, <2>2, <2>3 DEF IInv, InOneProcess
<1> QED
  BY <1>1, <1>3, <1>5, <1>6, <1>7, MoveStep DEF FoldMonth, At, Points, MonthPoints, bounds

LEMMA SaveProgressIInv ==
  ASSUME IInv, NEW c \in Callers, SaveProgress(c)
  PROVE  IInv'
<1>1. Inside(c) /\ run \in Runs /\ Live
  BY InsideRun DEF Inside, SaveProgress, At
<1>2. call[c] \in Calls /\ (call[c].at \in MonthPoints => call[c].month \in Months)
  BY DEF IInv, Types, InPlace, Calls
<1>3. call' = [call EXCEPT ![c] = call[c]]
  BY DEF SaveProgress, IInv, Types
<1>4. Types' /\ run' \in Runs
  BY <1>1 DEF SaveProgress, IInv, Types, bounds, Runs
<1>5. ASSUME alone
      PROVE  PositionOf(c)' /\ BookOf(c)' /\ StatesCohere' /\ MonthsDecided' /\ DaysDrawn'
  <2>1. run.state.phase = "notes"
    BY <1>5 DEF SaveProgress, At, IInv, WhileAlone, PositionOf, MonthPoints
  <2> QED
    BY <1>1, <1>5, <2>1 DEF SaveProgress, IInv, WhileAlone, PositionOf, BookOf, StatesCohere,
       MonthsDecided, DaysDrawn, At
<1>6. ASSUME Orderly PROVE TurnsCount' /\ SavedIsWritten' /\ run'.plan
  BY <1>1, <1>6 DEF SaveProgress, IInv, InOneProcess, TurnsCount, SavedIsWritten, At, Inside
<1> QED
  BY <1>1, <1>2, <1>3, <1>4, <1>5, <1>6, InsideStep DEF SaveProgress, bounds

LEMMA AllDrawnIInv ==
  ASSUME IInv, NEW c \in Callers, AllDrawn(c)
  PROVE  IInv'
<1>1. Inside(c) /\ run \in Runs /\ Live
  BY InsideRun DEF Inside, AllDrawn, At
<1>2. /\ run' \in Runs /\ run'.plan = run.plan
      /\ run'.state.index = run.state.index /\ run'.state.phase = run.state.phase
      /\ run'.state.status = run.state.status
      /\ run'.book = run.book /\ run'.kept = run.kept /\ run'.skipped = run.skipped
  BY <1>1, MonthsAssumption DEF AllDrawn, Runs, States
<1>3. /\ call'[c].at = "report" /\ call'[c].month = call[c].month
      /\ call' \in [Callers -> [at : Points, month : 0..Last, base : SUBSET Months]]
      /\ \A d \in Callers \ {c} : call'[d] = call[d]
  BY MovedCall DEF IInv, AllDrawn, Points, Types, Move
<1>4. Types'
  BY <1>2, <1>3 DEF AllDrawn, IInv, Types, bounds
<1>5. ASSUME alone
      PROVE  PositionOf(c)' /\ BookOf(c)' /\ StatesCohere' /\ MonthsDecided' /\ DaysDrawn'
  <2>1. run.state.phase = "extracts"
    BY <1>5 DEF AllDrawn, At, IInv, WhileAlone, PositionOf, FinalPoints
  <2>2. PositionOf(c)' /\ BookOf(c)'
    BY <1>2, <1>3, <2>1 DEF PositionOf, BookOf, MonthPoints, FinalPoints
  <2>3. StatesCohere'
    BY <1>1, <1>2, <1>5 DEF AllDrawn, IInv, WhileAlone, StatesCohere, Coherent
  <2>4. MonthsDecided'
    BY <1>1, <1>2, <1>3, <1>5 DEF AllDrawn, IInv, WhileAlone, MonthsDecided, At
  <2>5. DaysDrawn'
    BY <1>1, <1>2, <1>5, <2>1 DEF AllDrawn, IInv, WhileAlone, DaysDrawn
  <2> QED
    BY <2>2, <2>3, <2>4, <2>5
<1>6. ASSUME Orderly PROVE TurnsCount' /\ SavedIsWritten' /\ run'.plan
  <2>1. (Inside(Loop))' <=> Inside(Loop)
    BY <1>1, <1>3 DEF Callers, Inside
  <2>2. TurnsCount'
    BY <1>1, <1>2, <1>6, <2>1 DEF AllDrawn, IInv, InOneProcess, TurnsCount
  <2>3. SavedIsWritten'
    BY <1>2, <1>3, <1>6 DEF AllDrawn, IInv, InOneProcess, SavedIsWritten, At
  <2> QED
    BY <1>1, <1>2, <1>6, <2>2, <2>3 DEF IInv, InOneProcess
<1> QED
  BY <1>1, <1>2, <1>4, <1>5, <1>6, MoveStep DEF AllDrawn, At, Points, MonthPoints, bounds

LEMMA ReportIInv ==
  ASSUME IInv, NEW c \in Callers, Report(c)
  PROVE  IInv'
<1>1. Inside(c) /\ run \in Runs /\ Live
  BY InsideRun DEF Inside, Report, At
<1>0. call[c].at = "report" /\ UNCHANGED <<loop, row, late, imports, drawn, alone>>
  BY DEF Report, At, database
<1>2. /\ run' \in Runs /\ run'.plan = run.plan
      /\ run'.state.index = run.state.index /\ run'.state.phase = "done"
      /\ run'.state.status = IF run.skipped # {} THEN "error" ELSE "done"
      /\ run'.book = run.book /\ run'.kept = run.kept /\ run'.skipped = run.skipped
  BY <1>1 DEF Report, Runs, States
<1>3. /\ call'[c].at = "final_save" /\ call'[c].month = call[c].month
      /\ call' \in [Callers -> [at : Points, month : 0..Last, base : SUBSET Months]]
      /\ \A d \in Callers \ {c} : call'[d] = call[d]
  BY MovedCall DEF IInv, Report, Points, Types, Move
<1>4. Types'
  BY <1>2, <1>3 DEF Report, IInv, Types, bounds, database
<1>5. ASSUME alone
      PROVE  PositionOf(c)' /\ BookOf(c)' /\ StatesCohere' /\ MonthsDecided' /\ DaysDrawn'
  <2>1. run.state.phase = "extracts" /\ drawn = Months
    BY <1>5 DEF Report, At, IInv, WhileAlone, PositionOf, FinalPoints, DaysDrawn
  <2>2. PositionOf(c)' /\ BookOf(c)'
    BY <1>2, <1>3 DEF PositionOf, BookOf, MonthPoints, FinalPoints
  <2>3. StatesCohere'
    BY <1>1, <1>2, <1>5, <2>1 DEF Report, database, IInv, WhileAlone, StatesCohere, Coherent
  <2>4. MonthsDecided'
    BY <1>0, <1>1, <1>2, <1>3, <1>5 DEF IInv, WhileAlone, MonthsDecided, At
  <2>5. DaysDrawn'
    BY <1>1, <1>2, <1>5, <2>1 DEF Report, database, IInv, WhileAlone, DaysDrawn
  <2> QED
    BY <2>2, <2>3, <2>4, <2>5
<1>6. ASSUME Orderly PROVE TurnsCount' /\ SavedIsWritten' /\ run'.plan
  <2>1. (Inside(Loop))' <=> Inside(Loop)
    BY <1>1, <1>3 DEF Callers, Inside
  <2>2. TurnsCount'
    BY <1>1, <1>2, <1>6, <2>1 DEF Report, IInv, InOneProcess, TurnsCount
  <2>3. SavedIsWritten'
    BY <1>0, <1>2, <1>6 DEF IInv, InOneProcess, SavedIsWritten
  <2> QED
    BY <1>1, <1>2, <1>6, <2>2, <2>3 DEF IInv, InOneProcess
<1> QED
  BY <1>1, <1>2, <1>4, <1>5, <1>6, MoveStep DEF Report, At, Points, MonthPoints, bounds

(* An import, whether it is completed or not, takes nothing away.           *)
LEMMA WrittenMore ==
  ASSUME Types, NEW m \in Months,
         imports' \in {imports, [imports EXCEPT ![m] = IF @ < 2 THEN @ + 1 ELSE @]}
  PROVE  imports' \in [Months -> 0..2] /\ \A k \in Months : imports[k] > 0 => imports'[k] > 0
BY DEF Types

(* A call that throws leaves the run where it is.                           *)
LEMMA ThrowStep ==
  ASSUME IInv, NEW c \in Callers, call[c].at \in {"custody", "import", "drawing", "final_drawing"},
         Throw(c, run), UNCHANGED <<row, late, drawn, alone, restarts>>,
         imports' \in [Months -> 0..2],
         \A k \in Months : imports[k] > 0 => imports'[k] > 0
  PROVE  IInv'
<1>1. Inside(c) /\ run \in Runs /\ Live
  BY InsideRun DEF Inside
<1>2. /\ run' \in Runs /\ run'.plan = run.plan
      /\ run'.state.index = run.state.index /\ run'.state.phase = run.state.phase
      /\ run'.book = run.book /\ run'.kept = run.kept /\ run'.skipped = run.skipped
  BY <1>1 DEF Throw, Runs, States
<1>3. /\ call' = [call EXCEPT ![c] = Quiet] /\ call'[c].at = "idle"
      /\ call' \in [Callers -> Calls]
      /\ \A d \in Callers \ {c} : call'[d] = call[d]
  BY QuietCall DEF IInv, Throw, Types, Calls, Quiet
<1>4. /\ loop' \in [kind : {"none", "request", "detached"}, turns : Nat]
      /\ loop' = IF c = Loop THEN [kind |-> "none", turns |-> 0] ELSE loop
      /\ faults' \in Nat
  BY DEF Throw, Off, IInv, Types
<1>5. run'.state.status = "running" /\ (run.state.status = "running" => loop.kind = "detached")
        => c # Loop /\ run.state.status = "running"
  BY <1>1 DEF Throw, Runs, States
<1>6. Types'
  BY <1>2, <1>3, <1>4 DEF IInv, Types, Calls
<1>7. ASSUME alone PROVE StatesCohere' /\ MonthsDecided' /\ DaysDrawn'
  <2>1. StatesCohere'
    BY <1>1, <1>2, <1>7 DEF IInv, WhileAlone, StatesCohere, Coherent
  <2>2. MonthsDecided'
    BY <1>1, <1>2, <1>3, <1>7 DEF IInv, WhileAlone, MonthsDecided, At, Runs
  <2>3. DaysDrawn'
    BY <1>1, <1>2, <1>3, <1>7 DEF IInv, WhileAlone, DaysDrawn, At
  <2> QED
    BY <2>1, <2>2, <2>3
<1>8. ASSUME Orderly PROVE TurnsCount' /\ SavedIsWritten' /\ run'.plan
  <2>1. c # Loop => ((Inside(Loop))' <=> Inside(Loop))
    BY <1>3 DEF Callers, Inside
  <2>2. TurnsCount'
    BY <1>1, <1>2, <1>4, <1>5, <1>8, <2>1 DEF IInv, InOneProcess, TurnsCount
  <2>3. \A d \in Callers : call'[d].at # "final_save"
    BY <1>1, <1>3, <1>8, NobodyElse DEF Orderly
  <2>4. SavedIsWritten'
    BY <1>8, <2>3 DEF IInv, InOneProcess, SavedIsWritten, At
  <2> QED
    BY <1>1, <1>2, <1>8, <2>2, <2>4 DEF IInv, InOneProcess
<1> QED
  BY <1>1, <1>2, <1>3, <1>6, <1>7, <1>8, LeaveStep

LEMMA StepThrowsIInv ==
  ASSUME IInv, NEW c \in Callers, StepThrows(c)
  PROVE  IInv'
BY ThrowStep DEF StepThrows, database, IInv, Types

LEMMA ImportThrowsIInv ==
  ASSUME IInv, NEW c \in Callers, ImportThrows(c)
  PROVE  IInv'
<1>1. call[c].at = "import" /\ call[c].month \in Months
  BY DEF ImportThrows, At, IInv, InPlace, MonthPoints
<1> QED
  BY <1>1, WrittenMore, ThrowStep DEF ImportThrows, IInv

(* The position moves on by one month, and with the last the phase does.    *)
LEMMA Advanced ==
  ASSUME NEW s \in States, Coherent(s), s.phase = "notes", NEW q \in States,
         q.index = s.index + 1,
         q.phase = IF s.index + 1 >= Last THEN "extracts" ELSE s.phase
  PROVE  Coherent(q) /\ q.phase # "done"
BY MonthsAssumption DEF Coherent, States

(* A month is left behind, or the run stops at it.                          *)
LeavesBehind(c, r, answer) ==
  /\ Return(c, r, answer)
  /\ r.plan = run.plan /\ r.book = run.book /\ r.kept = run.kept /\ r.state.mode = run.state.mode
  /\ \/ /\ answer = "closed" /\ r.state.status = run.state.status
        /\ r.state.index = run.state.index + 1
        /\ r.state.phase = IF run.state.index + 1 >= Last THEN "extracts" ELSE run.state.phase
     \/ /\ answer = "blocked" /\ r.state.status = "error" /\ r.state.mode = "strict"
        /\ r.state.index = run.state.index /\ r.state.phase = run.state.phase

LEMMA BehindStep ==
  ASSUME IInv, NEW c \in Callers, call[c].at \in {"import", "drawing"},
         NEW r \in Runs, NEW answer, LeavesBehind(c, r, answer), run.skipped \subseteq r.skipped,
         alone /\ answer = "closed" => call[c].month \in run.kept \cup r.skipped,
         UNCHANGED <<row, late, alone, faults, restarts>>,
         alone => row.phase # "done", drawn' \subseteq Months,
         imports' \in [Months -> 0..2],
         \A k \in Months : imports[k] > 0 => imports'[k] > 0
  PROVE  IInv'
<1>0. /\ Return(c, r, answer) /\ r.plan = run.plan /\ r.book = run.book /\ r.kept = run.kept
      /\ r.state.mode = run.state.mode
      /\ \/ /\ answer = "closed" /\ r.state.status = run.state.status
            /\ r.state.index = run.state.index + 1
            /\ r.state.phase = IF run.state.index + 1 >= Last THEN "extracts" ELSE run.state.phase
         \/ /\ answer = "blocked" /\ r.state.status = "error" /\ r.state.mode = "strict"
            /\ r.state.index = run.state.index /\ r.state.phase = run.state.phase
  BY DEF LeavesBehind
<1>1. Inside(c) /\ run \in Runs /\ Live
  BY InsideRun DEF Inside
<1>2. /\ run' \in Runs /\ run'.plan = run.plan /\ run'.book = run.book
      /\ run'.kept = run.kept /\ run'.skipped = r.skipped
      /\ run'.state.index = r.state.index /\ run'.state.phase = r.state.phase
      /\ loop' \in [kind : {"none", "request", "detached"}, turns : Nat]
  BY <1>0, AnswerOf DEF IInv
<1>3. /\ call' = [call EXCEPT ![c] = Quiet] /\ call'[c].at = "idle"
      /\ call' \in [Callers -> Calls]
      /\ \A d \in Callers \ {c} : call'[d] = call[d]
  BY <1>0, QuietCall DEF IInv, Return, Types, Calls, Quiet
<1>4. Types'
  BY <1>2, <1>3 DEF IInv, Types, Calls
<1>5. /\ run.state \in States /\ r.state \in States /\ run'.state \in States
      /\ run.state.index \in Nat
  BY <1>1, <1>2 DEF Runs, States
<1>6. ASSUME alone
      PROVE  StatesCohere' /\ MonthsDecided' /\ DaysDrawn'
  <2>1. /\ Coherent(run.state) /\ run.state.phase = "notes"
        /\ call[c].month = run.state.index + 1 /\ call[c].month \in Months
    BY <1>1, <1>6 DEF IInv, InPlace, WhileAlone, StatesCohere, PositionOf, MonthPoints
  <2>2. Coherent(r.state) /\ r.state.phase # "done"
    BY <1>0, <1>5, <2>1, Advanced DEF Coherent
  <2>3. Coherent(run'.state) /\ run'.state.phase # "done"
    BY <1>2, <2>2 DEF Coherent
  <2>4. StatesCohere'
    BY <1>6, <2>3 DEF IInv, WhileAlone, StatesCohere
  <2>5. \A d \in Callers : call[d].at \notin {"fold", "report"} /\ call'[d].at # "report"
    BY <1>1, <1>3, <1>6, NobodyElse
  <2>6. run.plan =>
          /\ \A m \in run.kept : m <= run.state.index + 1 /\ imports[m] > 0
          /\ \A m \in Months : m <= run.state.index => m \in run.kept \cup run.skipped
          /\ run.kept \subseteq run.book
    BY <1>1, <1>6, <2>5 DEF IInv, WhileAlone, MonthsDecided, At
  <2>7. \A m \in run.kept : m \in Months /\ m \in Nat
    BY <1>1 DEF Runs, Months
  <2>8. run.plan => \A m \in run.kept : m <= run'.state.index + 1 /\ imports'[m] > 0
    BY <1>0, <1>2, <1>5, <2>6, <2>7
  <2>9. run.plan => \A m \in Months : m <= run'.state.index => m \in run.kept \cup r.skipped
    BY <1>0, <1>2, <1>5, <1>6, <2>1, <2>6 DEF Months
  <2>10. MonthsDecided'
    BY <1>2, <2>6, <2>8, <2>9 DEF MonthsDecided
  <2>11. DaysDrawn'
    BY <1>6, <2>3, <2>5 DEF DaysDrawn, At
  <2> QED
    BY <2>4, <2>10, <2>11
<1>7. ASSUME Orderly PROVE TurnsCount' /\ SavedIsWritten' /\ run'.plan
  <2>0. alone /\ run.plan /\ TurnsCount /\ SavedIsWritten
    BY <1>1, <1>7 DEF Orderly, IInv, InOneProcess
  <2>1. run.state.phase = "notes" /\ row.phase # "done"
    BY <2>0 DEF IInv, WhileAlone, PositionOf, MonthPoints
  <2>2. c # Loop => ((Inside(Loop))' <=> Inside(Loop)) /\ ~Inside(Loop)
    BY <1>1, <1>3, <2>0, NobodyElse DEF Callers, Inside
  <2>3. c = Loop => ~(Inside(Loop))' /\ Inside(Loop)
    BY <1>1, <1>3 DEF Inside
  <2>4. loop' = IF c = Loop /\ answer = "blocked" THEN [kind |-> "none", turns |-> 0] ELSE loop
    BY <1>0 DEF Return, LoopEnds, Off
  <2>5. run'.state.status = "running" => loop'.kind = "detached"
    <3>1. CASE c = Loop /\ loop.kind = "detached"
      <4>1. PICK q : q = Overwritten(r.state, answer)
        OBVIOUS
      <4>2. run'.state = q
        BY <1>0, <3>1, <4>1 DEF Return, Runs
      <4> QED
        BY <1>0, <1>5, <2>4, <3>1, <4>1, <4>2, OverwrittenState
    <3>2. CASE ~(c = Loop /\ loop.kind = "detached")
      <4>1. run' = r
        BY <1>0, <3>2 DEF Return
      <4> QED
        BY <1>0, <1>1, <2>0, <2>4, <3>2, <4>1 DEF TurnsCount
    <3> QED
      BY <3>1, <3>2
  <2>6. loop.kind # "none" => IF c = Loop THEN loop.turns <= run.state.index + 1
                                          ELSE loop.turns <= run.state.index
    BY <1>1, <2>0, <2>1, <2>2, <2>3 DEF TurnsCount
  <2>7. TurnsCount'
    BY <1>0, <1>1, <1>2, <1>5, <2>2, <2>3, <2>4, <2>5, <2>6 DEF TurnsCount
  <2>8. \A d \in Callers : call'[d].at # "final_save"
    BY <1>1, <1>3, <2>0, NobodyElse
  <2>9. SavedIsWritten'
    BY <2>1, <2>8 DEF SavedIsWritten, At
  <2> QED
    BY <1>2, <2>0, <2>7, <2>9
<1> QED
  BY <1>1, <1>2, <1>3, <1>4, <1>6, <1>7, LeaveStep

LEMMA ClosedRun ==
  ASSUME IInv, NEW c \in Callers, CloseMonth(c)
  PROVE  \E r \in Runs : LeavesBehind(c, r, "closed") /\ r.skipped = run.skipped
<1> DEFINE phase == IF run.state.index + 1 >= Last THEN "extracts" ELSE run.state.phase
           next == [run.state EXCEPT !.horizon = call[c].month, !.index = @ + 1, !.phase = phase]
           r == [run EXCEPT !.state = next]
<1>1. run \in Runs /\ call[c].month \in Nat
  BY InsideRun DEF Inside, CloseMonth, At, IInv, Types
<1>2. run.state \in States /\ phase \in {"notes", "extracts", "done"}
  BY <1>1 DEF Runs, States
<1>3. Return(c, r, "closed")
  BY DEF CloseMonth
<1>4. next = [run.state EXCEPT !.horizon = call[c].month, !.index = @ + 1, !.phase = phase]
  OBVIOUS
<1> HIDE DEF next
<1>5. /\ next \in States /\ next.index = run.state.index + 1 /\ next.mode = run.state.mode
      /\ next.phase = phase /\ next.status = run.state.status
  <2> HIDE DEF phase
  <2>1. PICK a : a = [run.state EXCEPT !.horizon = call[c].month]
    OBVIOUS
  <2>2. PICK b : b = [a EXCEPT !.index = @ + 1] /\ next = [b EXCEPT !.phase = phase]
    BY <1>4, <2>1
  <2>3. a \in States /\ a.index = run.state.index /\ a.mode = run.state.mode
        /\ a.status = run.state.status
    BY <1>1, <1>2, <2>1 DEF States
  <2>4. b \in States /\ b.index = run.state.index + 1 /\ b.mode = run.state.mode
        /\ b.status = run.state.status
    BY <2>2, <2>3 DEF States
  <2> QED
    BY <1>2, <2>2, <2>4 DEF States
<1>6. /\ r \in Runs /\ r.state = next /\ r.plan = run.plan /\ r.book = run.book
      /\ r.kept = run.kept /\ r.skipped = run.skipped
  BY <1>1, <1>5 DEF Runs
<1> HIDE DEF r
<1> QED
  BY <1>3, <1>5, <1>6 DEF LeavesBehind

LEMMA CloseMonthIInv ==
  ASSUME IInv, NEW c \in Callers, CloseMonth(c)
  PROVE  IInv'
<1>1. PICK r \in Runs : LeavesBehind(c, r, "closed") /\ r.skipped = run.skipped
  BY ClosedRun
<1>2. call[c].at = "drawing" /\ Live /\ call[c].month \in Months
  BY InsideRun DEF CloseMonth, At, Inside, IInv, InPlace, MonthPoints
<1>3. UNCHANGED <<row, late, alone, faults, restarts>> /\ imports' = imports /\ drawn' \subseteq Months
  BY <1>2 DEF CloseMonth, bounds, IInv, Types
<1>4. ASSUME alone PROVE call[c].month \in run.kept /\ row.phase # "done"
  BY <1>2, <1>4 DEF IInv, WhileAlone, PositionOf, DaysDrawn, MonthPoints
<1>5. /\ imports' \in [Months -> 0..2] /\ \A k \in Months : imports[k] > 0 => imports'[k] > 0
  BY <1>3 DEF IInv, Types
<1> QED
  BY <1>1, <1>2, <1>3, <1>4, <1>5, BehindStep

LEMMA BlockedRun ==
  ASSUME IInv, NEW c \in Callers, ImportBlocked(c)
  PROVE  \E r \in Runs, answer \in {"closed", "blocked"} :
           LeavesBehind(c, r, answer) /\ r.skipped = run.skipped \cup {call[c].month}
<1>1. run \in Runs /\ call[c].month \in Months
  BY InsideRun DEF Inside, ImportBlocked, At, IInv, InPlace, MonthPoints
<1>2. run.state \in States
  BY <1>1 DEF Runs
<1> DEFINE s == [run EXCEPT !.skipped = @ \cup {call[c].month}]
           phase == IF run.state.index + 1 >= Last THEN "extracts" ELSE s.state.phase
           next == [s.state EXCEPT !.index = @ + 1, !.phase = phase]
<1>3. /\ s \in Runs /\ s.state = run.state /\ s.plan = run.plan /\ s.book = run.book
      /\ s.kept = run.kept /\ s.skipped = run.skipped \cup {call[c].month}
  BY <1>1 DEF Runs
<1>4. CASE run.state.mode = "strict"
  <2> DEFINE r == [s EXCEPT !.state.status = "error"]
  <2>1. Return(c, r, "blocked")
    BY <1>4 DEF ImportBlocked
  <2> HIDE DEF s
  <2>2. /\ r \in Runs /\ r.plan = run.plan /\ r.book = run.book /\ r.kept = run.kept
        /\ r.skipped = s.skipped /\ r.state.index = run.state.index
        /\ r.state.phase = run.state.phase /\ r.state.status = "error"
        /\ r.state.mode = "strict"
    BY <1>2, <1>3, <1>4 DEF Runs, States
  <2> HIDE DEF r
  <2> QED
    BY <1>3, <1>4, <2>1, <2>2 DEF LeavesBehind
<1>5. CASE run.state.mode # "strict"
  <2> DEFINE r == [s EXCEPT !.state = next]
  <2>1. Return(c, r, "closed")
    BY <1>5 DEF ImportBlocked
  <2>2. next = [s.state EXCEPT !.index = @ + 1, !.phase = phase]
    OBVIOUS
  <2>3. phase \in {"notes", "extracts", "done"}
    BY <1>2, <1>3 DEF States
  <2> HIDE DEF s, next
  <2>4. /\ next \in States /\ next.index = run.state.index + 1 /\ next.mode = run.state.mode
        /\ next.phase = phase /\ next.status = run.state.status
    <3> HIDE DEF phase
    <3>1. PICK b : b = [s.state EXCEPT !.index = @ + 1] /\ next = [b EXCEPT !.phase = phase]
      BY <2>2
    <3>2. b \in States /\ b.index = run.state.index + 1 /\ b.mode = run.state.mode
          /\ b.status = run.state.status
      BY <1>2, <1>3, <3>1 DEF States
    <3> QED
      BY <2>3, <3>1, <3>2 DEF States
  <2>5. /\ r \in Runs /\ r.plan = run.plan /\ r.book = run.book /\ r.kept = run.kept
        /\ r.skipped = s.skipped /\ r.state = next
    BY <1>3, <2>4 DEF Runs
  <2> HIDE DEF r
  <2> QED
    BY <1>3, <2>1, <2>4, <2>5 DEF LeavesBehind
<1> QED
  BY <1>4, <1>5

LEMMA ImportBlockedIInv ==
  ASSUME IInv, NEW c \in Callers, ImportBlocked(c)
  PROVE  IInv'
<1>1. PICK r \in Runs, answer \in {"closed", "blocked"} :
        LeavesBehind(c, r, answer) /\ r.skipped = run.skipped \cup {call[c].month}
  BY BlockedRun
<1>2. call[c].at = "import" /\ Live /\ call[c].month \in Months
  BY InsideRun DEF ImportBlocked, At, Inside, IInv, InPlace, MonthPoints
<1>3. /\ imports' \in [Months -> 0..2]
      /\ \A k \in Months : imports[k] > 0 => imports'[k] > 0
  BY DEF ImportBlocked, IInv, Types
<1>4. UNCHANGED <<row, late, drawn, alone, faults, restarts>> /\ drawn \subseteq Months
  BY DEF ImportBlocked, bounds, IInv, Types
<1>5. ASSUME alone PROVE row.phase # "done"
  BY <1>2, <1>5 DEF IInv, WhileAlone, PositionOf, DaysDrawn, MonthPoints
<1> QED
  BY <1>1, <1>2, <1>3, <1>4, <1>5, BehindStep

LEMMA FinishIInv ==
  ASSUME IInv, NEW c \in Callers, Finish(c)
  PROVE  IInv'
<1>1. Inside(c) /\ run \in Runs /\ Live /\ call[c].at = "final_save"
  BY InsideRun DEF Inside, Finish, At
<1>2. /\ run' \in Runs /\ run'.plan = run.plan /\ run'.book = run.book
      /\ run'.kept = run.kept /\ run'.skipped = run.skipped
      /\ run'.state.index = run.state.index /\ run'.state.phase = run.state.phase
      /\ loop' \in [kind : {"none", "request", "detached"}, turns : Nat]
  BY <1>1, AnswerOf DEF IInv, Finish
<1>3. /\ call' = [call EXCEPT ![c] = Quiet] /\ call'[c].at = "idle"
      /\ call' \in [Callers -> Calls]
      /\ \A d \in Callers \ {c} : call'[d] = call[d]
  BY QuietCall DEF IInv, Finish, Return, Types, Calls, Quiet
<1>4. row' \in {row, run.state} /\ faults' \in Nat /\ UNCHANGED <<late, imports, drawn, alone, restarts>>
  BY DEF Finish, Save, IInv, Types
<1>5. run.state \in States
  BY <1>1 DEF Runs
<1>6. Types'
  BY <1>2, <1>3, <1>4, <1>5 DEF IInv, Types, Calls
<1>7. ASSUME alone
      PROVE  /\ StatesCohere' /\ MonthsDecided' /\ DaysDrawn'
             /\ run.state.phase = "done"
  <2>1. run.state.phase = "done" /\ Coherent(run.state)
    BY <1>1, <1>7 DEF IInv, WhileAlone, PositionOf, StatesCohere
  <2>2. StatesCohere'
    BY <1>1, <1>2, <1>4, <1>7, <2>1 DEF IInv, WhileAlone, StatesCohere, Coherent
  <2>3. MonthsDecided'
    BY <1>1, <1>2, <1>3, <1>4, <1>7 DEF IInv, WhileAlone, MonthsDecided, At
  <2>4. DaysDrawn'
    BY <1>1, <1>2, <1>4, <1>7, <2>1 DEF IInv, WhileAlone, DaysDrawn
  <2> QED
    BY <2>1, <2>2, <2>3, <2>4
<1>8. ASSUME Orderly PROVE TurnsCount' /\ SavedIsWritten' /\ run'.plan
  <2>0. alone /\ run.plan /\ TurnsCount /\ SavedIsWritten /\ run.state.phase = "done"
    BY <1>1, <1>7, <1>8 DEF Orderly, IInv, InOneProcess
  <2>1. c # Loop => ~(Inside(Loop))' /\ ~Inside(Loop)
    BY <1>1, <1>3, <2>0, NobodyElse DEF Callers, Inside
  <2>2. loop' = IF c = Loop THEN [kind |-> "none", turns |-> 0] ELSE loop
    BY DEF Finish, Return, LoopEnds, Off
  <2>3. run'.state.status = "running" => loop'.kind = "detached"
    <3>1. CASE c = Loop /\ loop.kind = "detached"
      <4>1. PICK q : q = Overwritten(run.state, "done")
        OBVIOUS
      <4>2. run'.state = q
        BY <1>1, <3>1, <4>1 DEF Finish, Return, Runs
      <4> QED
        BY <1>5, <2>0, <4>1, <4>2, OverwrittenState
    <3>2. CASE ~(c = Loop /\ loop.kind = "detached")
      <4>1. run' = run
        BY <3>2 DEF Finish, Return
      <4> QED
        BY <1>1, <2>0, <2>2, <3>2, <4>1 DEF TurnsCount
    <3> QED
      BY <3>1, <3>2
  <2>4. TurnsCount'
    BY <1>1, <1>2, <2>0, <2>1, <2>2, <2>3 DEF TurnsCount
  <2>5. \A d \in Callers : call'[d].at # "final_save"
    BY <1>1, <1>3, <2>0, NobodyElse
  <2>6. run.state.status = "done" => \A m \in Months : imports[m] > 0
    <3>1. run.state.status = "done" => run.skipped = {}
      BY <1>1, <2>0 DEF SavedIsWritten, At
    <3>2. run.state.index = Last
      BY <1>1, <1>5, <2>0, MonthsAssumption DEF IInv, WhileAlone, StatesCohere, Coherent, States
    <3>3. \A m \in Months : m <= Last
      BY DEF Months
    <3> QED
      BY <1>1, <2>0, <3>1, <3>2, <3>3 DEF IInv, WhileAlone, MonthsDecided
  <2>7. SavedIsWritten'
    BY <1>4, <2>0, <2>5, <2>6 DEF SavedIsWritten, At
  <2> QED
    BY <1>2, <2>0, <2>4, <2>7
<1> QED
  BY <1>1, <1>2, <1>3, <1>4, <1>6, <1>7, <1>8, LeaveStep

LEMMA ImportAppliedIInv ==
  ASSUME IInv, NEW c \in Callers, NEW wrong \in SUBSET Flaws, ImportApplied(c, wrong)
  PROVE  IInv'
<1>1. Inside(c) /\ run \in Runs /\ Live /\ call[c].at = "import"
  BY InsideRun DEF Inside, ImportApplied, At
<1>2. call[c].month \in Months /\ call[c].month \in 0..Last
  BY <1>1 DEF IInv, InPlace, Types, MonthPoints
<1>3. /\ imports' \in [Months -> 0..2] /\ imports'[call[c].month] > 0
      /\ \A k \in Months : imports[k] > 0 => imports'[k] > 0
  BY <1>2 DEF ImportApplied, IInv, Types
<1>4. /\ run' \in Runs /\ run'.state = run.state /\ run'.plan = run.plan
      /\ run'.book = run.book /\ run'.kept = run.kept \cup {call[c].month}
      /\ run'.skipped = run.skipped
  BY <1>1, <1>2 DEF ImportApplied, Runs
<1> DEFINE k == [at |-> "fold", month |-> call[c].month, base |-> run.book]
<1>5. k \in Calls /\ k.at = "fold" /\ k.month = call[c].month /\ k.base = run.book
  BY <1>1, <1>2 DEF Calls, Points, Runs
<1>6. call' = [call EXCEPT ![c] = k]
  <2>1. PICK a : a = [call EXCEPT ![c].at = "fold"] /\ call' = [a EXCEPT ![c].base = run.book]
    BY DEF ImportApplied
  <2>2. call \in [Callers -> Calls] /\ run.book \subseteq Months
    BY <1>1 DEF IInv, Types, Calls, Runs
  <2>3. /\ a \in [Callers -> Calls]
        /\ a[c] = [at |-> "fold", month |-> call[c].month, base |-> call[c].base]
        /\ \A d \in Callers \ {c} : a[d] = call[d]
    BY <2>1, <2>2 DEF Calls, Points
  <2>4. /\ call' \in [Callers -> Calls] /\ call'[c] = k
        /\ \A d \in Callers \ {c} : call'[d] = call[d]
    BY <2>1, <2>2, <2>3 DEF Calls
  <2> HIDE DEF k
  <2> QED
    BY <2>2, <2>4
<1> HIDE DEF k
<1>7. /\ call' \in [Callers -> Calls] /\ call'[c] = k
      /\ \A d \in Callers \ {c} : call'[d] = call[d]
  BY <1>5, <1>6 DEF IInv, Types, Calls
<1>8. UNCHANGED <<row, late, loop, drawn, alone, faults, restarts>>
  BY DEF ImportApplied, bounds
<1>9. Types'
  BY <1>3, <1>4, <1>7, <1>8 DEF IInv, Types, Calls
<1>10. ASSUME alone
       PROVE  PositionOf(c)' /\ BookOf(c)' /\ StatesCohere' /\ MonthsDecided' /\ DaysDrawn'
  <2>1. /\ run.plan /\ run.state.phase = "notes" /\ call[c].month = run.state.index + 1
    BY <1>1, <1>10 DEF IInv, WhileAlone, PositionOf, MonthPoints
  <2>2. PositionOf(c)' /\ BookOf(c)'
    BY <1>4, <1>5, <1>7, <2>1 DEF PositionOf, BookOf, FinalPoints
  <2>3. StatesCohere'
    BY <1>1, <1>4, <1>8, <1>10 DEF IInv, WhileAlone, StatesCohere
  <2>4. MonthsDecided'
    <3>1. \A m \in run.kept : m \in Months /\ m <= run.state.index + 1 /\ imports[m] > 0
      BY <1>1, <1>10, <2>1 DEF IInv, WhileAlone, MonthsDecided, Runs
    <3>2. \A m \in run'.kept : m <= run'.state.index + 1 /\ imports'[m] > 0
      BY <1>2, <1>3, <1>4, <2>1, <3>1 DEF Months
    <3>3. \A m \in Months : m <= run'.state.index => m \in run'.kept \cup run'.skipped
      BY <1>1, <1>4, <1>10, <2>1 DEF IInv, WhileAlone, MonthsDecided
    <3>4. \A m \in run.kept : m \in run.book
      BY <1>1, <1>10, <2>1, NobodyElse DEF IInv, WhileAlone, MonthsDecided, At
    <3>5. At(c, "fold")' /\ call'[c].month = call[c].month
      BY <1>5, <1>7 DEF At
    <3>6. \A m \in run'.kept : m \in run'.book \/ (At(c, "fold")' /\ m = call'[c].month)
      BY <1>4, <3>4, <3>5
    <3> QED
      BY <3>2, <3>3, <3>6 DEF MonthsDecided
  <2>5. DaysDrawn'
    BY <1>1, <1>4, <1>5, <1>7, <1>8, <1>10 DEF IInv, WhileAlone, DaysDrawn, At
  <2> QED
    BY <2>2, <2>3, <2>4, <2>5
<1>11. ASSUME Orderly PROVE TurnsCount' /\ SavedIsWritten' /\ run'.plan
  <2>1. (Inside(Loop))' <=> Inside(Loop)
    BY <1>1, <1>5, <1>7 DEF Callers, Inside
  <2>2. TurnsCount'
    BY <1>1, <1>4, <1>8, <1>11, <2>1 DEF IInv, InOneProcess, TurnsCount
  <2>3. SavedIsWritten'
    BY <1>3, <1>4, <1>5, <1>7, <1>8, <1>11 DEF IInv, InOneProcess, SavedIsWritten, At
  <2> QED
    BY <1>1, <1>4, <1>11, <2>2, <2>3 DEF IInv, InOneProcess
<1> QED
  BY <1>1, <1>2, <1>4, <1>5, <1>6, <1>8, <1>9, <1>10, <1>11, InsideStep

(* A call enters the run: while it is alone there, its position is what is *)
(* to be shown.                                                             *)
LEMMA EnterStep ==
  ASSUME IInv, NEW c \in Callers, Enter(c),
         NEW k \in Calls, call' = [call EXCEPT ![c] = k],
         k.at \in {"quotes", "custody", "final_quotes", "final_draw", "refused"},
         k.at \in MonthPoints => k.month \in Months,
         UNCHANGED <<run, row, late, imports, drawn, faults, restarts>>,
         alone => PositionOf(c)',
         run.state.phase # "done", k.at = "refused" => ~run.plan
  PROVE  IInv'
<1>1. call[c].at = "idle" /\ Live /\ Live' /\ run \in Runs
  BY DEF Enter, MayCall, At, Live, IInv, Types
<1>2. /\ call' \in [Callers -> Calls] /\ call'[c] = k
      /\ \A d \in Callers \ {c} : call'[d] = call[d]
  BY DEF IInv, Types, Calls
<1>3. /\ loop' \in [kind : {"none", "request", "detached"}, turns : Nat]
      /\ loop'.kind = loop.kind
      /\ loop'.turns = IF c = Loop THEN loop.turns + 1 ELSE loop.turns
  BY DEF Enter, IInv, Types
<1>4. alone' \in BOOLEAN /\ (alone' => alone /\ \A d \in Callers \ {c} : ~Inside(d))
  BY DEF Enter, IInv, Types
<1>5. Types'
  BY <1>2, <1>3, <1>4 DEF IInv, Types, Calls
<1>6. InPlace'
  BY <1>1, <1>2 DEF IInv, InPlace
<1>7. ASSUME alone' PROVE WhileAlone'
  <2>1. \A d \in Callers \ {c} : call'[d].at \in {"idle", "refused"}
    BY <1>2, <1>4, <1>7 DEF Inside
  <2>2. Exclusive'
    BY <2>1 DEF Exclusive, Inside
  <2>3. \A d \in Callers : PositionOf(d)' /\ BookOf(d)'
    BY <1>2, <1>4, <1>7, <2>1 DEF PositionOf, BookOf, MonthPoints, FinalPoints
  <2>4. StatesCohere' /\ DaysDrawn'
    BY <1>1, <1>2, <1>4, <1>7, <2>1 DEF IInv, WhileAlone, StatesCohere, DaysDrawn, At
  <2>5. MonthsDecided'
    BY <1>1, <1>2, <1>4, <1>7, <2>1 DEF IInv, WhileAlone, MonthsDecided, At
  <2> QED
    BY <2>2, <2>3, <2>4, <2>5 DEF WhileAlone
<1>8. ASSUME Orderly' PROVE InOneProcess'
  <2>1. TurnsCount /\ SavedIsWritten /\ run.plan
    BY <1>1, <1>4, <1>8 DEF Orderly, IInv, InOneProcess
  <2>0. k.at # "refused"
    BY <2>1
  <2>2. IF c = Loop THEN (Inside(Loop))' /\ ~Inside(Loop)
                    ELSE (Inside(Loop))' <=> Inside(Loop)
    BY <1>1, <1>2, <2>0 DEF Callers, Inside
  <2>3. TurnsCount'
    BY <1>1, <1>3, <2>1, <2>2 DEF TurnsCount, Runs, States, IInv, Types
  <2>4. SavedIsWritten'
    BY <1>2, <2>1 DEF SavedIsWritten, At
  <2> QED
    BY <1>1, <2>1, <2>3, <2>4 DEF InOneProcess
<1> QED
  BY <1>5, <1>6, <1>7, <1>8 DEF IInv

LEMMA OpenMonthIInv ==
  ASSUME IInv, NEW c \in Callers, OpenMonth(c)
  PROVE  IInv'
<1> DEFINE k == [at |-> IF run.synced THEN "custody" ELSE "quotes",
                 month |-> run.state.index + 1, base |-> {}]
<1>1. run \in Runs
  BY DEF OpenMonth, Enter, MayCall, Live, IInv, Types
<1>2. run.state.index \in Nat /\ run.state.index < Last /\ run.plan /\ run.state.phase = "notes"
  BY <1>1 DEF OpenMonth, Runs, States
<1>3. run.state.index + 1 \in 1..Last
  BY <1>2, MonthsAssumption
<1>4. /\ k \in Calls /\ k.at \in {"custody", "quotes"} /\ k.month = run.state.index + 1
      /\ k.month \in Months
  BY <1>3 DEF Calls, Points, Months
<1>5. call' = [call EXCEPT ![c] = k]
  BY DEF OpenMonth
<1> HIDE DEF k
<1>6. call'[c] = k
  BY <1>5 DEF IInv, Types
<1>7. UNCHANGED <<run, row, late, imports, drawn, faults, restarts>> /\ Enter(c)
  BY DEF OpenMonth, database, bounds
<1>8. PositionOf(c)'
  BY <1>2, <1>4, <1>6, <1>7 DEF PositionOf, FinalPoints
<1> QED
  BY <1>2, <1>4, <1>5, <1>7, <1>8, EnterStep

LEMMA OpenFinalIInv ==
  ASSUME IInv, NEW c \in Callers, OpenFinal(c)
  PROVE  IInv'
<1> DEFINE p == IF run.synced THEN "final_draw" ELSE "final_quotes"
           k == [at |-> p, month |-> call[c].month, base |-> call[c].base]
<1>1. call[c] \in Calls /\ call \in [Callers -> Calls]
  BY DEF IInv, Types, Calls
<1>2. k \in Calls /\ k.at \in {"final_draw", "final_quotes"} /\ k = [call[c] EXCEPT !.at = p]
  BY <1>1 DEF Calls, Points
<1>3. call' = [call EXCEPT ![c] = k]
  BY <1>2 DEF OpenFinal
<1> HIDE DEF k
<1>4. call'[c] = k
  BY <1>1, <1>3
<1>5. /\ UNCHANGED <<run, row, late, imports, drawn, faults, restarts>> /\ Enter(c)
      /\ run.state.phase = "extracts"
  BY DEF OpenFinal, database, bounds
<1>6. PositionOf(c)' /\ k.at \notin MonthPoints
  BY <1>2, <1>4, <1>5 DEF PositionOf, MonthPoints
<1> QED
  BY <1>2, <1>3, <1>5, <1>6, EnterStep

LEMMA RefuseIInv ==
  ASSUME IInv, NEW c \in Callers, Refuse(c)
  PROVE  IInv'
<1> DEFINE k == [at |-> "refused", month |-> call[c].month, base |-> call[c].base]
<1>1. call[c] \in Calls /\ call \in [Callers -> Calls]
  BY DEF IInv, Types, Calls
<1>2. k \in Calls /\ k.at = "refused" /\ k = [call[c] EXCEPT !.at = "refused"]
  BY <1>1 DEF Calls, Points
<1>3. call' = [call EXCEPT ![c] = k]
  BY <1>2 DEF Refuse, Move
<1> HIDE DEF k
<1>4. call'[c] = k
  BY <1>1, <1>3
<1>5. /\ UNCHANGED <<run, row, late, imports, drawn, faults, restarts>> /\ Enter(c)
      /\ run.state.phase = "notes" /\ ~run.plan
  BY DEF Refuse, database, bounds
<1>6. PositionOf(c)' /\ k.at \notin MonthPoints
  BY <1>2, <1>4, <1>5 DEF PositionOf, MonthPoints, FinalPoints
<1> QED
  BY <1>2, <1>3, <1>5, <1>6, EnterStep

LEMMA HearRefusalIInv ==
  ASSUME IInv, NEW c \in Callers, HearRefusal(c)
  PROVE  IInv'
<1>1. /\ call[c].at = "refused"
      /\ UNCHANGED <<run, row, late, loop, imports, drawn, alone, faults, restarts>>
  BY DEF HearRefusal, At, database, bounds
<1>2. /\ call' \in [Callers -> Calls] /\ call'[c].at = "idle"
      /\ \A d \in Callers \ {c} : call'[d] = call[d]
  BY QuietCall DEF HearRefusal, IInv, Types, Calls, Quiet
<1>3. Types'
  BY <1>1, <1>2 DEF IInv, Types, Calls
<1>4. \A d \in Callers : (Inside(d))' <=> Inside(d)
  BY <1>1, <1>2 DEF Inside
<1>5. InPlace'
  BY <1>1, <1>2, <1>4 DEF IInv, InPlace, Live, MonthPoints
<1>6. ASSUME alone' PROVE WhileAlone'
  <2>1. Exclusive'
    BY <1>1, <1>4, <1>6 DEF IInv, WhileAlone, Exclusive
  <2>2. \A d \in Callers : PositionOf(d)' /\ BookOf(d)'
    BY <1>1, <1>2, <1>6 DEF IInv, WhileAlone, PositionOf, BookOf, MonthPoints, FinalPoints
  <2>3. StatesCohere' /\ MonthsDecided' /\ DaysDrawn'
    BY <1>1, <1>2, <1>6 DEF IInv, WhileAlone, StatesCohere, MonthsDecided, DaysDrawn, Live, At
  <2> QED
    BY <2>1, <2>2, <2>3 DEF WhileAlone
<1>7. ASSUME Orderly' PROVE InOneProcess'
  <2>1. (Inside(Loop))' <=> Inside(Loop)
    BY <1>4 DEF Callers
  <2> QED
    BY <1>1, <1>2, <1>7, <2>1 DEF IInv, Orderly, InOneProcess, TurnsCount, SavedIsWritten, Live, At
<1> QED
  BY <1>3, <1>5, <1>6, <1>7 DEF IInv

LEMMA StartIInv ==
  ASSUME IInv, NEW reset \in BOOLEAN, NEW kind \in {"none", "request", "detached"},
         NEW mode \in {"strict", "homologation"}, Start(reset, kind, mode)
  PROVE  IInv'
<1> DEFINE state == FreshState(kind, mode)
           saved == [state EXCEPT !.status = "idle"]
<1>1. /\ state \in States /\ state.phase = "notes" /\ state.index = 0
      /\ state.status = IF kind = "detached" THEN "running" ELSE "idle"
  BY DEF FreshState, States
<1>2. saved \in States /\ saved.phase = "notes" /\ saved.index = 0
  BY DEF FreshState, States
<1>3. row' \in {row, saved} /\ faults' \in Nat /\ row = NoSave
  BY DEF Start, Save, IInv, Types
<1>4. /\ run' = [phase |-> "run", state |-> state, plan |-> TRUE, synced |-> FALSE,
                 book |-> OpeningBook(reset), kept |-> {}, skipped |-> {}]
      /\ loop' = [kind |-> kind, turns |-> 0]
      /\ Purge(reset) /\ ~Live
      /\ UNCHANGED <<late, call, drawn, alone, restarts>>
  BY DEF Start, Off
<1> HIDE DEF state, saved
<1>5. /\ run' \in Runs /\ run'.state = state /\ run'.plan = TRUE
      /\ run'.kept = {} /\ run'.skipped = {}
  BY <1>1, <1>4 DEF Runs, OpeningBook
<1>6. Live'
  BY <1>5 DEF Live, Runs, NoRun
<1>7. Types'
  <2>1. imports' \in [Months -> 0..2]
    BY <1>4 DEF Purge, IInv, Types
  <2> QED
    BY <1>2, <1>3, <1>4, <1>5, <2>1 DEF IInv, Types
<1>8. \A c \in Callers : ~(Inside(c))' /\ call'[c].at \notin {"report", "final_save"}
  BY <1>4 DEF IInv, InPlace, Inside
<1>9. InPlace'
  BY <1>4, <1>6 DEF IInv, InPlace
<1>10. ASSUME alone' PROVE WhileAlone'
  <2>1. Coherent(state) /\ Coherent(saved)
    BY <1>1, <1>2, MonthsAssumption DEF Coherent
  <2>2. StatesCohere'
    BY <1>2, <1>3, <1>4, <1>5, <1>10, <2>1 DEF IInv, WhileAlone, StatesCohere
  <2>3. MonthsDecided'
    BY <1>1, <1>5 DEF MonthsDecided, Months
  <2>4. DaysDrawn'
    BY <1>1, <1>2, <1>3, <1>5, <1>8 DEF DaysDrawn, At, NoSave
  <2>5. Exclusive' /\ \A c \in Callers : PositionOf(c)' /\ BookOf(c)'
    BY <1>8 DEF Exclusive, Inside, PositionOf, BookOf, MonthPoints, FinalPoints
  <2> QED
    BY <2>2, <2>3, <2>4, <2>5 DEF WhileAlone
<1>11. InOneProcess'
  <2>1. ~(Inside(Loop))'
    BY <1>8 DEF Callers
  <2>2. TurnsCount'
    BY <1>1, <1>4, <1>5, <2>1 DEF TurnsCount
  <2>3. SavedIsWritten'
    BY <1>2, <1>3, <1>8 DEF SavedIsWritten, At, NoSave
  <2> QED
    BY <1>5, <1>6, <2>2, <2>3 DEF InOneProcess
<1> QED
  BY <1>7, <1>9, <1>10, <1>11 DEF IInv

LEMMA StartFailsIInv ==
  ASSUME IInv, NEW reset \in BOOLEAN, StartFails(reset)
  PROVE  IInv'
<1>1. /\ ~Live /\ ~Live' /\ row = NoSave /\ faults' \in Nat
      /\ imports' \in [Months -> 0..2]
      /\ UNCHANGED <<run, row, late, call, loop, drawn, alone, restarts>>
  BY DEF StartFails, Purge, IInv, Types, Live
<1>2. Types' /\ InPlace'
  BY <1>1 DEF IInv, Types, InPlace, Inside
<1>3. ASSUME alone' PROVE WhileAlone'
  BY <1>1, <1>3 DEF IInv, WhileAlone, Exclusive, Inside, StatesCohere, MonthsDecided, DaysDrawn, At,
     PositionOf, BookOf, Live
<1>4. ASSUME Orderly' PROVE InOneProcess'
  <2>1. TurnsCount'
    BY <1>1 DEF TurnsCount
  <2>2. \A c \in Callers : call'[c].at # "final_save"
    BY <1>1 DEF IInv, InPlace, Inside
  <2>3. SavedIsWritten'
    BY <1>1, <2>2 DEF SavedIsWritten, At, NoSave
  <2> QED
    BY <1>1, <1>4, <2>1, <2>3 DEF IInv, InOneProcess, Orderly
<1> QED
  BY <1>2, <1>3, <1>4 DEF IInv

LEMMA LoopStopsIInv ==
  ASSUME IInv, LoopStops
  PROVE  IInv'
<1>1. /\ call[Loop].at = "idle" /\ loop.kind # "none" /\ loop' = [kind |-> "none", turns |-> 0]
      /\ run.state.phase = "done" \/ loop.turns = Last + Slack
      /\ UNCHANGED <<call, row, late, imports, drawn, alone, faults, restarts>>
  BY DEF LoopStops, At, Off, database, bounds
<1>2. Live /\ run \in Runs /\ run.state \in States
  BY <1>1 DEF IInv, InPlace, Off, Types, Live, Runs
<1>3. /\ run' \in Runs /\ run'.plan = run.plan /\ run'.book = run.book
      /\ run'.kept = run.kept /\ run'.skipped = run.skipped
      /\ run'.state.index = run.state.index /\ run'.state.phase = run.state.phase
      /\ \/ run'.state.status = run.state.status
            /\ ~(loop.kind = "detached" /\ run.state.status # "error")
         \/ /\ run'.state.status = IF run.state.phase = "done" THEN "done" ELSE "running"
            /\ run.state.status # "error"
  <2> DEFINE q == IF run.state.phase = "done" THEN "done" ELSE "running"
  <2>1. q \in {"done", "running"}
    OBVIOUS
  <2>2. run' = IF loop.kind = "detached" /\ run.state.status # "error"
               THEN [run EXCEPT !.state.status = q] ELSE run
    BY DEF LoopStops
  <2> HIDE DEF q
  <2>3. CASE loop.kind = "detached" /\ run.state.status # "error"
    <3>1. /\ run' \in Runs /\ run'.plan = run.plan /\ run'.book = run.book
          /\ run'.kept = run.kept /\ run'.skipped = run.skipped
          /\ run'.state.index = run.state.index /\ run'.state.phase = run.state.phase
          /\ run'.state.status = q
      BY <1>2, <2>1, <2>2, <2>3 DEF Runs, States
    <3> QED
      BY <2>3, <3>1 DEF q
  <2>4. CASE ~(loop.kind = "detached" /\ run.state.status # "error")
    BY <1>2, <2>2, <2>4
  <2> QED
    BY <2>3, <2>4
<1>4. Live'
  BY <1>3 DEF Live, Runs, NoRun
<1>5. Types' /\ InPlace'
  BY <1>1, <1>3, <1>4 DEF IInv, Types, InPlace
<1>6. ASSUME alone' PROVE WhileAlone'
  <2>1. \A c \in Callers : PositionOf(c)' /\ BookOf(c)'
    BY <1>1, <1>3, <1>6 DEF IInv, WhileAlone, PositionOf, BookOf
  <2>2. Exclusive' /\ StatesCohere'
    BY <1>1, <1>2, <1>3, <1>6 DEF IInv, WhileAlone, Exclusive, Inside, StatesCohere, Coherent
  <2>3. MonthsDecided'
    BY <1>1, <1>2, <1>3, <1>6 DEF IInv, WhileAlone, MonthsDecided, At
  <2>4. DaysDrawn'
    BY <1>1, <1>2, <1>3, <1>6 DEF IInv, WhileAlone, DaysDrawn, At
  <2> QED
    BY <2>1, <2>2, <2>3, <2>4 DEF WhileAlone
<1>7. ASSUME Orderly' PROVE InOneProcess'
  <2>1. alone /\ run.plan /\ TurnsCount /\ SavedIsWritten
    BY <1>1, <1>2, <1>7 DEF IInv, Orderly, InOneProcess
  <2>2. run.state.phase = "done"
    <3>1. ~Inside(Loop)
      BY <1>1 DEF Inside
    <3>2. loop.turns <= run.state.index \/ run.state.phase = "done"
      BY <1>1, <1>2, <2>1, <3>1 DEF TurnsCount
    <3>3. run.state.index <= Last /\ run.state.index \in Nat
      BY <1>2, <2>1 DEF IInv, WhileAlone, StatesCohere, Coherent, States
    <3> QED
      BY <1>1, <3>2, <3>3, MonthsAssumption
  <2>3. TurnsCount'
    BY <1>1, <1>2, <1>3, <2>1, <2>2 DEF TurnsCount
  <2>4. SavedIsWritten'
    BY <1>1, <1>3, <2>1 DEF SavedIsWritten, At
  <2> QED
    BY <1>3, <1>4, <2>1, <2>3, <2>4 DEF InOneProcess
<1> QED
  BY <1>5, <1>6, <1>7 DEF IInv

LEMMA RestoreIInv ==
  ASSUME IInv, Restore
  PROVE  IInv'
<1>1. /\ ~Live /\ row # NoSave /\ row \in States
      /\ run' = [phase |-> "run", state |-> row, plan |-> FALSE, synced |-> FALSE,
                 book |-> {}, kept |-> {}, skipped |-> {}]
      /\ UNCHANGED <<row, late, call, loop, imports, drawn, alone, faults, restarts>>
  BY DEF Restore, database, bounds, IInv, Types
<1>2. run' \in Runs /\ run'.state = row /\ run'.plan = FALSE /\ Live'
  BY <1>1 DEF Runs, Live, NoRun
<1>3. Types' /\ InPlace'
  BY <1>1, <1>2 DEF IInv, Types, InPlace
<1>4. \A c \in Callers : ~Inside(c)
  BY <1>1 DEF IInv, InPlace
<1>5. ASSUME alone' PROVE WhileAlone'
  <2>1. Exclusive' /\ \A c \in Callers : PositionOf(c)' /\ BookOf(c)'
    BY <1>1, <1>4 DEF Exclusive, Inside, PositionOf, BookOf, MonthPoints, FinalPoints
  <2>2. StatesCohere'
    BY <1>1, <1>2, <1>5 DEF IInv, WhileAlone, StatesCohere
  <2>3. MonthsDecided'
    BY <1>2 DEF MonthsDecided
  <2>4. \A c \in Callers : call'[c].at # "report"
    BY <1>1, <1>4 DEF Inside
  <2>5. DaysDrawn'
    BY <1>1, <1>2, <1>5, <2>4 DEF IInv, WhileAlone, DaysDrawn, At
  <2> QED
    BY <2>1, <2>2, <2>3, <2>5 DEF WhileAlone
<1>6. ~Orderly'
  BY <1>1 DEF Orderly, IInv, InOneProcess
<1> QED
  BY <1>3, <1>5, <1>6 DEF IInv

LEMMA RestartIInv ==
  ASSUME IInv, Restart
  PROVE  IInv'
<1>1. /\ run' = NoRun /\ ~Live' /\ loop' = Off
      /\ restarts' \in Nat /\ restarts' # 0
      /\ UNCHANGED <<row, late, imports, drawn, alone, faults>>
  BY DEF Restart, database, Live, IInv, Types
<1>2. call' \in [Callers -> Calls] /\ \A c \in Callers : call'[c].at = "idle"
  BY QuietCall DEF Restart, Quiet
<1>3. Types'
  BY <1>1, <1>2 DEF IInv, Types, Calls, Off
<1>4. InPlace'
  BY <1>1, <1>2 DEF InPlace, Inside, MonthPoints
<1>5. ASSUME alone' PROVE WhileAlone'
  BY <1>1, <1>2, <1>5 DEF IInv, WhileAlone, Exclusive, Inside, StatesCohere, MonthsDecided,
     DaysDrawn, At, PositionOf, BookOf, MonthPoints, FinalPoints
<1>6. ~Orderly'
  BY <1>1 DEF Orderly
<1> QED
  BY <1>3, <1>4, <1>5, <1>6 DEF IInv

LEMMA LandProgressIInv ==
  ASSUME IInv, LandProgress
  PROVE  IInv'
<1>1. /\ late # NoSave /\ late \in States /\ row' = late /\ late' = NoSave
      /\ UNCHANGED <<run, call, loop, imports, drawn, alone, faults, restarts>>
  BY DEF LandProgress, bounds, IInv, Types
<1>2. Types' /\ InPlace'
  BY <1>1 DEF IInv, Types, InPlace, Inside, Live
<1>3. ASSUME alone PROVE Coherent(late) /\ late.phase = "notes"
  BY <1>1, <1>3 DEF IInv, WhileAlone, StatesCohere
<1>4. ASSUME alone' PROVE WhileAlone'
  <2>1. Exclusive' /\ \A c \in Callers : PositionOf(c)' /\ BookOf(c)'
    BY <1>1, <1>4 DEF IInv, WhileAlone, Exclusive, Inside, PositionOf, BookOf
  <2>2. StatesCohere'
    BY <1>1, <1>3, <1>4 DEF IInv, WhileAlone, StatesCohere, Live
  <2>3. MonthsDecided'
    BY <1>1, <1>4 DEF IInv, WhileAlone, MonthsDecided, At, Live
  <2>4. DaysDrawn'
    BY <1>1, <1>3, <1>4 DEF IInv, WhileAlone, DaysDrawn, At, Live
  <2> QED
    BY <2>1, <2>2, <2>3, <2>4 DEF WhileAlone
<1>5. ASSUME Orderly' PROVE InOneProcess'
  <2>1. Orderly /\ alone /\ InOneProcess
    BY <1>1, <1>5 DEF Orderly, IInv
  <2>2. TurnsCount'
    BY <1>1, <2>1 DEF InOneProcess, TurnsCount, Live, Inside
  <2>3. SavedIsWritten'
    BY <1>1, <1>3, <2>1 DEF InOneProcess, SavedIsWritten, At
  <2> QED
    BY <1>1, <2>1, <2>2, <2>3 DEF InOneProcess, Live
<1> QED
  BY <1>2, <1>4, <1>5 DEF IInv

LEMMA StutterIInv ==
  ASSUME IInv, UNCHANGED vars
  PROVE  IInv'
<1>1. UNCHANGED <<run, row, late, call, loop, imports, drawn, alone, faults, restarts>>
  BY DEF vars
<1>2. Types' /\ InPlace'
  BY <1>1 DEF IInv, Types, InPlace, Inside, Live
<1>3. ASSUME alone' PROVE WhileAlone'
  <2>1. Exclusive' /\ \A c \in Callers : PositionOf(c)' /\ BookOf(c)'
    BY <1>1, <1>3 DEF IInv, WhileAlone, Exclusive, Inside, PositionOf, BookOf
  <2>2. StatesCohere' /\ MonthsDecided' /\ DaysDrawn'
    BY <1>1, <1>3 DEF IInv, WhileAlone, StatesCohere, MonthsDecided, DaysDrawn, At, Live
  <2> QED
    BY <2>1, <2>2 DEF WhileAlone
<1>4. ASSUME Orderly' PROVE InOneProcess'
  BY <1>1, <1>4 DEF IInv, Orderly, InOneProcess, TurnsCount, SavedIsWritten, Live, Inside, At
<1> QED
  BY <1>2, <1>3, <1>4 DEF IInv

LEMMA InitIInv == Init => IInv
<1> SUFFICES ASSUME Init PROVE IInv
  OBVIOUS
<1>1. call \in [Callers -> Calls] /\ \A c \in Callers : call[c].at = "idle"
  BY QuietCall DEF Init, Quiet
<1>2. imports \in [Months -> 0..2]
  BY DEF Init
<1>3. Types
  BY <1>1, <1>2 DEF Init, Types, Calls, Off
<1>4. ~Live /\ InPlace
  BY <1>1 DEF Init, InPlace, Live, Inside, MonthPoints
<1>5. WhileAlone
  BY <1>1, <1>4 DEF Init, WhileAlone, Exclusive, Inside, StatesCohere, MonthsDecided,
     DaysDrawn, At, PositionOf, BookOf, MonthPoints, FinalPoints, NoSave, NoRun
<1>6. InOneProcess
  BY <1>1, <1>4 DEF Init, InOneProcess, TurnsCount, SavedIsWritten, At, NoSave
<1> QED
  BY <1>3, <1>4, <1>5, <1>6 DEF IInv

LEMMA NextIInv == IInv /\ [Next]_vars => IInv'
<1> SUFFICES ASSUME IInv, [Next]_vars PROVE IInv'
  OBVIOUS
<1>1. ASSUME NEW c \in Callers, Work(c) PROVE IInv'
  BY <1>1, OpenMonthIInv, SyncQuotesIInv, ReconcileCustodyIInv, ImportBlockedIInv, ImportAppliedIInv,
     ImportThrowsIInv, FoldMonthIInv, DrawMonthIInv, CloseMonthIInv, OpenFinalIInv, DrawAllIInv,
     AllDrawnIInv, ReportIInv, FinishIInv, StepThrowsIInv DEF Work
<1>2. ASSUME NEW c \in Callers, Refuse(c) \/ HearRefusal(c) \/ SaveProgress(c) PROVE IInv'
  BY <1>2, RefuseIInv, HearRefusalIInv, SaveProgressIInv
<1>3. ASSUME NEW reset \in BOOLEAN, NEW kind \in {"none", "request", "detached"},
             NEW mode \in {"strict", "homologation"}, Start(reset, kind, mode)
      PROVE  IInv'
  BY <1>3, StartIInv
<1>4. ASSUME NEW reset \in BOOLEAN, StartFails(reset) PROVE IInv'
  BY <1>4, StartFailsIInv
<1> QED
  BY <1>1, <1>2, <1>3, <1>4, LandProgressIInv, LoopStopsIInv, RestoreIInv, RestartIInv, StutterIInv
  DEF Next

(* Every state of closeNextDay and of the loop of run-all is one of those    *)
(* IInv describes, whoever calls, whatever fails and however often.         *)
THEOREM Invariance == Spec => []IInv
BY InitIInv, NextIInv, PTL DEF Spec
-----------------------------------------------------------------------------
LEMMA FollowsDoneMeansWritten == IInv => DoneMeansWritten
<1> SUFFICES ASSUME IInv, Orderly PROVE DoneMeansWritten
  BY DEF DoneMeansWritten
<1>1. WhileAlone /\ InOneProcess
  BY DEF IInv, Orderly
<1>2. ASSUME Live, run.state.phase = "done"
      PROVE  \A m \in Months : imports[m] > 0 \/ m \in run.skipped
  <2>1. run.state.index = Last /\ run.plan
    BY <1>1, <1>2, MonthsAssumption DEF WhileAlone, StatesCohere, Coherent, InOneProcess, IInv, Types,
       Live, Runs, States
  <2>2. \A m \in Months : m <= Last
    BY DEF Months
  <2> QED
    BY <1>1, <1>2, <2>1, <2>2 DEF WhileAlone, MonthsDecided
<1> QED
  BY <1>1, <1>2 DEF DoneMeansWritten, InOneProcess, SavedIsWritten

(* A month missing from the ledger of a run that is done is one the run     *)
(* knows it skipped, and a row that says done has every month written:      *)
(* closeNextMonth leaves no month undecided, finalizeRun reads the skips.   *)
THEOREM RunsLeaveNoMonthOut == Spec => []DoneMeansWritten
BY Invariance, FollowsDoneMeansWritten, PTL

(* The patrimony rows of a run that is done are those of the last rebuild:  *)
(* finalizeRun closes the run only after rebuildPatrimonySnapshots.         *)
THEOREM DoneRunsAreDrawn == Spec => []DoneMeansDrawn
<1>1. IInv => DoneMeansDrawn
  BY DEF IInv, WhileAlone, DaysDrawn, DoneMeansDrawn
<1> QED
  BY <1>1, Invariance, PTL

(* buildMonthReconcileLedger leaves in the simulated book the months kept   *)
(* so far and none that follows, whatever was thrown and tried again.       *)
THEOREM BooksEndInOrder == Spec => []BookEndsAtLastKept
<1>1. IInv => BookEndsAtLastKept
  <2> SUFFICES ASSUME IInv, Orderly, Live, NEW c \in Callers, At(c, "draw")
               PROVE  /\ call[c].month \in run.book /\ run.kept \subseteq run.book
                      /\ \A m \in run.book : m <= call[c].month
    BY DEF BookEndsAtLastKept
  <2>1. WhileAlone /\ run.plan
    BY DEF IInv, Orderly, InOneProcess
  <2>2. \A d \in Callers : call[d].at # "fold"
    BY NobodyElse DEF At, Orderly, Inside
  <2>3. run.kept \subseteq run.book
    BY <2>1, <2>2 DEF WhileAlone, MonthsDecided, At
  <2>4. call[c].month \in run.kept
    BY <2>1 DEF WhileAlone, PositionOf, At
  <2> QED
    BY <2>1, <2>3, <2>4 DEF WhileAlone, BookOf, At
<1> QED
  BY <1>1, Invariance, PTL

(* runAllInBackground never ends with its run still "running": every way    *)
(* out of the loop writes a verdict, and its turns suffice for the months.  *)
THEOREM LoopsLeaveAVerdict == Spec => []LoopLeavesVerdict
<1>1. IInv => LoopLeavesVerdict
  BY DEF IInv, LoopLeavesVerdict, InOneProcess, TurnsCount
<1> QED
  BY <1>1, Invariance, PTL
-----------------------------------------------------------------------------
(* What the schedule sees of the run: its position, the months kept and     *)
(* skipped and whether it is done.                                          *)
SamePosition ==
  /\ run' \in Runs /\ run'.kept = run.kept /\ run'.skipped = run.skipped
  /\ run'.state.index = run.state.index /\ run'.state.phase = run.state.phase

LEMMA PositionUnseen ==
  ASSUME Live, SamePosition, Orderly' <=> Orderly
  PROVE  UNCHANGED Schedule!schedule
<1>1. Live'
  BY DEF SamePosition, Live, Runs, NoRun
<1> QED
  BY <1>1 DEF Schedule!schedule, SamePosition, Orderly

LEMMA WorkStaysPut ==
  ASSUME IInv, NEW c \in Callers,
         \/ SyncQuotes(c) \/ ReconcileCustody(c) \/ ImportThrows(c) \/ FoldMonth(c)
         \/ DrawMonth(c) \/ DrawAll(c) \/ AllDrawn(c) \/ Finish(c) \/ StepThrows(c)
         \/ SaveProgress(c) \/ OpenMonth(c) \/ OpenFinal(c) \/ Refuse(c)
  PROVE  Live /\ SamePosition
<1>1. Live /\ run \in Runs
  <2>1. CASE OpenMonth(c) \/ OpenFinal(c) \/ Refuse(c)
    BY <2>1 DEF OpenMonth, OpenFinal, Refuse, Enter, MayCall, Live, IInv, Types
  <2>2. CASE ~(OpenMonth(c) \/ OpenFinal(c) \/ Refuse(c))
    BY <2>2, InsideRun DEF SyncQuotes, ReconcileCustody, ImportThrows, FoldMonth, DrawMonth,
       DrawAll, AllDrawn, Finish, StepThrows, SaveProgress, At, Inside
  <2> QED
    BY <2>1, <2>2
<1>2. CASE run' = run
  BY <1>1, <1>2 DEF SamePosition
<1>3. CASE SyncQuotes(c)
  BY <1>1, <1>3 DEF SyncQuotes, Runs, SamePosition
<1>4. CASE FoldMonth(c)
  <2>1. Folded(call[c].month, call[c].base) \subseteq Months
    BY <1>4 DEF FoldMonth, At, Folded, IInv, Types, InPlace, MonthPoints
  <2> QED
    BY <1>1, <1>4, <2>1 DEF FoldMonth, Runs, SamePosition
<1>5. CASE AllDrawn(c)
  BY <1>1, <1>5, MonthsAssumption DEF AllDrawn, Runs, States, SamePosition
<1>6. CASE Finish(c)
  BY <1>1, <1>6, AnswerOf DEF Finish, IInv, SamePosition
<1>7. CASE ImportThrows(c) \/ StepThrows(c)
  <2>1. Throw(c, run)
    BY <1>7 DEF ImportThrows, StepThrows
  <2> QED
    BY <1>1, <2>1 DEF Throw, Runs, States, SamePosition
<1> QED
  BY <1>1, <1>2, <1>3, <1>4, <1>5, <1>6, <1>7
  DEF ReconcileCustody, DrawMonth, DrawAll, SaveProgress, OpenMonth, OpenFinal, Refuse

LEMMA LoopStopsInPlace ==
  ASSUME IInv, LoopStops
  PROVE  Live /\ SamePosition
<1>1. Live /\ run \in Runs
  BY DEF LoopStops, IInv, InPlace, Off, Types, Live
<1> DEFINE q == IF run.state.phase = "done" THEN "done" ELSE "running"
<1>2. q \in {"done", "running"}
  OBVIOUS
<1>3. run' = IF loop.kind = "detached" /\ run.state.status # "error"
             THEN [run EXCEPT !.state.status = q] ELSE run
  BY DEF LoopStops
<1> HIDE DEF q
<1> QED
  BY <1>1, <1>2, <1>3 DEF Runs, States, SamePosition

(* A month that is imported, blocked or closed, and the end, are the steps  *)
(* of the schedule.                                                         *)
LEMMA AppliedKeeps ==
  ASSUME IInv, Orderly, NEW c \in Callers, NEW wrong \in SUBSET Flaws, ImportApplied(c, wrong)
  PROVE  Schedule!Step
<1>1. Inside(c) /\ run \in Runs /\ Live /\ call[c].at = "import" /\ alone
  BY InsideRun DEF Inside, ImportApplied, At, Orderly
<1>2. /\ run.state.phase = "notes" /\ call[c].month = run.state.index + 1 /\ Coherent(run.state)
      /\ call[c].month \in Months
  BY <1>1 DEF IInv, InPlace, WhileAlone, StatesCohere, PositionOf, MonthPoints
<1>3. /\ run' \in Runs /\ run'.state = run.state /\ run'.skipped = run.skipped
      /\ run'.kept = run.kept \cup {run.state.index + 1}
  BY <1>1, <1>2 DEF ImportApplied, Runs
<1>4. Live' /\ Orderly'
  BY <1>1, <1>3 DEF ImportApplied, bounds, Live, Runs, NoRun, Orderly
<1>5. Schedule!Keep
  BY <1>1, <1>2, <1>3, <1>4 DEF Schedule!Keep, Coherent
<1> QED
  BY <1>4, <1>5 DEF Schedule!Step, Orderly

LEMMA BlockedSkips ==
  ASSUME IInv, Orderly, NEW c \in Callers, ImportBlocked(c)
  PROVE  Schedule!Step
<1>1. Inside(c) /\ run \in Runs /\ Live /\ call[c].at = "import" /\ alone
  BY InsideRun DEF Inside, ImportBlocked, At, Orderly
<1>2. /\ run.state.phase = "notes" /\ call[c].month = run.state.index + 1 /\ Coherent(run.state)
  BY <1>1 DEF IInv, WhileAlone, StatesCohere, PositionOf, MonthPoints
<1>3. PICK r \in Runs, answer \in {"closed", "blocked"} :
        LeavesBehind(c, r, answer) /\ r.skipped = run.skipped \cup {call[c].month}
  BY BlockedRun
<1>4. /\ run' \in Runs /\ run'.kept = run.kept
      /\ run'.skipped = run.skipped \cup {run.state.index + 1}
      /\ run'.state.phase # "done"
      /\ run'.state.index \in {run.state.index, run.state.index + 1}
  BY <1>2, <1>3, AnswerOf DEF IInv, LeavesBehind
<1>5. Live' /\ Orderly'
  BY <1>1, <1>4 DEF ImportBlocked, bounds, Live, Runs, NoRun, Orderly
<1>6. Schedule!Skip
  BY <1>1, <1>2, <1>4, <1>5 DEF Schedule!Skip, Coherent
<1> QED
  BY <1>5, <1>6 DEF Schedule!Step, Orderly

LEMMA CloseAdvances ==
  ASSUME IInv, Orderly, NEW c \in Callers, CloseMonth(c)
  PROVE  Schedule!Step
<1>1. Inside(c) /\ run \in Runs /\ Live /\ call[c].at = "drawing" /\ alone
  BY InsideRun DEF Inside, CloseMonth, At, Orderly
<1>2. /\ run.state.phase = "notes" /\ call[c].month = run.state.index + 1
      /\ call[c].month \in run.kept
  BY <1>1 DEF IInv, WhileAlone, PositionOf, MonthPoints
<1>3. PICK r \in Runs : LeavesBehind(c, r, "closed") /\ r.skipped = run.skipped
  BY ClosedRun
<1>4. /\ run' \in Runs /\ run'.kept = run.kept /\ run'.skipped = run.skipped
      /\ run'.state.phase # "done" /\ run'.state.index = run.state.index + 1
  BY <1>2, <1>3, AnswerOf DEF IInv, LeavesBehind
<1>5. Live' /\ Orderly'
  BY <1>1, <1>4 DEF CloseMonth, bounds, Live, Runs, NoRun, Orderly
<1>6. Schedule!Advance
  BY <1>1, <1>2, <1>4, <1>5 DEF Schedule!Advance
<1> QED
  BY <1>5, <1>6 DEF Schedule!Step, Orderly

LEMMA ReportCloses ==
  ASSUME IInv, Orderly, NEW c \in Callers, Report(c)
  PROVE  Schedule!Step
<1>1. Inside(c) /\ run \in Runs /\ Live /\ call[c].at = "report" /\ alone
  BY InsideRun DEF Inside, Report, At, Orderly
<1>2. run.state.index = Last
  BY <1>1, MonthsAssumption DEF IInv, WhileAlone, StatesCohere, Coherent, PositionOf, FinalPoints,
     Runs, States
<1>3. /\ run' \in Runs /\ run'.kept = run.kept /\ run'.skipped = run.skipped
      /\ run'.state.phase = "done" /\ run'.state.index = run.state.index
  BY <1>1 DEF Report, Runs, States
<1>4. Live' /\ Orderly'
  BY <1>1, <1>3 DEF Report, bounds, Live, Runs, NoRun, Orderly
<1>5. Schedule!Close
  BY <1>1, <1>2, <1>3, <1>4 DEF Schedule!Close
<1> QED
  BY <1>4, <1>5 DEF Schedule!Step, Orderly

LEMMA OrderlyBefore ==
  ASSUME IInv, [Next]_vars, Orderly'
  PROVE  Orderly
<1>1. CASE UNCHANGED vars
  BY <1>1 DEF vars, Orderly
<1>2. CASE Next
  <2>1. CASE Restart
    BY <2>1 DEF Restart, Orderly, IInv, Types
  <2>2. ASSUME NEW c \in Callers, OpenMonth(c) \/ OpenFinal(c) \/ Refuse(c)
        PROVE  (alone' => alone) /\ restarts' = restarts
    BY <2>2 DEF OpenMonth, OpenFinal, Refuse, Enter, bounds
  <2>3. ASSUME NEW c \in Callers,
               \/ SyncQuotes(c) \/ ReconcileCustody(c) \/ ImportBlocked(c) \/ ImportThrows(c)
               \/ FoldMonth(c) \/ DrawMonth(c) \/ CloseMonth(c) \/ StepThrows(c)
        PROVE  alone' = alone /\ restarts' = restarts
    BY <2>3 DEF SyncQuotes, ReconcileCustody, ImportBlocked, ImportThrows, FoldMonth, DrawMonth,
       CloseMonth, StepThrows, bounds
  <2>4. ASSUME NEW c \in Callers,
               \/ \E wrong \in SUBSET Flaws : ImportApplied(c, wrong)
               \/ DrawAll(c) \/ AllDrawn(c) \/ Report(c) \/ Finish(c)
               \/ HearRefusal(c) \/ SaveProgress(c)
        PROVE  alone' = alone /\ restarts' = restarts
    BY <2>4 DEF ImportApplied, DrawAll, AllDrawn, Report, Finish, HearRefusal, SaveProgress, bounds
  <2>5. ASSUME \/ \E reset \in BOOLEAN :
                    \/ \E kind \in {"none", "request", "detached"},
                         mode \in {"strict", "homologation"} : Start(reset, kind, mode)
                    \/ StartFails(reset)
               \/ LandProgress \/ LoopStops \/ Restore
        PROVE  alone' = alone /\ restarts' = restarts
    BY <2>5 DEF Start, StartFails, LandProgress, LoopStops, Restore, bounds
  <2> QED
    BY <1>2, <2>1, <2>2, <2>3, <2>4, <2>5 DEF Next, Work, Orderly
<1> QED
  BY <1>1, <1>2

LEMMA StepsAreScheduled == IInv /\ [Next]_vars => [Schedule!Step]_(Schedule!schedule)
<1> SUFFICES ASSUME IInv, [Next]_vars PROVE [Schedule!Step]_(Schedule!schedule)
  OBVIOUS
<1>1. CASE ~Orderly'
  BY <1>1 DEF Schedule!Step, Orderly
<1> SUFFICES ASSUME Orderly' PROVE [Schedule!Step]_(Schedule!schedule)
  BY <1>1
<1>2. Orderly
  BY OrderlyBefore
<1>3. ASSUME NEW c \in Callers, Work(c) \/ Refuse(c) \/ SaveProgress(c)
      PROVE  [Schedule!Step]_(Schedule!schedule)
  BY <1>2, <1>3, WorkStaysPut, PositionUnseen, AppliedKeeps, BlockedSkips, CloseAdvances, ReportCloses
  DEF Work
<1>4. CASE UNCHANGED run
  BY <1>2, <1>4 DEF Schedule!schedule, Live, Orderly
<1>5. ASSUME NEW reset \in BOOLEAN, NEW kind \in {"none", "request", "detached"},
             NEW mode \in {"strict", "homologation"}, Start(reset, kind, mode)
      PROVE  UNCHANGED Schedule!schedule
  <2>1. /\ ~Live /\ Live' /\ run'.kept = {} /\ run'.skipped = {}
        /\ run'.state.index = 0 /\ run'.state.phase = "notes"
    BY <1>5 DEF Start, FreshState, Live, NoRun
  <2> QED
    BY <1>2, <2>1 DEF Schedule!schedule, Orderly
<1>6. CASE LoopStops
  BY <1>2, <1>6, LoopStopsInPlace, PositionUnseen
<1>7. CASE Restore
  BY <1>2, <1>7 DEF Restore, IInv, InOneProcess
<1>8. CASE Restart
  BY <1>8 DEF Restart, Orderly, IInv, Types
<1> QED
  BY <1>3, <1>4, <1>5, <1>6, <1>7, <1>8 DEF Next, HearRefusal, StartFails, LandProgress, vars

(* The loop and the clients of closeNextDay follow the schedule: in order,  *)
(* no month left behind, nothing closed early, for any calendar.            *)
THEOREM CloseFollowsSchedule == Spec => FollowsSchedule
<1>1. Init => Schedule!Begin
  BY DEF Init, Schedule!Begin, Live
<1> QED
  BY <1>1, Invariance, StepsAreScheduled, PTL DEF Spec, FollowsSchedule, Schedule!Schedule
-----------------------------------------------------------------------------
(* What the schedule gives to whoever relies on it: the position is a count *)
(* of months, all of them decided; only months of the calendar are kept, so *)
(* that no advance leaves it, and only a run at its end is closed.          *)
Decided(index, kept, skipped, closed) ==
  /\ index \in Nat
  /\ kept \subseteq Months
  /\ 1..index \subseteq kept \cup skipped
  /\ closed = TRUE => index = Last

ScheduleInv ==
  Orderly => Decided(IF Live THEN run.state.index ELSE 0, IF Live THEN run.kept ELSE {},
                     IF Live THEN run.skipped ELSE {}, Live /\ run.state.phase = "done")

(* No operation takes a decision back, and the two that move the position   *)
(* move it over a month they decided or found kept.                         *)
LEMMA ScheduleStep == ASSUME ScheduleInv, [Schedule!Step]_(Schedule!schedule) PROVE ScheduleInv'
<1>0. /\ Orderly \in BOOLEAN
      /\ (Live /\ run.state.phase = "done") \in BOOLEAN
      /\ Last \in Nat
  BY MonthsAssumption DEF Orderly
<1>1. PICK index, kept, skipped, closed :
        /\ index = IF Live THEN run.state.index ELSE 0
        /\ kept = IF Live THEN run.kept ELSE {}
        /\ skipped = IF Live THEN run.skipped ELSE {}
        /\ closed = (Live /\ run.state.phase = "done")
  OBVIOUS
<1>2. PICK index1, kept1, skipped1, closed1 :
        /\ index1 = (IF Live THEN run.state.index ELSE 0)'
        /\ kept1 = (IF Live THEN run.kept ELSE {})'
        /\ skipped1 = (IF Live THEN run.skipped ELSE {})'
        /\ closed1 = (Live /\ run.state.phase = "done")'
  OBVIOUS
<1>3. ASSUME Orderly', Orderly, Decided(index, kept, skipped, closed)
      PROVE  Decided(index1, kept1, skipped1, closed1)
  <2>1. CASE UNCHANGED Schedule!schedule
    BY <1>1, <1>2, <1>3, <2>1 DEF Schedule!schedule
  <2>2. CASE Schedule!Keep
    <3>1. index < Last /\ kept1 = kept \cup {index + 1} /\ index1 = index /\ skipped1 = skipped
          /\ closed1 = closed
      BY <1>1, <1>2, <2>2 DEF Schedule!Keep
    <3> QED
      BY <1>0, <1>3, <3>1 DEF Decided, Months
  <2>3. CASE Schedule!Skip
    <3>1. /\ index < Last /\ skipped1 = skipped \cup {index + 1} /\ index1 \in {index, index + 1}
          /\ kept1 = kept /\ closed1 = closed
      BY <1>1, <1>2, <2>3 DEF Schedule!Skip
    <3>2. index1 \in Nat /\ 1..index1 \subseteq (1..index) \cup {index + 1}
      BY <1>3, <3>1 DEF Decided
    <3> QED
      BY <1>0, <1>3, <3>1, <3>2 DEF Decided, Months
  <2>4. CASE Schedule!Advance
    <3>1. /\ index + 1 \in kept /\ index1 = index + 1 /\ kept1 = kept /\ skipped1 = skipped
          /\ closed1 = closed
      BY <1>1, <1>2, <2>4 DEF Schedule!Advance
    <3>2. index1 \in Nat /\ index1 <= Last /\ 1..index1 \subseteq (1..index) \cup {index + 1}
      BY <1>0, <1>3, <3>1 DEF Decided, Months
    <3> QED
      BY <1>0, <1>3, <3>1, <3>2 DEF Decided, Months
  <2>5. CASE Schedule!Close
    <3>1. index = Last /\ kept1 = kept /\ index1 = index /\ skipped1 = skipped
      BY <1>1, <1>2, <2>5 DEF Schedule!Close
    <3> QED
      BY <1>0, <1>3, <3>1 DEF Decided, Months
  <2>6. ASSUME ~(alone /\ restarts = 0)' PROVE FALSE
    BY <1>3, <2>6 DEF Orderly
  <2> QED
    BY <2>1, <2>2, <2>3, <2>4, <2>5, <2>6 DEF Schedule!Step
<1>4. Orderly' => Orderly
  BY DEF Schedule!Step, Schedule!schedule, Orderly
<1> QED
  BY <1>1, <1>2, <1>3, <1>4 DEF ScheduleInv

(* From the schedule alone: while one caller at a time drives the run in    *)
(* one process, no month behind its position is undecided, and a closed run *)
(* has decided the calendar.                                                *)
THEOREM ScheduleLeavesNothingBehind == Schedule!Schedule => []Schedule!NothingLeftBehind
<1>1. Schedule!Begin => ScheduleInv
  BY MonthsAssumption DEF Schedule!Begin, ScheduleInv, Decided, Orderly, Months
<1>2. ScheduleInv /\ [Schedule!Step]_(Schedule!schedule) => ScheduleInv'
  BY ScheduleStep
<1>3. ScheduleInv => Schedule!NothingLeftBehind
  BY DEF ScheduleInv, Decided, Schedule!NothingLeftBehind, Orderly, Months, Schedule!Months
<1> QED
  BY <1>1, <1>2, <1>3, PTL DEF Schedule!Schedule

(* So the loop over closeNextMonth passes no month that it neither imported *)
(* nor skipped.                                                             *)
THEOREM NoMonthLeftBehind == Spec => []Schedule!NothingLeftBehind
BY CloseFollowsSchedule, ScheduleLeavesNothingBehind, PTL DEF FollowsSchedule
=============================================================================
