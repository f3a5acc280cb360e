---------------------------- MODULE MonthlyClose ----------------------------
(***************************************************************************)
(* Option C: the server closes a calendar of months one after the other.   *)
(* A run lives in a Map of the process (run); invest_reconcile_runs keeps  *)
(* a best-effort copy of its state (row) without the files, so a process   *)
(* that restarts can show a run but not go on with it.  The background     *)
(* loop of run-all and the next-day requests of clients call closeNextDay, *)
(* which holds no lock: every await is the end of an action here.          *)
(***************************************************************************)
EXTENDS Naturals, FiniteSets

CONSTANTS
  Last,          (* the months of the calendar are 1..Last                 *)
  Users,         (* clients that send next-day requests                    *)
  Loop,          (* the loop of run-all                                    *)
  Slack,         (* turns the loop has beyond the months (10 in the code)  *)
  Flaws,         (* what may be wrong with a month that counts as imported *)
  MaxTroubles    (* bound: awaited calls or saves that fail, and restarts  *)

ASSUME MonthsAssumption == Last \in Nat \ {0} /\ Slack \in Nat \ {0}
ASSUME CallersAssumption == Loop \notin Users /\ IsFiniteSet(Users)
ASSUME FlawsAssumption == Flaws \subseteq {"notes", "cash"}
ASSUME BoundAssumption == MaxTroubles \in Nat

VARIABLES
  run,           (* runsById.get(runId)                                    *)
  row,           (* its row in invest_reconcile_runs                       *)
  late,          (* an upsert nobody waited for, on its way                *)
  call,          (* per caller: where closeNextDay is                      *)
  loop,          (* how run-all was asked for, and the turns it has taken  *)
  imports,       (* times the extract of each month was written, up to 2   *)
  noted,         (* months all of whose notes are in the ledger            *)
  gaps,          (* months whose persisted cash does not match the extract *)
  drawn,         (* months whose patrimony rows are those of a rebuild     *)
  alone,         (* no two calls have been inside the run at one time      *)
  faults, restarts

vars == <<run, row, late, call, loop, imports, noted, gaps, drawn, alone, faults, restarts>>
database == <<row, late, imports, noted, gaps, drawn>>
bounds == <<faults, restarts>>

Months == 1..Last
Callers == Users \cup {Loop}

NoRun == [phase |-> "none"]
NoSave == [phase |-> "none"]
Off == [kind |-> "none", turns |-> 0]

Status == {"idle", "running", "done", "error"}
Snapshot == [phase : {"notes", "extracts", "done"}, index : 0..(Last + Cardinality(Callers)),
             status : Status, mode : {"strict", "homologation"}, horizon : 0..Last]

Points == {"idle", "quotes", "custody", "import", "fold", "draw", "drawing",
           "final_quotes", "final_draw", "final_drawing", "report", "final_save", "refused"}

TypeOK ==
  /\ \/ run = NoRun
     \/ /\ run.state \in Snapshot
        /\ run.plan \in BOOLEAN /\ run.synced \in BOOLEAN
        /\ run.book \subseteq Months /\ run.kept \subseteq Months /\ run.skipped \subseteq Months
  /\ row \in Snapshot \cup {NoSave} /\ late \in Snapshot \cup {NoSave}
  /\ call \in [Callers -> [at : Points, month : 0..Last, base : SUBSET Months]]
  /\ loop \in [kind : {"none", "request", "detached"}, turns : 0..(Last + Slack)]
  /\ imports \in [Months -> 0..2]
  /\ noted \subseteq Months /\ gaps \subseteq Months /\ drawn \subseteq Months /\ alone \in BOOLEAN
  /\ faults \in 0..MaxTroubles /\ restarts \in 0..MaxTroubles

Quiet == [at |-> "idle", month |-> 0, base |-> {}]

\* Before the first start the book is empty or holds every month already.
Init ==
  /\ run = NoRun /\ row = NoSave /\ late = NoSave
  /\ call = [c \in Callers |-> Quiet]
  /\ loop = Off
  /\ imports \in {[m \in Months |-> n] : n \in {0, 1}}
  /\ noted = {m \in Months : imports[m] > 0}
  /\ gaps = {} /\ drawn = {} /\ alone = TRUE
  /\ faults = 0 /\ restarts = 0

Live == run # NoRun
At(c, point) == call[c].at = point
Move(c, point) == call' = [call EXCEPT ![c].at = point]

\* upsert under try/catch: the row follows the run, or the write fails and
\* nobody hears of it.
Save(state) ==
  \/ row' = state /\ UNCHANGED faults
  \/ row' = row /\ faults + restarts < MaxTroubles /\ faults' = faults + 1

(***************************************************************************)
(* Starting a run.                                                         *)
(***************************************************************************)

\* filterLedgerOpeningOnly after a purge, the whole ledger otherwise.
OpeningBook(reset) == IF reset THEN {} ELSE {m \in Months : imports[m] > 0}

Purge(reset) ==
  /\ imports' = IF reset THEN [m \in Months |-> 0] ELSE imports
  /\ noted' = IF reset THEN {} ELSE noted

FreshState(kind, mode) ==
  [phase |-> "notes", index |-> 0, status |-> IF kind = "detached" THEN "running" ELSE "idle",
   mode |-> mode, horizon |-> 0]

\* start: the purge, the home broker, the plan, the session; the run enters
\* the Map and is saved.  run-all goes on with the loop, start leaves the
\* months to next-day requests.
Start(reset, kind, mode) ==
  LET state == FreshState(kind, mode) IN
  /\ ~Live /\ row = NoSave /\ loop = Off
  /\ run' = [phase |-> "run", state |-> state, plan |-> TRUE, synced |-> FALSE,
             book |-> OpeningBook(reset), kept |-> {}, skipped |-> {}]
  /\ Purge(reset)
  /\ Save([state EXCEPT !.status = "idle"])
  /\ loop' = [Off EXCEPT !.kind = kind]
  /\ UNCHANGED <<late, call, gaps, drawn, alone, restarts>>

\* The purge is not undone when a later step of start throws.
StartFails(reset) ==
  /\ ~Live /\ row = NoSave /\ loop = Off /\ faults + restarts < MaxTroubles
  /\ faults' = faults + 1
  /\ Purge(reset)
  /\ UNCHANGED <<run, row, late, call, loop, gaps, drawn, alone, restarts>>

(***************************************************************************)
(* Entering and leaving closeNextDay.                                      *)
(***************************************************************************)

\* Mutation: a run in error is never gone on with.
X_MayCall(c) == At(c, "idle") /\ Live /\ run.state.status # "error"

MayCall(c) == At(c, "idle") /\ Live /\ (c = Loop => loop.kind # "none" /\ loop.turns < Last + Slack)

Inside(c) == call[c].at \notin {"idle", "refused"}

\* A call that begins takes the loop's next turn.
Enter(c) ==
  /\ MayCall(c)
  /\ loop' = IF c = Loop THEN [loop EXCEPT !.turns = @ + 1] ELSE loop
  /\ alone' = (alone /\ \A d \in Callers \ {c} : ~Inside(d))

\* What run-all in the background writes over the state after each answer.
Overwritten(state, answer) ==
  [state EXCEPT !.status =
     IF answer = "blocked" /\ state.mode = "strict" THEN "error"
     ELSE IF state.phase = "done" THEN "done" ELSE "running"]

LoopEnds(state, answer) == \/ answer = "done"
                           \/ answer = "blocked" /\ state.mode = "strict"

\* The answer reaches a client, or the loop, which decides at once whether
\* to go on.
Return(c, r, answer) ==
  /\ call' = [call EXCEPT ![c] = Quiet]
  /\ run' = IF c = Loop /\ loop.kind = "detached"
            THEN [r EXCEPT !.state = Overwritten(@, answer)] ELSE r
  /\ loop' = IF c = Loop /\ LoopEnds(r.state, answer) THEN Off ELSE loop

\* Mutation: nothing tells the run that its loop died.
X_Throw(c, r) ==
  /\ faults + restarts < MaxTroubles /\ faults' = faults + 1
  /\ call' = [call EXCEPT ![c] = Quiet]
  /\ loop' = IF c = Loop THEN Off ELSE loop
  /\ run' = r

\* An awaited call rejects: a client is answered 500, a loop stops, and only
\* the one in the background writes the error down.
Throw(c, r) ==
  /\ faults + restarts < MaxTroubles /\ faults' = faults + 1
  /\ call' = [call EXCEPT ![c] = Quiet]
  /\ loop' = IF c = Loop THEN Off ELSE loop
  /\ run' = IF c = Loop /\ loop.kind = "detached" THEN [r EXCEPT !.state.status = "error"] ELSE r

(***************************************************************************)
(* closeNextMonth.                                                         *)
(***************************************************************************)

\* The month and its file are fixed here; the position is not read again.
OpenMonth(c) ==
  /\ Enter(c) /\ run.state.phase = "notes" /\ run.state.index < Last /\ run.plan
  /\ call' = [call EXCEPT ![c] = [at |-> IF run.synced THEN "custody" ELSE "quotes",
                                  month |-> run.state.index + 1, base |-> {}]]
  /\ UNCHANGED <<run, database, bounds>>

\* A run read back from its row has no plan: 409.
Refuse(c) ==
  /\ Enter(c) /\ run.state.phase = "notes" /\ ~run.plan
  /\ Move(c, "refused")
  /\ UNCHANGED <<run, database, bounds>>

HearRefusal(c) ==
  /\ At(c, "refused")
  /\ call' = [call EXCEPT ![c] = Quiet]
  /\ UNCHANGED <<run, loop, database, alone, bounds>>

\* ensureHistoricalQuotes swallows what the quote services throw.
SyncQuotes(c) ==
  /\ \/ At(c, "quotes") /\ Move(c, "custody")
     \/ At(c, "final_quotes") /\ Move(c, "final_draw")
  /\ Save(run.state)
  /\ run' = [run EXCEPT !.synced = TRUE]
  /\ UNCHANGED <<late, loop, imports, noted, gaps, drawn, alone, restarts>>

\* reconcileCustody; the arguments of the import are read when it returns.
ReconcileCustody(c) ==
  /\ At(c, "custody")
  /\ Move(c, "import")
  /\ UNCHANGED <<run, loop, database, alone, bounds>>

\* Mutation: the month is noted as skipped only when the run stops at it.
X_ImportBlocked(c) ==
  LET m == call[c].month
      next == [run.state EXCEPT !.index = @ + 1,
                                !.phase = IF run.state.index + 1 >= Last THEN "extracts" ELSE @]
  IN
  /\ At(c, "import")
  /\ noted' \in {noted, noted \cup {m}}
  /\ IF run.state.mode = "strict"
     THEN Return(c, [run EXCEPT !.skipped = @ \cup {m}, !.state.status = "error"], "blocked")
     ELSE Return(c, [run EXCEPT !.state = next], "closed")
  /\ UNCHANGED <<row, late, imports, gaps, drawn, alone, bounds>>

\* The preview turned the notes or the extract down, or the notes were written
\* (those that could be) and the extract was then refused.
ImportBlocked(c) ==
  LET m == call[c].month
      r == [run EXCEPT !.skipped = @ \cup {m}]
      next == [r.state EXCEPT !.index = @ + 1,
                              !.phase = IF run.state.index + 1 >= Last THEN "extracts" ELSE @]
  IN
  /\ At(c, "import")
  /\ noted' \in {noted, noted \cup {m}}
  /\ IF run.state.mode = "strict"
     THEN Return(c, [r EXCEPT !.state.status = "error"], "blocked")
     ELSE Return(c, [r EXCEPT !.state = next], "closed")
  /\ UNCHANGED <<row, late, imports, gaps, drawn, alone, bounds>>

\* applyBtgMonthImport wrote the extract: only that is in `applied`.  A file of
\* notes that throws is caught and listed in a result nobody reads; whether the
\* cash read back matches the extract is in resultOk, which nobody reads either.
ImportApplied(c, wrong) ==
  LET m == call[c].month IN
  /\ At(c, "import")
  /\ imports' = [imports EXCEPT ![m] = IF @ < 2 THEN @ + 1 ELSE @]
  /\ noted' = IF "notes" \in wrong THEN noted ELSE noted \cup {m}
  /\ gaps' = IF "cash" \in wrong THEN gaps \cup {m} ELSE gaps \ {m}
  /\ run' = [run EXCEPT !.kept = @ \cup {m}]
  /\ call' = [call EXCEPT ![c].at = "fold", ![c].base = run.book]
  /\ UNCHANGED <<row, late, loop, drawn, alone, bounds>>

\* The import throws before or after it has written notes and extract.
ImportThrows(c) ==
  LET m == call[c].month IN
  /\ At(c, "import")
  /\ Throw(c, run)
  /\ imports' \in {imports, [imports EXCEPT ![m] = IF @ < 2 THEN @ + 1 ELSE @]}
  /\ noted' \in {noted, noted \cup {m}}
  /\ UNCHANGED <<row, late, gaps, drawn, alone, restarts>>

\* Mutation: only the month's own cash is replaced.
X_Folded(m, book) == book \cup {m}

\* buildMonthReconcileLedger: the cash of the month and of every later one
\* leaves the simulated book, the series of the extract comes in.
Folded(m, book) == {k \in book : k < m} \cup {m}

FoldMonth(c) ==
  /\ At(c, "fold")
  /\ run' = [run EXCEPT !.book = Folded(call[c].month, call[c].base)]
  /\ Move(c, "draw")
  /\ UNCHANGED <<loop, database, alone, bounds>>

\* rebuild begins with invalidateFromDate: later months lose their rows too.
DrawMonth(c) ==
  /\ At(c, "draw")
  /\ Save(run.state)
  /\ drawn' = {m \in drawn : m < call[c].month}
  /\ Move(c, "drawing")
  /\ UNCHANGED <<run, late, loop, imports, noted, gaps, alone, restarts>>

\* onProgress saves without waiting: the copy is taken now, it lands later.
SaveProgress(c) ==
  /\ At(c, "drawing") /\ late = NoSave
  /\ late' = run.state
  /\ UNCHANGED <<run, row, call, loop, imports, noted, gaps, drawn, alone, bounds>>

LandProgress ==
  /\ late # NoSave
  /\ row' = late /\ late' = NoSave
  /\ UNCHANGED <<run, call, loop, imports, noted, gaps, drawn, alone, bounds>>

\* The position is advanced by one from wherever it is now.
CloseMonth(c) ==
  LET s == run.state
      next == [s EXCEPT !.horizon = call[c].month, !.index = @ + 1,
                        !.phase = IF s.index + 1 >= Last THEN "extracts" ELSE @]
  IN
  /\ At(c, "drawing")
  /\ drawn' = drawn \cup {call[c].month}
  /\ Return(c, [run EXCEPT !.state = next], "closed")
  /\ UNCHANGED <<row, late, imports, noted, gaps, alone, bounds>>

(***************************************************************************)
(* finalizeRun.                                                            *)
(***************************************************************************)

\* Mutation: a run may be finalised while months are left.
X_OpenFinal(c) ==
  /\ Enter(c) /\ run.state.phase # "done"
  /\ call' = [call EXCEPT ![c].at = IF run.synced THEN "final_draw" ELSE "final_quotes"]
  /\ UNCHANGED <<run, database, bounds>>

OpenFinal(c) ==
  /\ Enter(c) /\ run.state.phase = "extracts"
  /\ call' = [call EXCEPT ![c].at = IF run.synced THEN "final_draw" ELSE "final_quotes"]
  /\ UNCHANGED <<run, database, bounds>>

DrawAll(c) ==
  /\ At(c, "final_draw")
  /\ Save(run.state)
  /\ drawn' = {}
  /\ Move(c, "final_drawing")
  /\ UNCHANGED <<run, late, loop, imports, noted, gaps, alone, restarts>>

\* Mutation: the last rebuild covers the last month only.
X_AllDrawn(c) ==
  /\ At(c, "final_drawing")
  /\ drawn' = drawn \cup {Last}
  /\ run' = [run EXCEPT !.state.horizon = Last]
  /\ Move(c, "report")
  /\ UNCHANGED <<row, late, loop, imports, noted, gaps, alone, bounds>>

AllDrawn(c) ==
  /\ At(c, "final_drawing")
  /\ drawn' = Months
  /\ run' = [run EXCEPT !.state.horizon = Last]
  /\ Move(c, "report")
  /\ UNCHANGED <<row, late, loop, imports, noted, gaps, alone, bounds>>

\* After the diagnostics, whose failure is swallowed.
Report(c) ==
  /\ At(c, "report")
  /\ run' = [run EXCEPT !.state.phase = "done",
                        !.state.status = IF run.skipped # {} THEN "error" ELSE "done"]
  /\ Move(c, "final_save")
  /\ UNCHANGED <<loop, database, alone, bounds>>

Finish(c) ==
  /\ At(c, "final_save")
  /\ Save(run.state)
  /\ Return(c, run, "done")
  /\ UNCHANGED <<late, imports, noted, gaps, drawn, alone, restarts>>

\* reconcileCustody or a rebuild throws; nothing it had done is undone.
StepThrows(c) ==
  /\ call[c].at \in {"custody", "drawing", "final_drawing"}
  /\ Throw(c, run)
  /\ UNCHANGED <<database, alone, restarts>>

(***************************************************************************)
(* The loop, the status request and the process.                           *)
(***************************************************************************)

\* The loop finds the run done, or has no turn left.
LoopStops ==
  /\ At(Loop, "idle") /\ loop.kind # "none"
  /\ run.state.phase = "done" \/ loop.turns = Last + Slack
  /\ run' = IF loop.kind = "detached" /\ run.state.status # "error"
            THEN [run EXCEPT !.state.status = IF run.state.phase = "done" THEN "done" ELSE "running"]
            ELSE run
  /\ loop' = Off
  /\ UNCHANGED <<call, database, alone, bounds>>

\* getRunWithFallback: the run comes back with no files and an empty plan.
Restore ==
  /\ ~Live /\ row # NoSave
  /\ run' = [phase |-> "run", state |-> row, plan |-> FALSE, synced |-> FALSE,
             book |-> {}, kept |-> {}, skipped |-> {}]
  /\ UNCHANGED <<call, loop, database, alone, bounds>>

\* The Map, the calls inside it and the loop are gone.
Restart ==
  /\ Live /\ faults + restarts < MaxTroubles
  /\ restarts' = restarts + 1
  /\ run' = NoRun /\ loop' = Off
  /\ call' = [c \in Callers |-> Quiet]
  /\ UNCHANGED <<database, alone, faults>>

Work(c) ==
  \/ OpenMonth(c) \/ SyncQuotes(c) \/ ReconcileCustody(c)
  \/ ImportBlocked(c) \/ (\E wrong \in SUBSET Flaws : ImportApplied(c, wrong)) \/ ImportThrows(c)
  \/ FoldMonth(c) \/ DrawMonth(c) \/ CloseMonth(c)
  \/ OpenFinal(c) \/ DrawAll(c) \/ AllDrawn(c) \/ Report(c) \/ Finish(c)
  \/ StepThrows(c)

Next ==
  \/ \E reset \in BOOLEAN :
       \/ \E kind \in {"none", "request", "detached"}, mode \in {"strict", "homologation"} :
            Start(reset, kind, mode)
       \/ StartFails(reset)
  \/ \E c \in Callers : Work(c) \/ Refuse(c) \/ HearRefusal(c) \/ SaveProgress(c)
  \/ LandProgress \/ LoopStops \/ Restore \/ Restart

\* Every call the loop waits for settles, and it then goes on by itself.
Spec == Init /\ [][Next]_vars /\ WF_vars(Work(Loop) \/ LoopStops)

(***************************************************************************)
(* Properties.                                                             *)
(***************************************************************************)

\* The months the run decided follow the schedule: one caller at a time, in
\* one process, goes through the calendar in order, leaves no month behind
\* and closes the run only at the end, whatever throws on the way.
Schedule == INSTANCE MonthSchedule WITH
  index <- IF Live THEN run.state.index ELSE 0,
  kept <- IF Live THEN run.kept ELSE {},
  skipped <- IF Live THEN run.skipped ELSE {},
  closed <- Live /\ run.state.phase = "done",
  orderly <- alone /\ restarts = 0

FollowsSchedule == Schedule!Schedule

Orderly == alone /\ restarts = 0

\* A month whose extract is missing from the ledger of a finished run is a
\* month the run knows it skipped, and no row tells a poller of another process
\* otherwise: an extract that is refused after the notes were written, or an
\* import that throws and is tried again, leaves no month that only looks done.
DoneMeansWritten ==
  /\ Orderly /\ Live /\ run.state.phase = "done"
       => \A m \in Months : imports[m] > 0 \/ m \in run.skipped
  /\ Orderly /\ row.phase = "done" /\ row.status = "done"
       => \A m \in Months : imports[m] > 0

\* Once the run is done the patrimony of the whole calendar is the one of
\* the last rebuild, after restarts and failed rebuilds too.
DoneMeansDrawn == alone /\ Live /\ run.state.phase = "done" => drawn = Months

\* The simulated book an import is checked against holds the months kept
\* so far and none of those that follow, however often a step was retried.
BookEndsAtLastKept ==
  Orderly /\ Live =>
    \A c \in Callers : At(c, "draw") => /\ call[c].month \in run.book
                                        /\ run.kept \subseteq run.book
                                        /\ \A m \in run.book : m <= call[c].month

\* A loop in the background never leaves its run "running" behind it.
LoopLeavesVerdict ==
  Orderly /\ Live /\ loop.kind = "none" => run.state.status # "running"

\* Whoever polls the status hears the end: the loop settles, unless it dies
\* with the process.
LoopSettles == (loop.kind # "none") ~> (loop.kind = "none")

\* A month that was not skipped has its notes too: the log of the run counts it
\* as written, notes and extract.
DoneMeansNoted ==
  Orderly /\ Live /\ run.state.phase = "done" => Months \ run.skipped \subseteq noted

\* The comment of evaluatePersistedCashGate blocks a month whose persisted
\* cash does not match its extract.
GateBlocksMonth == Live => \A m \in gaps : m > run.state.index

\* The comment of OptionCRunRepository promises runs that survive a restart.
RestoredRunGoesOn == \A c \in Callers : ~At(c, "refused")

\* What the background loop reports is what finalizeRun concluded.
LoopKeepsVerdict ==
  Live /\ run.plan /\ run.state.status = "done" => run.skipped = {}

\* No month is written twice by one run.
WrittenOnce == Live /\ run.plan => \A m \in run.kept : imports[m] < 2

\* The trusted horizon covers only months whose patrimony was drawn.
HorizonIsDrawn == Live => 1..run.state.horizon \subseteq drawn

\* A row that says done is not taken back.
DoneRowStays == [][row.phase = "done" => row'.phase = "done"]_vars
=============================================================================
