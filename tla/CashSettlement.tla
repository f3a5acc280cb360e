--------------------------- MODULE CashSettlement ---------------------------
(***************************************************************************)
(* LIQ BOLSA: a broker note leaves pending legs (the cash it expects on    *)
(* the settlement date), one line of the extract says what was paid for    *)
(* several notes together.  settle looks for the events whose pending legs *)
(* add up to the line, writes one cleared row per event and cancels their  *)
(* legs.  Every read and every write is a round trip of its own, nothing   *)
(* is locked, and an import may stop anywhere and be tried again.  All     *)
(* legs and lines here have one settlement date and one account.           *)
(***************************************************************************)
EXTENDS Integers, FiniteSetsExt, SequencesExt

CONSTANTS
  Legs,          (* leg -> [event, cents]: the pending rows notes may leave *)
  Occurred,      (* event -> trading day; events are numbers in the order   *)
                 (* of occurred_on, source_ref, id                          *)
  Extract,       (* the lines of the extract: [cents, trade], trade 0: none *)
  Agents,        (* imports of that extract                                 *)
  MaxCrashes     (* bound: imports that stop half-way                       *)

Events == DOMAIN Occurred
LegIds == DOMAIN Legs
Lines == DOMAIN Extract

ASSUME EventAssumption == Events \subseteq Nat \ {0} /\ IsFiniteSet(Events)
ASSUME LegAssumption ==
  /\ IsFiniteSet(LegIds)
  /\ \A l \in LegIds : Legs[l].event \in Events /\ Legs[l].cents \in Int
ASSUME LineAssumption ==
  Extract \in Seq([cents : Int \ {0}, trade : Nat]) /\ Extract # << >>
ASSUME CrashAssumption == MaxCrashes \in Nat

VARIABLES
  leg,           (* status of each pending row, "none" before its note     *)
  cleared,       (* the rows described LIQ BOLSA                           *)
  work,          (* per agent: where its import is                         *)
  answer,        (* per agent: how its last import ended                   *)
  alone,         (* no two imports have run at one time                    *)
  crashes

vars == <<leg, cleared, work, answer, alone, crashes>>

Cash == [line : Lines, event : Events, cents : Int, copy : Nat]
Offer == [event : Events, cents : Int, legs : SUBSET LegIds]
Idle == [at |-> "idle"]
Points == {"existing", "fetch", "ref", "insert", "cancel"}

TypeOK ==
  /\ leg \in [LegIds -> {"none", "pending", "cancelled"}]
  /\ cleared \subseteq Cash
  /\ \A a \in Agents :
       \/ work[a] = Idle
       \/ /\ work[a].at \in Points /\ work[a].line \in Lines /\ work[a].unresolved \in BOOLEAN
          /\ work[a].picks \subseteq Offer
          /\ work[a].at \in {"ref", "insert", "cancel"} => work[a].picks # {}
  /\ answer \in [Agents -> {"none", "done", "failed"}]
  /\ alone \in BOOLEAN /\ crashes \in 0..MaxCrashes

Init ==
  /\ leg = [l \in LegIds |-> "none"]
  /\ cleared = {}
  /\ work = [a \in Agents |-> Idle]
  /\ answer = [a \in Agents |-> "none"]
  /\ alone = TRUE /\ crashes = 0

(***************************************************************************)
(* The matching, in integer cents.                                         *)
(***************************************************************************)

Abs(x) == IF x < 0 THEN -x ELSE x
Near(x, y, tol) == Abs(x - y) <= tol

\* liqToleranceCents: one cent; with the trading day in the line 0.5 % of it,
\* at least 15.00 and at most 500.00.
MoneyTol == 1
Tolerance(line) ==
  IF line.trade = 0 THEN MoneyTol
  ELSE LET share == (Abs(line.cents) * 5 + 500) \div 1000
       IN  CHOOSE t \in {1500, share, 50000} :
             t = IF share < 1500 THEN 1500 ELSE IF share > 50000 THEN 50000 ELSE share

Total(offers) == MapThenSumSet(LAMBDA o : o.cents, offers)
Sum(ls) == MapThenSumSet(LAMBDA l : Legs[l].cents, ls)

\* Mutation: the legs of an event whatever their status.
X_PendingLegs(e) == {l \in LegIds : leg[l] # "none" /\ Legs[l].event = e}

PendingLegs(e) == {l \in LegIds : leg[l] = "pending" /\ Legs[l].event = e}

\* fetchCandidates: the pending legs by event, of the line's trading day if
\* it names one; an event whose legs cancel out is no candidate.
Candidates(line) ==
  {o \in {[event |-> e, cents |-> Sum(PendingLegs(e)), legs |-> PendingLegs(e)] : e \in Events} :
     /\ o.legs # {} /\ o.cents # 0
     /\ line.trade # 0 => Occurred[o.event] = line.trade}

\* normalizePendingCentsForLiq
Aligned(o, target) == IF (o.cents < 0) = (target < 0) THEN o ELSE [o EXCEPT !.cents = -@]

\* The loop counts masks up: of two subsets the one without the last offer
\* they differ in comes first.
Earlier(s, t) == \E o \in t \ s : \A p \in s \ t : p.event < o.event

\* It keeps the first subset of the least difference.
Delta(offers, target) == Abs(Total(offers) - target)
Fitting(offers, target, tol) ==
  {s \in SUBSET offers : s # {} /\ Delta(s, target) <= tol}
Closest(offers, target, tol) ==
  LET fit == Fitting(offers, target, tol)
  IN  {s \in fit : \A t \in fit : Delta(s, target) <= Delta(t, target)}

FindSubset(offers, target, tol) ==
  IF Fitting(offers, target, tol) = {} THEN {}
  ELSE CHOOSE s \in Closest(offers, target, tol) :
         \A t \in Closest(offers, target, tol) \ {s} : Earlier(s, t)

\* Mutation: the sum of all is compared by magnitude before anything else.
X_Choice(offers, target, tol) ==
  IF offers = {} THEN {}
  ELSE IF Near(Abs(Total(offers)), Abs(target), tol) THEN offers
  ELSE {o \in offers : Near(o.cents, target, tol)}

\* settle: one candidate of that size, the sum of all, the sum of all with
\* the sign turned, a subset; the empty set is "blocked".
Choice(offers, target, tol) ==
  LET all == Total(offers)
      turned == {Aligned(o, target) : o \in offers}
      size == Near(Abs(all), Abs(target), tol)
  IN  IF offers = {} THEN {}
      ELSE IF Cardinality(offers) = 1 /\ size THEN turned
      ELSE IF Near(all, target, tol) THEN offers
      ELSE IF size THEN turned
      ELSE FindSubset(offers, target, tol)

\* consumePoolEntriesForLiqLine, the rule of the monthly preview: the events
\* it takes from the pool, none when the best subset is not the only one.
PreviewChoice(offers, target, tol) ==
  LET all == Total(offers)
      whole == Near(all, target, tol) \/ Near(Abs(all), Abs(target), tol)
  IN  IF offers # {} /\ whole THEN {o.event : o \in offers}
      ELSE IF Cardinality(Closest(offers, target, tol)) # 1 THEN {}
      ELSE {o.event : o \in CHOOSE s \in Closest(offers, target, tol) : TRUE}

(***************************************************************************)
(* Imports.                                                                *)
(***************************************************************************)

IsAt(a, point) == work[a].at = point
Line(a) == Extract[work[a].line]
Goto(a, point) == work' = [work EXCEPT ![a].at = point]
Settled(i) == {r \in cleared : r.line = i}

\* ensurePendingFinancialLegForImportLine, once per leg whatever its status.
Expect(l) ==
  /\ leg[l] = "none"
  /\ leg' = [leg EXCEPT ![l] = "pending"]
  /\ UNCHANGED <<cleared, work, answer, alone, crashes>>

Begin(a) ==
  /\ IsAt(a, "idle")
  /\ work' = [work EXCEPT ![a] = [at |-> "existing", line |-> 1, picks |-> {}, unresolved |-> FALSE]]
  /\ alone' = (alone /\ \A b \in Agents \ {a} : IsAt(b, "idle"))
  /\ UNCHANGED <<leg, cleared, answer, crashes>>

\* settleLiqBolsaEntries goes on to the next line; at the end an import with
\* a line left over is refused, after what it has settled.
NextLine(a, unresolved) ==
  IF work[a].line < Len(Extract)
  THEN /\ work' = [work EXCEPT ![a] = [at |-> "existing", line |-> work[a].line + 1,
                                       picks |-> {}, unresolved |-> unresolved]]
       /\ UNCHANGED answer
  ELSE /\ work' = [work EXCEPT ![a] = Idle]
       /\ answer' = [answer EXCEPT ![a] = IF unresolved THEN "failed" ELSE "done"]

\* fetchExistingSettlement: the rows of the line already add up to it.
KnownSettlement(i) ==
  Settled(i) # {} /\ Near(Total(Settled(i)), Extract[i].cents, MoneyTol)

\* Mutation: no line is known.
X_CheckExisting(a) ==
  /\ IsAt(a, "existing")
  /\ Goto(a, "fetch")
  /\ UNCHANGED <<leg, cleared, answer, alone, crashes>>

CheckExisting(a) ==
  /\ IsAt(a, "existing")
  /\ IF KnownSettlement(work[a].line)
     THEN NextLine(a, work[a].unresolved)
     ELSE Goto(a, "fetch") /\ UNCHANGED answer
  /\ UNCHANGED <<leg, cleared, alone, crashes>>

Fetch(a) ==
  LET picks == Choice(Candidates(Line(a)), Line(a).cents, Tolerance(Line(a))) IN
  /\ IsAt(a, "fetch")
  /\ IF picks = {}
     THEN NextLine(a, TRUE)
     ELSE /\ work' = [work EXCEPT ![a].at = "ref", ![a].picks = picks]
          /\ UNCHANGED answer
  /\ UNCHANGED <<leg, cleared, alone, crashes>>

\* confirmSettlement takes the events in order.
Pick(a) == CHOOSE o \in work[a].picks : \A p \in work[a].picks : o.event <= p.event

\* findWhere by external_ref: the line and the event.
CheckRef(a) ==
  /\ IsAt(a, "ref")
  /\ Goto(a, IF \E r \in Settled(work[a].line) : r.event = Pick(a).event THEN "cancel" ELSE "insert")
  /\ UNCHANGED <<leg, cleared, answer, alone, crashes>>

Row(a) ==
  LET same == {r \in Settled(work[a].line) : r.event = Pick(a).event}
  IN  [line |-> work[a].line, event |-> Pick(a).event, cents |-> Pick(a).cents,
       copy |-> Cardinality(same)]

\* Mutation: the expectation is cancelled before the cash is there.
X_Insert(a) ==
  /\ IsAt(a, "insert")
  /\ IF \E l \in Pick(a).legs : leg[l] = "pending"
     THEN /\ leg' = [l \in LegIds |-> IF l \in Pick(a).legs THEN "cancelled" ELSE leg[l]]
          /\ UNCHANGED <<cleared, work>>
     ELSE /\ cleared' = cleared \cup {Row(a)}
          /\ Goto(a, "cancel") /\ UNCHANGED leg
  /\ UNCHANGED <<answer, alone, crashes>>

Insert(a) ==
  /\ IsAt(a, "insert")
  /\ cleared' = cleared \cup {Row(a)}
  /\ Goto(a, "cancel")
  /\ UNCHANGED <<leg, answer, alone, crashes>>

\* Mutation: a leg that is no longer pending is waited for.
X_Cancel(a) ==
  /\ IsAt(a, "cancel")
  /\ \E l \in Pick(a).legs :
       LET rest == [Pick(a) EXCEPT !.legs = @ \ {l}]
           others == work[a].picks \ {Pick(a)}
       IN
       /\ leg[l] = "pending"
       /\ leg' = [leg EXCEPT ![l] = "cancelled"]
       /\ IF rest.legs # {}
          THEN work' = [work EXCEPT ![a].picks = others \cup {rest}] /\ UNCHANGED answer
          ELSE IF others # {}
          THEN work' = [work EXCEPT ![a].at = "ref", ![a].picks = others] /\ UNCHANGED answer
          ELSE NextLine(a, work[a].unresolved)
  /\ UNCHANGED <<cleared, alone, crashes>>

\* cancelPendingExpectation, leg by leg; a leg that is no longer pending is
\* passed over.
Cancel(a) ==
  /\ IsAt(a, "cancel")
  /\ \E l \in Pick(a).legs :
       LET rest == [Pick(a) EXCEPT !.legs = @ \ {l}]
           others == work[a].picks \ {Pick(a)}
       IN
       /\ leg' = [leg EXCEPT ![l] = "cancelled"]
       /\ IF rest.legs # {}
          THEN work' = [work EXCEPT ![a].picks = others \cup {rest}] /\ UNCHANGED answer
          ELSE IF others # {}
          THEN work' = [work EXCEPT ![a].at = "ref", ![a].picks = others] /\ UNCHANGED answer
          ELSE NextLine(a, work[a].unresolved)
  /\ UNCHANGED <<cleared, alone, crashes>>

Crash(a) ==
  /\ ~IsAt(a, "idle") /\ crashes < MaxCrashes
  /\ crashes' = crashes + 1
  /\ work' = [work EXCEPT ![a] = Idle]
  /\ UNCHANGED <<leg, cleared, answer, alone>>

Work(a) ==
  CheckExisting(a) \/ Fetch(a) \/ CheckRef(a) \/ Insert(a) \/ Cancel(a)

Next ==
  \/ \E l \in LegIds : Expect(l)
  \/ \E a \in Agents : Begin(a) \/ Work(a) \/ Crash(a)

\* An import that has begun goes on until it ends or stops.
Spec == Init /\ [][Next]_vars /\ \A a \in Agents : WF_vars(Work(a))

(***************************************************************************)
(* Properties.                                                             *)
(***************************************************************************)

Clean == alone /\ crashes = 0
Quiet == \A a \in Agents : IsAt(a, "idle")
CancelledLegs(e) == {l \in LegIds : leg[l] = "cancelled" /\ Legs[l].event = e}
RowsOf(e) == {r \in cleared : r.event = e}

\* No expectation disappears without the cash that replaced it, whatever
\* stops or interleaves.
NoExpectationLost == \A e \in Events : CancelledLegs(e) # {} => RowsOf(e) # {}

\* One import after the other, cash is counted once: what was cleared for an
\* event is what was cancelled for it.
CashCountedOnce ==
  Clean /\ Quiet =>
    \A e \in Events : Abs(Total(RowsOf(e))) = Abs(Sum(CancelledLegs(e)))

\* Whenever the preview would take events for a line, settle takes the same.
PreviewForetells ==
  \A a \in Agents : IsAt(a, "fetch") =>
    LET offers == Candidates(Line(a))
        seen == PreviewChoice(offers, Line(a).cents, Tolerance(Line(a)))
    IN  seen # {} => seen = {o.event : o \in Choice(offers, Line(a).cents, Tolerance(Line(a)))}

\* A line that its rows add up to is not settled again, even after imports
\* that stopped.
SettledLineStays ==
  [][alone /\ crashes' = crashes =>
       \A i \in Lines : KnownSettlement(i) => Settled(i)' = Settled(i)]_vars

\* An import that is not stopped reaches its answer.
ImportEnds == \A a \in Agents : ~IsAt(a, "idle") ~> IsAt(a, "idle")

\* Section 6.4 of the reconciliation plan blocks a line that two subsets fit
\* equally well.
AmbiguousLineBlocked ==
  \A a \in Agents : IsAt(a, "ref") =>
    LET offers == Candidates(Line(a)) IN
    (\A i \in Lines : Settled(i) = {}) /\ Choice(offers, Line(a).cents, Tolerance(Line(a))) = work[a].picks
      => work[a].picks = offers \/ Cardinality(Closest(offers, Line(a).cents, Tolerance(Line(a)))) <= 1

\* The test "reaplicar mesma LIQ BOLSA" answers matched the second time.
ReapplyIsMatched ==
  [][\A a \in Agents : answer[a] = "done" => answer'[a] = "done"]_vars

\* The cleared rows of a finished import add up to the line they settle.
RowsAddUpToLine ==
  Clean /\ Quiet =>
    \A i \in Lines : Settled(i) # {} => Near(Total(Settled(i)), Extract[i].cents, Tolerance(Extract[i]))

\* No event is paid by two lines.
EventPaidOnce == \A e \in Events : \A r, s \in RowsOf(e) : r.line = s.line

\* A settled expectation does not stay open.
NothingLeftOpen ==
  Quiet /\ alone => \A e \in Events : RowsOf(e) # {} => PendingLegs(e) = {}
=============================================================================
