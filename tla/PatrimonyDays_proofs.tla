------------------------ MODULE PatrimonyDays_proofs ------------------------
(***************************************************************************)
(* For any calendar, entries, jobs and troubles: the status of a rebuild,  *)
(* the checked rows, the days an import leaves behind it and what a rebuild*)
(* repairs.                                                                *)
(***************************************************************************)
EXTENDS PatrimonyDays, FiniteSetTheorems, WellFoundedInduction, TLAPS

(* Induction over the subsets of a finite set: a set of them that holds     *)
(* each one whose proper subsets it holds is all of them.                   *)
LEMMA SubsetInduction ==
  ASSUME NEW S, IsFiniteSet(S), NEW F,
         \A T \in SUBSET S : (\A U \in SUBSET T : U # T => U \in F) => T \in F
  PROVE  \A T \in SUBSET S : T \in F
<1> DEFINE C == {T \in SUBSET S : T \notin F}
<1>0. C \subseteq FiniteSubsetsOf(S)
  BY FS_FiniteSubsetsOfFinite
<1>1. ASSUME C # {} PROVE FALSE
  <2>1. PICK T \in C : \A U \in C : <<U, T>> \notin StrictSubsetOrdering(S)
    <3> HIDE DEF C
    <3> QED BY <1>0, <1>1, WFMin, FS_StrictSubsetOrderingWellFounded
  <2>2. \A U \in SUBSET T : U # T => U \in F
    BY <2>1 DEF StrictSubsetOrdering
  <2> QED BY <2>1, <2>2
<1> QED BY <1>1

(* Numbers have a least among them.                                         *)
LEMMA NatMin ==
  ASSUME NEW T, T \subseteq Nat, T # {} PROVE \E x \in T : \A y \in T : x <= y
<1>1. PICK n \in T : TRUE
  OBVIOUS
<1> DEFINE S == 0..n
           F == {U \in SUBSET S : U \cap T # {} => \E x \in U \cap T : \A y \in U \cap T : x <= y}
<1>2. IsFiniteSet(S) /\ n \in Nat
  BY <1>1, FS_Interval
<1>3. ASSUME NEW V \in SUBSET S, \A U \in SUBSET V : U # V => U \in F PROVE V \in F
  <2>1. CASE V \cap T = {}
    BY <2>1
  <2>2. CASE V \cap T # {}
    <3>1. PICK z \in V \cap T : TRUE
      BY <2>2
    <3>2. (V \ {z}) \in F
      BY <1>3, <3>1
    <3>3. CASE (V \ {z}) \cap T = {}
      BY <3>1, <3>3
    <3>4. CASE (V \ {z}) \cap T # {}
      <4>1. PICK x \in (V \ {z}) \cap T : \A y \in (V \ {z}) \cap T : x <= y
        BY <3>2, <3>4
      <4>2. \A y \in V \cap T : y = z \/ x <= y
        BY <4>1
      <4> QED BY <3>1, <4>1, <4>2
    <3> QED BY <3>3, <3>4
  <2> QED BY <2>1, <2>2
<1>4. S \in F
  <2> HIDE DEF F, S
  <2> QED BY <1>2, <1>3, SubsetInduction
<1>5. PICK x \in S \cap T : \A y \in S \cap T : x <= y
  BY <1>1, <1>2, <1>4
<1> QED BY <1>1, <1>2, <1>5

(* The first and the last of some days.                                     *)
LEMMA FirstDay ==
  ASSUME NEW S, S \subseteq Days, S # {}
  PROVE  Min(S) \in S /\ \A d \in S : Min(S) <= d
<1>1. S \subseteq Nat
  BY DayAssumption DEF Days
<1>2. \E d \in S : \A e \in S : d <= e
  BY <1>1, NatMin
<1> QED
  BY <1>2 DEF Min

LEMMA LastDay ==
  ASSUME NEW S, S \subseteq Days, S # {}
  PROVE  Max(S) \in S /\ \A d \in S : d <= Max(S)
<1> DEFINE T == {Today - d : d \in S}
<1>1. T \subseteq Nat /\ T # {}
  <2>1. \A d \in S : Today - d \in Nat
    BY DayAssumption DEF Days
  <2> QED
    BY <2>1
<1>2. PICK x \in T : \A y \in T : x <= y
  BY <1>1, NatMin
<1>3. PICK d \in S : x = Today - d
  BY <1>2
<1>4. \A e \in S : d >= e
  BY <1>2, <1>3, DayAssumption DEF Days
<1>5. \E e \in S : \A f \in S : e >= f
  BY <1>3, <1>4
<1>6. Max(S) \in S /\ \A e \in S : Max(S) >= e
  BY <1>5 DEF Max
<1> QED
  BY <1>6, DayAssumption DEF Days
-----------------------------------------------------------------------------
(* Where a job may be, and the fields it has.                               *)
Recording == {"read", "quotes", "before", "find", "write", "positions", "validate", "finish"}

PointsOf(job) ==
  CASE job = "record" -> Recording
    [] job = "import" -> {"line", "sweep", "sweep_positions"}
    [] OTHER -> Recording \cup {"sweep", "sweep_positions", "prices"}

WorkOk(w) ==
  /\ w = [at |-> w.at, job |-> w.job, from |-> w.from, day |-> w.day, to |-> w.to, seen |-> w.seen,
          before |-> w.before, id |-> w.id, lines |-> w.lines, inserted |-> w.inserted,
          sole |-> w.sole]
  /\ w.job \in {"record", "materialise", "rebuild", "import"}
  /\ w.at \in PointsOf(w.job)
  /\ w.from \in Days /\ w.day \in Days /\ w.to \in Int
  /\ \A e \in w.lines : e \in Entries /\ w.from <= Entry[e].day
  /\ w.inserted \in BOOLEAN /\ w.sole \in BOOLEAN

Working(a) == agent[a] # Idle

RowOk(r) == r = [id |-> r.id, seen |-> r.seen, chain |-> r.chain, checked |-> r.checked]

Forms ==
  /\ ledger \subseteq Entries /\ loose \subseteq Entries /\ \A q \in quotes : q[1] \in Days
  /\ rows = [d \in Days |-> rows[d]] /\ \A d \in Days : \A r \in rows[d] : RowOk(r)
  /\ positions = [d \in Days |-> positions[d]]
  /\ agent = [a \in Agents |-> agent[a]]
  /\ \A a \in Agents : Working(a) => WorkOk(agent[a])
  /\ unswept \in Nat /\ troubles \in Nat

(* Between two points of a job.                                             *)
OneMoves(a, w) == agent' = [b \in Agents |-> IF b = a THEN w ELSE agent[b]]
SameJob(w, v) == w.job = v.job /\ w.from = v.from /\ w.to = v.to /\ w.sole = v.sole
SameDay(w, v) ==
  SameJob(w, v) /\ w.day = v.day /\ w.seen = v.seen /\ w.before = v.before /\ w.id = v.id
Visits(w, days) ==
  /\ days = {} => w.at = "prices"
  /\ days # {} => w.at = "read" /\ w.day \in days /\ \A d \in days : w.day <= d
-----------------------------------------------------------------------------
LEMMA Awake ==
  ASSUME Forms, NEW a \in Agents
  PROVE  At(a, "idle") <=> ~Working(a)
BY DEF Forms, At, Working, WorkOk, PointsOf, Recording, Idle

LEMMA WorkFields ==
  ASSUME NEW w, WorkOk(w)
  PROVE  DOMAIN w = {"at", "job", "from", "day", "to", "seen", "before", "id", "lines", "inserted", "sole"}
BY DEF WorkOk

LEMMA GoWork ==
  ASSUME Forms, NEW a \in Agents, Working(a), NEW p, Go(a, p), p \in PointsOf(agent[a].job)
  PROVE  \E w : OneMoves(a, w) /\ WorkOk(w) /\ w.at = p /\ SameDay(w, agent[a])
                /\ w.lines = agent[a].lines /\ w.inserted = agent[a].inserted
<1>1. PICK v : v = agent[a] /\ WorkOk(v)
  BY DEF Forms
<1> DEFINE w == [v EXCEPT !.at = p]
<1>2. OneMoves(a, w)
  BY <1>1 DEF Go, Forms, OneMoves
<1>3. w = [at |-> p, job |-> v.job, from |-> v.from, day |-> v.day, to |-> v.to, seen |-> v.seen,
           before |-> v.before, id |-> v.id, lines |-> v.lines, inserted |-> v.inserted,
           sole |-> v.sole]
  BY <1>1 DEF WorkOk
<1> HIDE DEF w
<1>4. WorkOk(w)
  BY <1>1, <1>3 DEF WorkOk
<1> QED
  BY <1>1, <1>2, <1>3, <1>4 DEF SameDay, SameJob

(* The next day of a rebuild, or its last step.                             *)
LEMMA VisitWork ==
  ASSUME Forms, NEW a \in Agents, Working(a), agent[a].job = "rebuild",
         NEW days, days \subseteq Days, NEW w, w = Visit(a, days)
  PROVE  /\ WorkOk(w) /\ SameJob(w, agent[a])
         /\ Visits(w, days)
<1>1. PICK v : v = agent[a] /\ WorkOk(v)
  BY DEF Forms
<1> DEFINE u == [v EXCEPT !.seen = {}, !.id = NoId, !.before = {}]
<1>2. w = IF days = {} THEN [u EXCEPT !.at = "prices"] ELSE [u EXCEPT !.at = "read", !.day = Min(days)]
  BY <1>1 DEF Visit
<1>3. u = [at |-> v.at, job |-> v.job, from |-> v.from, day |-> v.day, to |-> v.to, seen |-> {},
           before |-> {}, id |-> NoId, lines |-> v.lines, inserted |-> v.inserted,
           sole |-> v.sole]
  <2>1. \A f \in DOMAIN v : u[f] = IF f \in {"seen", "before"} THEN {} ELSE IF f = "id" THEN NoId ELSE v[f]
    OBVIOUS
  <2>2. u = [f \in DOMAIN v |-> u[f]]
    OBVIOUS
  <2> HIDE DEF u
  <2> QED
    BY <1>1, <2>1, <2>2, WorkFields
<1> HIDE DEF u
<1>4. CASE days = {}
  <2>1. w = [at |-> "prices", job |-> v.job, from |-> v.from, day |-> v.day, to |-> v.to,
             seen |-> {}, before |-> {}, id |-> NoId, lines |-> v.lines, inserted |-> v.inserted,
             sole |-> v.sole]
    BY <1>2, <1>3, <1>4
  <2>2. WorkOk(w)
    BY <1>1, <2>1 DEF WorkOk, PointsOf
  <2> QED
    BY <1>1, <1>4, <2>1, <2>2 DEF SameJob, Visits
<1>5. CASE days # {}
  <2>1. w = [at |-> "read", job |-> v.job, from |-> v.from, day |-> Min(days), to |-> v.to,
             seen |-> {}, before |-> {}, id |-> NoId, lines |-> v.lines, inserted |-> v.inserted,
             sole |-> v.sole]
    BY <1>2, <1>3, <1>5
  <2>2. Min(days) \in days /\ \A d \in days : Min(days) <= d
    BY <1>5, FirstDay
  <2>3. WorkOk(w)
    BY <1>1, <2>1, <2>2 DEF WorkOk, PointsOf, Recording
  <2> QED
    BY <1>1, <1>5, <2>1, <2>2, <2>3 DEF SameJob, Visits
<1> QED
  BY <1>4, <1>5

(* What comes after the sweep, after a day that failed and after one that   *)
(* is done.                                                                 *)
LEMMA SweptWork ==
  ASSUME Forms, NEW a \in Agents, Working(a), agent[a].at \in {"sweep", "sweep_positions"},
         NEW w, w = Swept(a)
  PROVE  \/ agent[a].job = "import" /\ w = Idle
         \/ agent[a].job = "materialise" /\ w.at = "read" /\ WorkOk(w) /\ SameDay(w, agent[a])
         \/ /\ agent[a].job = "rebuild" /\ WorkOk(w) /\ SameJob(w, agent[a])
            /\ Visits(w, Following(a))
<1>1. PICK v : v = agent[a] /\ WorkOk(v)
  BY DEF Forms
<1>2. v.job \in {"import", "materialise", "rebuild"}
  BY <1>1 DEF WorkOk, PointsOf, Recording
<1>3. CASE v.job = "import"
  BY <1>1, <1>3 DEF Swept
<1>4. CASE v.job = "materialise"
  <2>1. w = [v EXCEPT !.at = "read"]
    BY <1>1, <1>4 DEF Swept
  <2>2. w = [at |-> "read", job |-> v.job, from |-> v.from, day |-> v.day, to |-> v.to,
             seen |-> v.seen, before |-> v.before, id |-> v.id, lines |-> v.lines,
             inserted |-> v.inserted, sole |-> v.sole]
    BY <1>1, <2>1 DEF WorkOk
  <2>3. WorkOk(w)
    BY <1>1, <1>4, <2>2 DEF WorkOk, PointsOf, Recording
  <2> QED
    BY <1>1, <1>4, <2>2, <2>3 DEF SameDay, SameJob
<1>5. CASE v.job = "rebuild"
  <2>1. w = Visit(a, Following(a)) /\ Following(a) \subseteq Days
    BY <1>1, <1>5 DEF Swept, Following
  <2> QED
    BY <1>1, <1>5, <2>1, VisitWork
<1> QED
  BY <1>2, <1>3, <1>4, <1>5

LEMMA FailedWork ==
  ASSUME Forms, NEW a \in Agents, Working(a), NEW w, w = Failed(a)
  PROVE  \/ agent[a].job # "rebuild" /\ w = Idle
         \/ /\ agent[a].job = "rebuild" /\ WorkOk(w) /\ SameJob(w, agent[a])
            /\ Visits(w, Following(a) \ {agent[a].day})
<1>1. CASE agent[a].job = "rebuild"
  <2>1. w = Visit(a, Following(a) \ {agent[a].day}) /\ Following(a) \ {agent[a].day} \subseteq Days
    BY <1>1 DEF Failed, Following
  <2> QED
    BY <1>1, <2>1, VisitWork
<1>2. CASE agent[a].job # "rebuild"
  BY <1>2 DEF Failed
<1> QED
  BY <1>1, <1>2

LEMMA DoneWork ==
  ASSUME Forms, NEW a \in Agents, Working(a), agent[a].at \in Recording, DayDone(a)
  PROVE  \E w :
    /\ OneMoves(a, w)
    /\ \/ agent[a].job = "record" /\ w = Idle
       \/ agent[a].job = "materialise" /\ w.at = "prices" /\ WorkOk(w) /\ SameDay(w, agent[a])
       \/ /\ agent[a].job = "rebuild" /\ WorkOk(w) /\ SameJob(w, agent[a])
          /\ Visits(w, Following(a) \ {agent[a].day})
<1>1. PICK v : v = agent[a] /\ WorkOk(v)
  BY DEF Forms
<1>2. v.job \in {"record", "materialise", "rebuild"}
  BY <1>1 DEF WorkOk, PointsOf, Recording
<1>3. CASE v.job = "record"
  BY <1>1, <1>3 DEF DayDone, Forms, OneMoves
<1>4. CASE v.job = "materialise"
  <2> DEFINE w == [v EXCEPT !.at = "prices"]
  <2>1. OneMoves(a, w)
    BY <1>1, <1>4 DEF DayDone, Forms, OneMoves
  <2>2. w = [at |-> "prices", job |-> v.job, from |-> v.from, day |-> v.day, to |-> v.to,
             seen |-> v.seen, before |-> v.before, id |-> v.id, lines |-> v.lines,
             inserted |-> v.inserted, sole |-> v.sole]
    BY <1>1 DEF WorkOk
  <2> HIDE DEF w
  <2>3. WorkOk(w)
    BY <1>1, <1>4, <2>2 DEF WorkOk, PointsOf, Recording
  <2> QED
    BY <1>1, <1>4, <2>1, <2>2, <2>3 DEF SameDay, SameJob
<1>5. CASE v.job = "rebuild"
  <2> DEFINE w == Visit(a, Following(a) \ {agent[a].day})
  <2>1. OneMoves(a, w) /\ Following(a) \ {agent[a].day} \subseteq Days
    BY <1>1, <1>5 DEF DayDone, Forms, OneMoves, Following
  <2> HIDE DEF w
  <2>2. WorkOk(w) /\ SameJob(w, agent[a]) /\ Visits(w, Following(a) \ {agent[a].day})
    BY <1>1, <1>5, <2>1, VisitWork DEF w
  <2> QED
    BY <1>1, <1>5, <2>1, <2>2
<1> QED
  BY <1>2, <1>3, <1>4, <1>5

(* What a job reads goes into its fields.                                   *)
LEMMA ReadLedgerWork ==
  ASSUME Forms, NEW a \in Agents, Working(a), ReadLedger(a)
  PROVE  \E w : /\ OneMoves(a, w) /\ WorkOk(w) /\ SameJob(w, agent[a])
                /\ w.at = "quotes" /\ w.day = agent[a].day /\ w.seen = UpTo(ledger, agent[a].day)
<1>1. PICK v : v = agent[a] /\ WorkOk(v) /\ v.at = "read"
  BY DEF Forms, ReadLedger, At
<1>2. PICK seen : seen = UpTo(ledger, v.day)
  OBVIOUS
<1> DEFINE w == [at |-> "quotes", job |-> v.job, from |-> v.from, day |-> v.day, to |-> v.to,
                 seen |-> seen, before |-> v.before, id |-> v.id, lines |-> v.lines,
                 inserted |-> v.inserted, sole |-> v.sole]
<1>3. [v EXCEPT !.seen = seen, !.at = "quotes"] = w
  <2> DEFINE u == [v EXCEPT !.seen = seen, !.at = "quotes"]
  <2>1. u = [f \in DOMAIN v |-> IF f = "at" THEN "quotes" ELSE IF f = "seen" THEN seen ELSE v[f]]
    OBVIOUS
  <2> HIDE DEF u
  <2>2. u = w
    BY <1>1, <2>1, WorkFields
  <2> QED
    BY <2>2 DEF u
<1>4. agent' = [agent EXCEPT ![a] = [v EXCEPT !.seen = seen, !.at = "quotes"]]
  BY <1>1, <1>2 DEF ReadLedger, Forms
<1> HIDE DEF w
<1>5. OneMoves(a, w)
  BY <1>3, <1>4 DEF OneMoves, Forms
<1>6. WorkOk(w)
  BY <1>1 DEF w, WorkOk, PointsOf, Recording
<1>7. SameJob(w, v) /\ w.at = "quotes" /\ w.day = v.day /\ w.seen = seen
  BY DEF w, SameJob
<1> QED
  BY <1>1, <1>2, <1>5, <1>6, <1>7

LEMMA LoadDayBeforeWork ==
  ASSUME Forms, NEW a \in Agents, Working(a), LoadDayBefore(a)
  PROVE  \E w : /\ OneMoves(a, w) /\ WorkOk(w) /\ SameJob(w, agent[a])
                /\ w.at = "find" /\ w.day = agent[a].day /\ w.seen = agent[a].seen
                /\ w.before = RowsBefore(agent[a].day)
<1>1. PICK v : v = agent[a] /\ WorkOk(v) /\ v.at = "before"
  BY DEF Forms, LoadDayBefore, At
<1>2. PICK before : before = RowsBefore(v.day)
  OBVIOUS
<1> DEFINE w == [at |-> "find", job |-> v.job, from |-> v.from, day |-> v.day, to |-> v.to,
                 seen |-> v.seen, before |-> before, id |-> v.id, lines |-> v.lines,
                 inserted |-> v.inserted, sole |-> v.sole]
<1>3. [v EXCEPT !.before = before, !.at = "find"] = w
  <2> DEFINE u == [v EXCEPT !.before = before, !.at = "find"]
  <2>1. u = [f \in DOMAIN v |-> IF f = "at" THEN "find" ELSE IF f = "before" THEN before ELSE v[f]]
    OBVIOUS
  <2> HIDE DEF u
  <2>2. u = w
    BY <1>1, <2>1, WorkFields
  <2> QED
    BY <2>2 DEF u
<1>4. agent' = [agent EXCEPT ![a] = [v EXCEPT !.before = before, !.at = "find"]]
  BY <1>1, <1>2 DEF LoadDayBefore, Forms
<1> HIDE DEF w
<1>5. OneMoves(a, w)
  BY <1>3, <1>4 DEF OneMoves, Forms
<1>6. WorkOk(w)
  BY <1>1 DEF w, WorkOk, PointsOf, Recording
<1>7. SameJob(w, v) /\ w.at = "find" /\ w.day = v.day /\ w.seen = v.seen /\ w.before = before
  BY DEF w, SameJob
<1> QED
  BY <1>1, <1>2, <1>5, <1>6, <1>7

LEMMA FindRowWork ==
  ASSUME Forms, NEW a \in Agents, Working(a), FindRow(a)
  PROVE  \E w : /\ OneMoves(a, w) /\ WorkOk(w) /\ SameJob(w, agent[a])
                /\ w.at = "write" /\ w.day = agent[a].day /\ w.seen = agent[a].seen
                /\ w.before = agent[a].before
                /\ rows[agent[a].day] = {} => w.id = NoId
<1>1. PICK v : v = agent[a] /\ WorkOk(v) /\ v.at = "find"
  BY DEF Forms, FindRow, At
<1>2. PICK id : id = IF rows[v.day] = {} THEN NoId ELSE (CHOOSE r \in rows[v.day] : TRUE).id
  OBVIOUS
<1> DEFINE w == [at |-> "write", job |-> v.job, from |-> v.from, day |-> v.day, to |-> v.to,
                 seen |-> v.seen, before |-> v.before, id |-> id, lines |-> v.lines,
                 inserted |-> v.inserted, sole |-> v.sole]
<1>3. [v EXCEPT !.id = id, !.at = "write"] = w
  <2> DEFINE u == [v EXCEPT !.id = id, !.at = "write"]
  <2>1. u = [f \in DOMAIN v |-> IF f = "at" THEN "write" ELSE IF f = "id" THEN id ELSE v[f]]
    OBVIOUS
  <2> HIDE DEF u
  <2>2. u = w
    BY <1>1, <2>1, WorkFields
  <2> QED
    BY <2>2 DEF u
<1>4. agent' = [agent EXCEPT ![a] = [v EXCEPT !.id = id, !.at = "write"]]
  BY <1>1, <1>2 DEF FindRow, Forms
<1> HIDE DEF w
<1>5. OneMoves(a, w)
  BY <1>3, <1>4 DEF OneMoves, Forms
<1>6. WorkOk(w)
  BY <1>1 DEF w, WorkOk, PointsOf, Recording
<1>7. SameJob(w, v) /\ w.at = "write" /\ w.day = v.day /\ w.seen = v.seen /\ w.before = v.before
      /\ w.id = id
  BY DEF w, SameJob
<1> QED
  BY <1>1, <1>2, <1>5, <1>6, <1>7

LEMMA LineWork ==
  ASSUME Forms, NEW a \in Agents, Working(a), NEW e, RecordLine(a, e)
  PROVE  \E w : /\ agent'[a] = w /\ WorkOk(w) /\ SameJob(w, agent[a]) /\ w.at = "line"
                /\ w.inserted = (agent[a].inserted \/ e \notin ledger)
                /\ e \in Entries /\ agent[a].from <= Entry[e].day
                /\ agent' = [b \in Agents |-> agent'[b]]
                /\ \A b \in Agents \ {a} :
                     agent'[b] = IF e \in ledger THEN agent[b] ELSE Disturb(agent[b])
<1>1. PICK v : v = agent[a] /\ WorkOk(v) /\ v.at = "line" /\ e \in v.lines
  BY DEF Forms, RecordLine, At
<1>2. PICK inserted : inserted = (v.inserted \/ e \notin ledger) /\ inserted \in BOOLEAN
  BY <1>1 DEF WorkOk
<1>3. PICK lines : lines = v.lines \ {e}
  OBVIOUS
<1> DEFINE w == [at |-> "line", job |-> v.job, from |-> v.from, day |-> v.day, to |-> v.to,
                 seen |-> v.seen, before |-> v.before, id |-> v.id, lines |-> lines,
                 inserted |-> inserted, sole |-> v.sole]
<1>4. [v EXCEPT !.lines = lines, !.inserted = inserted] = w
  <2> DEFINE u == [v EXCEPT !.lines = lines, !.inserted = inserted]
  <2>1. u = [f \in DOMAIN v |-> IF f = "inserted" THEN inserted ELSE IF f = "lines" THEN lines ELSE v[f]]
    OBVIOUS
  <2> HIDE DEF u
  <2>2. u = w
    BY <1>1, <2>1, WorkFields
  <2> QED
    BY <2>2 DEF u
<1>5. PICK base : base = IF e \in ledger THEN agent ELSE Disturbed({a})
  OBVIOUS
<1>6. /\ base = [b \in Agents |-> base[b]] /\ base[a] = v
      /\ \A b \in Agents \ {a} : base[b] = IF e \in ledger THEN agent[b] ELSE Disturb(agent[b])
  BY <1>1, <1>5 DEF Forms, Disturbed
<1>7. agent' = [base EXCEPT ![a] = [v EXCEPT !.lines = lines, !.inserted = inserted]]
  BY <1>1, <1>2, <1>3, <1>5, <1>6 DEF RecordLine
<1> HIDE DEF w
<1>8. agent' = [base EXCEPT ![a] = w]
  BY <1>4, <1>7
<1>9. /\ agent' = [b \in Agents |-> agent'[b]] /\ agent'[a] = w
      /\ \A b \in Agents \ {a} : agent'[b] = IF e \in ledger THEN agent[b] ELSE Disturb(agent[b])
  BY <1>6, <1>8
<1>10. WorkOk(w)
  BY <1>1, <1>2, <1>3 DEF w, WorkOk, PointsOf
<1>11. SameJob(w, v) /\ w.at = "line" /\ w.inserted = inserted
  BY DEF w, SameJob
<1>12. e \in Entries /\ v.from <= Entry[e].day
  BY <1>1 DEF WorkOk
<1> QED
  BY <1>1, <1>2, <1>9, <1>10, <1>11, <1>12

LEMMA LinesDoneWork ==
  ASSUME Forms, NEW a \in Agents, Working(a), LinesDone(a)
  PROVE  \E w : /\ OneMoves(a, w)
                /\ IF agent[a].inserted
                   THEN w.at = "sweep" /\ WorkOk(w) /\ SameDay(w, agent[a])
                   ELSE w = Idle
<1>1. PICK v : v = agent[a] /\ WorkOk(v) /\ v.at = "line"
  BY DEF Forms, LinesDone, At
<1>2. v.job = "import"
  BY <1>1 DEF WorkOk, PointsOf, Recording
<1> DEFINE w == [v EXCEPT !.at = "sweep"]
<1>3. w = [at |-> "sweep", job |-> v.job, from |-> v.from, day |-> v.day, to |-> v.to, seen |-> v.seen,
           before |-> v.before, id |-> v.id, lines |-> v.lines, inserted |-> v.inserted,
           sole |-> v.sole]
  BY <1>1 DEF WorkOk
<1>4. OneMoves(a, IF v.inserted THEN w ELSE Idle)
  BY <1>1 DEF LinesDone, OneMoves, Forms
<1> HIDE DEF w
<1>5. WorkOk(w)
  BY <1>1, <1>2, <1>3 DEF WorkOk, PointsOf
<1>6. SameDay(w, v) /\ w.at = "sweep"
  BY <1>3 DEF SameDay, SameJob
<1> QED
  BY <1>1, <1>4, <1>5, <1>6

LEMMA WriteRowWork ==
  ASSUME Forms, NEW a \in Agents, Working(a), WriteRow(a)
  PROVE  \/ \E w, r :
              /\ OneMoves(a, w) /\ WorkOk(w) /\ SameJob(w, agent[a])
              /\ w.at = "positions" /\ w.day = agent[a].day /\ w.seen = agent[a].seen
              /\ rows' = [rows EXCEPT ![agent[a].day] = {r}]
              /\ RowOk(r) /\ r.id = w.id /\ r.seen = agent[a].seen /\ r.checked = FALSE
              /\ r.chain = Chain(agent[a].before, agent[a].day, agent[a].seen)
         \/ /\ OneMoves(a, Failed(a)) /\ UNCHANGED rows
            /\ \A r \in rows[agent[a].day] : r.id # agent[a].id
            /\ agent[a].id = NoId => rows[agent[a].day] # {}
<1>1. PICK v : v = agent[a] /\ WorkOk(v) /\ v.at = "write"
  BY DEF Forms, WriteRow, At
<1>2. CASE \E id : /\ rows' = [rows EXCEPT ![v.day] = {Valued(a, id)}]
                   /\ \/ agent' = [agent EXCEPT ![a].id = id, ![a].before = {}, ![a].at = "positions"]
                      \/ id = v.id /\ agent' = [agent EXCEPT ![a].before = {}, ![a].at = "positions"]
  <2>1. PICK id : /\ rows' = [rows EXCEPT ![v.day] = {Valued(a, id)}]
                  /\ \/ agent' = [agent EXCEPT ![a].id = id, ![a].before = {}, ![a].at = "positions"]
                     \/ id = v.id /\ agent' = [agent EXCEPT ![a].before = {}, ![a].at = "positions"]
    BY <1>2
  <2> DEFINE w == [at |-> "positions", job |-> v.job, from |-> v.from, day |-> v.day, to |-> v.to,
                   seen |-> v.seen, before |-> {}, id |-> id, lines |-> v.lines,
                   inserted |-> v.inserted, sole |-> v.sole]
             u == [v EXCEPT !.id = id, !.before = {}, !.at = "positions"]
             t == [v EXCEPT !.before = {}, !.at = "positions"]
  <2>2. u = [f \in DOMAIN v |-> IF f = "at" THEN "positions" ELSE IF f = "before" THEN {}
                                ELSE IF f = "id" THEN id ELSE v[f]]
    OBVIOUS
  <2>3. t = [f \in DOMAIN v |-> IF f = "at" THEN "positions" ELSE IF f = "before" THEN {} ELSE v[f]]
    OBVIOUS
  <2>4. \/ agent' = [agent EXCEPT ![a] = u]
        \/ id = v.id /\ agent' = [agent EXCEPT ![a] = t]
    BY <1>1, <2>1 DEF Forms
  <2> HIDE DEF u, t
  <2>5. u = w /\ (id = v.id => t = w)
    BY <1>1, <2>2, <2>3, WorkFields
  <2> HIDE DEF w
  <2>6. OneMoves(a, w)
    BY <2>4, <2>5 DEF OneMoves, Forms
  <2>7. WorkOk(w)
    BY <1>1 DEF w, WorkOk, PointsOf, Recording
  <2>8. SameJob(w, v) /\ w.at = "positions" /\ w.day = v.day /\ w.seen = v.seen /\ w.id = id
    BY DEF w, SameJob
  <2> DEFINE r == Valued(a, id)
  <2>9. /\ RowOk(r) /\ r.id = id /\ r.seen = v.seen /\ r.checked = FALSE
        /\ r.chain = Chain(v.before, v.day, v.seen)
    BY <1>1 DEF Valued, RowOk
  <2>10. rows' = [rows EXCEPT ![v.day] = {r}]
    BY <2>1
  <2> HIDE DEF r
  <2> QED
    BY <1>1, <2>6, <2>7, <2>8, <2>9, <2>10
<1>3. CASE ~ \E id : /\ rows' = [rows EXCEPT ![v.day] = {Valued(a, id)}]
                     /\ \/ agent' = [agent EXCEPT ![a].id = id, ![a].before = {}, ![a].at = "positions"]
                        \/ id = v.id /\ agent' = [agent EXCEPT ![a].before = {}, ![a].at = "positions"]
  <2>1. /\ DayFails(a) /\ UNCHANGED rows /\ {r \in rows[v.day] : r.id = v.id} = {}
        /\ v.id = NoId => rows[v.day] # {}
    BY <1>1, <1>3 DEF WriteRow
  <2> QED
    BY <1>1, <2>1 DEF DayFails, OneMoves, Forms
<1> QED
  BY <1>2, <1>3

LEMMA CheckedRow ==
  ASSUME NEW r, RowOk(r)
  PROVE  [r EXCEPT !.checked = TRUE] = [id |-> r.id, seen |-> r.seen, chain |-> r.chain, checked |-> TRUE]
<1> DEFINE u == [r EXCEPT !.checked = TRUE]
<1>1. u = [f \in DOMAIN r |-> IF f = "checked" THEN TRUE ELSE r[f]]
  OBVIOUS
<1>2. DOMAIN r = {"id", "seen", "chain", "checked"}
  BY DEF RowOk
<1> HIDE DEF u
<1>3. u = [id |-> r.id, seen |-> r.seen, chain |-> r.chain, checked |-> TRUE]
  BY <1>1, <1>2
<1> QED
  BY <1>3 DEF u

(* The rows a finished day keeps are those it had, with the verdict.        *)
LEMMA FinishRows ==
  ASSUME Forms, NEW a \in Agents, Working(a), Finish(a)
  PROVE  /\ \A d \in Days \ {agent[a].day} : rows'[d] = rows[d]
         /\ rows' = [d \in Days |-> rows'[d]]
         /\ \A r \in rows'[agent[a].day] :
              \/ r \in rows[agent[a].day] /\ r.id # agent[a].id
              \/ \E q \in rows[agent[a].day] :
                   q.id = agent[a].id /\ r = [id |-> q.id, seen |-> q.seen, chain |-> q.chain, checked |-> TRUE]
         /\ \A q \in rows[agent[a].day] :
              q.id = agent[a].id =>
                [id |-> q.id, seen |-> q.seen, chain |-> q.chain, checked |-> TRUE] \in rows'[agent[a].day]
<1> DEFINE d == agent[a].day
           mine == {r \in rows[d] : r.id = agent[a].id}
<1>1. d \in Days
  BY DEF Forms, WorkOk
<1>2. rows' = [rows EXCEPT ![d] = (rows[d] \ mine) \cup {[r EXCEPT !.checked = TRUE] : r \in mine}]
  BY DEF Finish
<1>3. \A r \in mine : [r EXCEPT !.checked = TRUE]
                      = [id |-> r.id, seen |-> r.seen, chain |-> r.chain, checked |-> TRUE]
  BY <1>1, CheckedRow DEF Forms
<1> DEFINE T == {[r EXCEPT !.checked = TRUE] : r \in mine}
<1>4. rows'[d] = (rows[d] \ mine) \cup T
  BY <1>1, <1>2 DEF Forms
<1>8. \A x \in T : \E q \in mine :
        x = [id |-> q.id, seen |-> q.seen, chain |-> q.chain, checked |-> TRUE]
  BY <1>3
<1>9. ASSUME NEW q \in mine
      PROVE  [id |-> q.id, seen |-> q.seen, chain |-> q.chain, checked |-> TRUE] \in T
  <2>1. [q EXCEPT !.checked = TRUE] \in T
    OBVIOUS
  <2> QED
    BY <1>3, <2>1
<1> HIDE DEF T
<1>5. \A x \in Days \ {d} : rows'[x] = rows[x]
  BY <1>2 DEF Forms
<1>6. rows' = [x \in Days |-> rows'[x]]
  BY <1>2 DEF Forms
<1> HIDE DEF d
<1>7. /\ \A r \in rows'[d] :
           \/ r \in rows[d] /\ r.id # agent[a].id
           \/ \E q \in rows[d] :
                q.id = agent[a].id /\ r = [id |-> q.id, seen |-> q.seen, chain |-> q.chain, checked |-> TRUE]
      /\ \A q \in rows[d] :
           q.id = agent[a].id =>
             [id |-> q.id, seen |-> q.seen, chain |-> q.chain, checked |-> TRUE] \in rows'[d]
  BY <1>4, <1>8, <1>9
<1> QED
  BY <1>5, <1>6, <1>7 DEF d

LEMMA FinishWork ==
  ASSUME Forms, NEW a \in Agents, Working(a), Finish(a)
  PROVE  \E w :
    /\ OneMoves(a, w)
    /\ \/ agent[a].job # "rebuild" /\ w = Idle
       \/ agent[a].job = "materialise" /\ w.at = "prices" /\ WorkOk(w) /\ SameDay(w, agent[a])
       \/ /\ agent[a].job = "rebuild" /\ WorkOk(w) /\ SameJob(w, agent[a])
          /\ Visits(w, Following(a) \ {agent[a].day})
<1>1. CASE DayFails(a)
  <2>1. OneMoves(a, Failed(a))
    BY <1>1 DEF DayFails, OneMoves, Forms
  <2> QED
    BY <2>1, FailedWork
<1>2. CASE DayDone(a)
  BY <1>2, DoneWork DEF Finish, At, Recording
<1> QED
  BY <1>1, <1>2 DEF Finish

(* What is disturbed is where it was.                                       *)
SamePlace(w, v) ==
  /\ w.at = v.at /\ w.job = v.job /\ w.from = v.from /\ w.day = v.day /\ w.seen = v.seen
  /\ w.inserted = v.inserted

LEMMA DisturbWork ==
  ASSUME NEW v, WorkOk(v), NEW w, w = Disturb(v)
  PROVE  /\ WorkOk(w) /\ w.at = v.at /\ w.job = v.job /\ w.from = v.from /\ w.day = v.day
         /\ w.seen = v.seen /\ w.before = v.before /\ w.id = v.id /\ w.inserted = v.inserted
         /\ w.lines = v.lines /\ w.sole = FALSE
         /\ SamePlace(w, v)
<1>1. v # Idle
  BY WorkFields DEF Idle
<1>2. w = [v EXCEPT !.sole = FALSE]
  BY <1>1 DEF Disturb
<1>3. w = [f \in DOMAIN v |-> IF f = "sole" THEN FALSE ELSE v[f]]
  BY <1>2
<1>4. w = [at |-> v.at, job |-> v.job, from |-> v.from, day |-> v.day, to |-> v.to, seen |-> v.seen,
           before |-> v.before, id |-> v.id, lines |-> v.lines, inserted |-> v.inserted,
           sole |-> FALSE]
  BY <1>3, WorkFields
<1>5. WorkOk(w)
  BY <1>4 DEF WorkOk
<1> QED
  BY <1>4, <1>5 DEF SamePlace

LEMMA StartWork ==
  ASSUME Forms, NEW a \in Agents, NEW job, Start(a, job)
  PROVE  /\ ~Working(a) /\ agent'[a] = job /\ agent' = [b \in Agents |-> agent'[b]]
         /\ \A b \in Agents \ {a} : agent'[b] = Disturb(agent[b])
         /\ apart' = (apart /\ Others(a) = {})
         /\ UNCHANGED <<ledger, quotes, rows, positions, unswept, troubles>>
<1>1. ~Working(a)
  BY Awake DEF Start
<1>2. PICK base : base = Disturbed({a})
  OBVIOUS
<1>3. base = [b \in Agents |-> base[b]] /\ \A b \in Agents \ {a} : base[b] = Disturb(agent[b])
  BY <1>2 DEF Disturbed
<1>4. agent' = [base EXCEPT ![a] = job]
  BY <1>2 DEF Start
<1>5. agent' = [b \in Agents |-> agent'[b]] /\ agent'[a] = job
      /\ \A b \in Agents \ {a} : agent'[b] = Disturb(agent[b])
  BY <1>3, <1>4
<1> QED
  BY <1>1, <1>5 DEF Start, ledgers, store

JobOk(w, a, name, p, from) ==
  /\ WorkOk(w) /\ w.at = p /\ w.job = name /\ w.from = from /\ w.day = from
  /\ w.inserted = FALSE
  /\ w.sole = TRUE => name = "rebuild" /\ Others(a) = {}

LEMMA JobWork ==
  \A a, name, p, from, to, lines :
    /\ name \in {"record", "materialise", "rebuild", "import"} /\ p \in PointsOf(name)
    /\ from \in Days /\ to \in Int
    /\ \A e \in lines : e \in Entries /\ from <= Entry[e].day
    => JobOk(Job(a, name, p, from, to, lines), a, name, p, from)
<1> SUFFICES ASSUME NEW a, NEW name, NEW p, NEW from, NEW to, NEW lines, NEW w,
                    w = Job(a, name, p, from, to, lines),
                    name \in {"record", "materialise", "rebuild", "import"}, p \in PointsOf(name),
                    from \in Days, to \in Int, \A e \in lines : e \in Entries /\ from <= Entry[e].day
             PROVE  JobOk(w, a, name, p, from)
  OBVIOUS
<1>1. PICK sole \in BOOLEAN : sole = (name = "rebuild" /\ Others(a) = {})
  OBVIOUS
<1>2. w = [at |-> p, job |-> name, from |-> from, day |-> from, to |-> to, seen |-> {}, before |-> {},
           id |-> NoId, lines |-> lines, inserted |-> FALSE, sole |-> sole]
  BY <1>1 DEF Job
<1>3. /\ w.at = p /\ w.job = name /\ w.from = from /\ w.day = from /\ w.to = to /\ w.lines = lines
      /\ w.inserted = FALSE /\ w.sole = sole
  BY <1>2
<1>4. WorkOk(w)
  BY <1>2, <1>3 DEF WorkOk
<1>5. sole = TRUE => name = "rebuild" /\ Others(a) = {}
  BY <1>1
<1> QED
  BY <1>3, <1>4, <1>5 DEF JobOk

(* The range of a rebuild lies among the days.                              *)
LEMMA RebuildFrom ==
  ASSUME Forms, NEW a \in Agents, NEW from \in Days, NEW to \in Days, StartRebuild(a, from, to)
  PROVE  \E first \in Days, last \in Int : Start(a, Job(a, "rebuild", "sweep", first, last, {}))
<1> DEFINE entries == UpTo(ledger, Today)
           min == PeriodMin(entries)
           max == Max({LastTrusted, min})
           first == Clamp(from, min, max)
<1>1. min \in Days
  <2>1. CASE Opening # 0
    BY <2>1, DayAssumption DEF PeriodMin, Days
  <2>2. CASE Opening = 0 /\ entries = {}
    BY <2>2, DayAssumption DEF PeriodMin, Days
  <2>3. CASE Opening = 0 /\ entries # {}
    <3> DEFINE S == {Entry[e].day : e \in entries}
    <3>1. S \subseteq Days /\ S # {}
      BY <2>3, EntryAssumption DEF Forms, UpTo
    <3>2. Min(S) \in S
      BY <3>1, FirstDay
    <3>3. min = Min(S)
      BY <2>3 DEF PeriodMin
    <3> QED
      BY <3>1, <3>2, <3>3
  <2> QED
    BY <2>1, <2>2, <2>3
<1>2. LastTrusted \in Days
  <2>1. CASE quotes = {}
    BY <2>1, DayAssumption DEF LastTrusted, Days
  <2>2. CASE quotes # {}
    <3> DEFINE S == {q[1] : q \in quotes}
    <3>1. S \subseteq Days /\ S # {}
      BY <2>2 DEF Forms
    <3>2. Max(S) \in S
      BY <3>1, LastDay
    <3>3. LastTrusted = Max(S)
      BY <2>2 DEF LastTrusted
    <3> QED
      BY <3>1, <3>2, <3>3
  <2> QED
    BY <2>1, <2>2
<1>3. max \in Days
  <2>1. {LastTrusted, min} \subseteq Days /\ {LastTrusted, min} # {}
    BY <1>1, <1>2
  <2> HIDE DEF min
  <2> QED
    BY <2>1, LastDay
<1> HIDE DEF min, max
<1>4. first \in Days
  BY <1>1, <1>3 DEF Clamp
<1> HIDE DEF first
<1>6. Clamp(to, first, max) \in Int
  BY <1>3, <1>4 DEF Clamp, Days
<1>5. Start(a, Job(a, "rebuild", "sweep", first, Clamp(to, first, max), {}))
  BY DEF StartRebuild, first, max, min, entries
<1> QED
  BY <1>4, <1>5, <1>6

LEMMA ThrowWork ==
  ASSUME Forms, NEW a \in Agents, Throw(a)
  PROVE  /\ Working(a) /\ troubles' = troubles + 1
         /\ \E w : /\ OneMoves(a, w)
                   /\ \/ w = Idle /\ ~(agent[a].job = "rebuild" /\ agent[a].at # "prices")
                      \/ /\ WorkOk(w) /\ w.job = agent[a].job /\ w.at \in {"read", "prices"}
                         /\ w.sole = FALSE
<1>1. Working(a) /\ troubles' = troubles + 1
  BY Awake DEF Throw
<1>2. PICK v : v = agent[a] /\ WorkOk(v)
  BY <1>1 DEF Forms
<1> DEFINE u == CASE v.at \in {"sweep", "sweep_positions"} -> Swept(a)
                  [] v.at \in {"line", "prices"} -> Idle
                  [] OTHER -> Failed(a)
<1>3. PICK w : w = Disturb(u) /\ OneMoves(a, w)
  BY <1>2 DEF Throw, OneMoves, Forms
<1>7. /\ u = Idle => w = Idle
      /\ WorkOk(u) => WorkOk(w) /\ w.job = u.job /\ w.at = u.at /\ w.sole = FALSE
  <2> HIDE DEF u
  <2>1. u = Idle => w = Idle
    BY <1>3 DEF Disturb
  <2>2. WorkOk(u) => WorkOk(w) /\ w.job = u.job /\ w.at = u.at /\ w.sole = FALSE
    BY <1>3, DisturbWork
  <2> QED
    BY <2>1, <2>2
<1>4. CASE v.at \in {"sweep", "sweep_positions"}
  <2>1. u = Swept(a)
    BY <1>4
  <2> HIDE DEF u
  <2>2. \/ v.job = "import" /\ u = Idle
        \/ WorkOk(u) /\ u.job = v.job /\ u.at \in {"read", "prices"}
    BY <1>1, <1>2, <1>4, <2>1, SweptWork DEF SameDay, SameJob, Visits
  <2> QED
    BY <1>1, <1>2, <1>3, <1>7, <2>2
<1>5. CASE v.at \in {"line", "prices"}
  <2>1. u = Idle
    BY <1>5
  <2> HIDE DEF u
  <2>2. w = Idle
    BY <1>3, <2>1 DEF Disturb
  <2>3. v.job = "rebuild" => v.at = "prices"
    BY <1>2, <1>5 DEF WorkOk, PointsOf, Recording
  <2> QED
    BY <1>1, <1>2, <1>3, <2>2, <2>3
<1>6. CASE v.at \notin {"sweep", "sweep_positions", "line", "prices"}
  <2>1. u = Failed(a)
    BY <1>6
  <2> HIDE DEF u
  <2>2. \/ v.job # "rebuild" /\ u = Idle
        \/ WorkOk(u) /\ u.job = v.job /\ u.at \in {"read", "prices"}
    BY <1>1, <1>2, <2>1, FailedWork DEF SameJob, Visits
  <2> QED
    BY <1>1, <1>2, <1>3, <1>7, <2>2
<1> QED
  BY <1>4, <1>5, <1>6

(* A job at work is alone in moving, and a rebuild goes on up to its last   *)
(* step.                                                                    *)
GoesOn(a, w) ==
  /\ OneMoves(a, w)
  /\ w = Idle \/ (WorkOk(w) /\ w.job = agent[a].job /\ (w.sole = TRUE => agent[a].sole = TRUE))
  /\ agent[a].job = "rebuild" /\ agent[a].at # "prices" => w # Idle

LEMMA WorkGoesOn ==
  ASSUME Forms, NEW a \in Agents, Work(a)
  PROVE  /\ Working(a)
         /\ (\E e \in Entries : RecordLine(a, e)) \/ (\E w : GoesOn(a, w))
<1>1. Working(a)
  BY Awake DEF Work, RecordLine, LinesDone, Sweep, SweepPositions, ReadLedger, ReadQuotes,
     LoadDayBefore, FindRow, WriteRow, WritePositions, Validate, Finish, Prices, At, Idle, Working
<1>2. WorkOk(agent[a])
  BY <1>1 DEF Forms
<1> SUFFICES ASSUME ~ \E e \in Entries : RecordLine(a, e) PROVE \E w : GoesOn(a, w)
  BY <1>1
<1>3. \A w : WorkOk(w) => w # Idle
  BY WorkFields DEF Idle
<1>4. ASSUME NEW w, OneMoves(a, w), WorkOk(w), SameJob(w, agent[a]) PROVE GoesOn(a, w)
  BY <1>3, <1>4 DEF GoesOn, SameJob
<1>5. ASSUME NEW w, OneMoves(a, w), w = Failed(a) PROVE GoesOn(a, w)
  BY <1>1, <1>3, <1>5, FailedWork DEF GoesOn, SameJob
<1>6. ASSUME NEW p, Go(a, p), p \in PointsOf(agent[a].job) PROVE \E w : GoesOn(a, w)
  BY <1>1, <1>4, <1>6, GoWork DEF SameDay
<1>7. CASE Sweep(a)
  <2>1. "sweep_positions" \in PointsOf(agent[a].job)
    BY <1>2, <1>7 DEF Sweep, At, WorkOk, PointsOf, Recording
  <2> QED
    BY <1>6, <1>7, <2>1 DEF Sweep
<1>8. CASE SweepPositions(a)
  <2>1. PICK w : w = Swept(a) /\ OneMoves(a, w)
    BY <1>8 DEF SweepPositions, OneMoves, Forms
  <2>2. agent[a].at = "sweep_positions"
    BY <1>8 DEF SweepPositions, At
  <2> QED
    BY <1>1, <1>3, <2>1, <2>2, SweptWork DEF GoesOn, SameJob, SameDay
<1>9. CASE LinesDone(a)
  <2>1. agent[a].job # "rebuild"
    BY <1>2, <1>9 DEF LinesDone, At, WorkOk, PointsOf, Recording
  <2> QED
    BY <1>1, <1>9, <2>1, LinesDoneWork DEF GoesOn, SameDay, SameJob
<1>10. CASE ReadLedger(a)
  <2>1. PICK w : OneMoves(a, w) /\ WorkOk(w) /\ SameJob(w, agent[a])
    BY <1>1, <1>10, ReadLedgerWork
  <2> QED
    BY <1>4, <2>1
<1>11. CASE LoadDayBefore(a)
  <2>1. PICK w : OneMoves(a, w) /\ WorkOk(w) /\ SameJob(w, agent[a])
    BY <1>1, <1>11, LoadDayBeforeWork
  <2> QED
    BY <1>4, <2>1
<1>12. CASE FindRow(a)
  <2>1. PICK w : OneMoves(a, w) /\ WorkOk(w) /\ SameJob(w, agent[a])
    BY <1>1, <1>12, FindRowWork
  <2> QED
    BY <1>4, <2>1
<1>13. CASE WriteRow(a)
  <2>1. CASE OneMoves(a, Failed(a))
    BY <1>5, <2>1
  <2>2. CASE ~OneMoves(a, Failed(a))
    <3>1. PICK w : OneMoves(a, w) /\ WorkOk(w) /\ SameJob(w, agent[a])
      BY <1>1, <1>13, <2>2, WriteRowWork
    <3> QED
      BY <1>4, <3>1
  <2> QED
    BY <2>1, <2>2
<1>14. CASE ReadQuotes(a) \/ Validate(a)
  <2>1. PICK p \in {"before", "finish"} : Go(a, p) \/ DayFails(a)
    BY <1>14 DEF ReadQuotes, Validate
  <2>2. p \in PointsOf(agent[a].job)
    BY <1>2, <1>14 DEF ReadQuotes, Validate, At, WorkOk, PointsOf, Recording
  <2>3. CASE DayFails(a)
    BY <1>5, <2>3 DEF DayFails, OneMoves, Forms
  <2> QED
    BY <1>6, <2>1, <2>2, <2>3
<1>15. CASE WritePositions(a)
  <2>1. "validate" \in PointsOf(agent[a].job)
    BY <1>2, <1>15 DEF WritePositions, At, WorkOk, PointsOf, Recording
  <2> QED
    BY <1>6, <1>15, <2>1 DEF WritePositions
<1>16. CASE Finish(a)
  BY <1>1, <1>3, <1>16, FinishWork DEF GoesOn, SameDay, SameJob
<1>17. CASE Prices(a)
  <2>1. OneMoves(a, Idle) /\ agent[a].at = "prices"
    BY <1>17 DEF Prices, OneMoves, Forms, At
  <2> QED
    BY <2>1 DEF GoesOn
<1> QED
  BY <1>1, <1>7, <1>8, <1>9, <1>10, <1>11, <1>12, <1>13, <1>14, <1>15, <1>16, <1>17 DEF Work

(* A job that starts beside the others.                                     *)
Starts(a) ==
  \E job : /\ Start(a, job) /\ WorkOk(job)
           /\ job.at \in {"line", "sweep", "read"} /\ job.inserted = FALSE /\ job.day = job.from
           /\ job.at = "sweep" => job.job # "import"
           /\ job.job = "rebuild" => job.at = "sweep"
           /\ job.sole = TRUE => job.job = "rebuild" /\ Others(a) = {}

LEMMA StartStarts ==
  ASSUME Forms, NEW a \in Agents,
         \/ \E d \in Days : StartRecord(a, d) \/ StartMaterialise(a, d)
         \/ \E from, to \in Days : from <= to /\ StartRebuild(a, from, to)
         \/ \E lines \in (SUBSET Entries) \ {{}} : StartImport(a, lines)
  PROVE  /\ Starts(a)
         /\ \/ UNCHANGED rebuilding
            \/ rebuilding' = TRUE /\ agent'[a].job = "rebuild"
<1>1. ASSUME NEW d \in Days, StartRecord(a, d) PROVE Starts(a) /\ UNCHANGED rebuilding
  <2>1. PICK job : job = Job(a, "record", "read", d, d, {}) /\ Start(a, job)
    BY <1>1 DEF StartRecord
  <2>2. "read" \in PointsOf("record")
    BY DEF PointsOf, Recording
  <2>4. d \in Int
    BY DEF Days
  <2>3. /\ WorkOk(job) /\ job.at = "read" /\ job.job = "record" /\ job.inserted = FALSE /\ job.day = job.from
        /\ job.sole # TRUE
    <3>1. JobOk(job, a, "record", "read", d)
      BY <2>1, <2>2, <2>4, JobWork
    <3> QED
      BY <3>1 DEF JobOk
  <2> QED
    BY <1>1, <2>1, <2>3 DEF StartRecord, Starts
<1>2. ASSUME NEW d \in Days, StartMaterialise(a, d) PROVE Starts(a) /\ UNCHANGED rebuilding
  <2>1. PICK job : job = Job(a, "materialise", "sweep", d, d, {}) /\ Start(a, job)
    BY <1>2 DEF StartMaterialise
  <2>2. "sweep" \in PointsOf("materialise")
    BY DEF PointsOf, Recording
  <2>4. d \in Int
    BY DEF Days
  <2>3. /\ WorkOk(job) /\ job.at = "sweep" /\ job.job = "materialise" /\ job.inserted = FALSE
        /\ job.day = job.from /\ job.sole # TRUE
    <3>1. JobOk(job, a, "materialise", "sweep", d)
      BY <2>1, <2>2, <2>4, JobWork
    <3> QED
      BY <3>1 DEF JobOk
  <2> QED
    BY <1>2, <2>1, <2>3 DEF StartMaterialise, Starts
<1>3. ASSUME NEW from \in Days, NEW to \in Days, StartRebuild(a, from, to)
      PROVE  Starts(a) /\ rebuilding' = TRUE /\ agent'[a].job = "rebuild"
  <2>0. PICK first \in Days, last \in Int : Start(a, Job(a, "rebuild", "sweep", first, last, {}))
    BY <1>3, RebuildFrom
  <2>1. PICK job : job = Job(a, "rebuild", "sweep", first, last, {}) /\ Start(a, job)
    BY <2>0
  <2>2. "sweep" \in PointsOf("rebuild")
    BY DEF PointsOf, Recording
  <2>3. /\ WorkOk(job) /\ job.at = "sweep" /\ job.job = "rebuild" /\ job.inserted = FALSE
        /\ job.day = job.from
        /\ job.sole = TRUE => Others(a) = {}
    BY <2>1, <2>2, JobWork DEF JobOk
  <2>4. agent'[a] = job
    BY <2>1, StartWork
  <2>5. rebuilding' = TRUE
    BY <1>3 DEF StartRebuild
  <2> QED
    BY <2>1, <2>3, <2>4, <2>5 DEF Starts
<1>4. ASSUME NEW lines \in (SUBSET Entries) \ {{}}, StartImport(a, lines)
      PROVE  Starts(a) /\ UNCHANGED rebuilding
  <2> DEFINE S == {Entry[e].day : e \in lines}
  <2>1. S \subseteq Days /\ S # {}
    <3>1. \A e \in lines : Entry[e].day \in Days
      BY EntryAssumption
    <3>2. lines # {}
      BY Zenon
    <3> QED
      BY <3>1, <3>2
  <2>2. PICK from \in Days : from = Min(S) /\ \A d \in S : from <= d
    BY <2>1, FirstDay
  <2>3. \A e \in lines : e \in Entries /\ from <= Entry[e].day
    BY <2>2
  <2>4. PICK job : job = Job(a, "import", "line", from, Today, lines) /\ Start(a, job)
    BY <1>4, <2>2 DEF StartImport
  <2>5. "line" \in PointsOf("import")
    BY DEF PointsOf
  <2>6. /\ WorkOk(job) /\ job.at = "line" /\ job.job = "import" /\ job.inserted = FALSE /\ job.day = job.from
        /\ job.sole # TRUE
    <3>1. JobOk(job, a, "import", "line", from)
      BY <2>3, <2>4, <2>5, JobWork, DayAssumption
    <3> QED
      BY <3>1 DEF JobOk
  <2> QED
    BY <1>4, <2>4, <2>6 DEF StartImport, Starts
<1> QED
  BY <1>1, <1>2, <1>3, <1>4

LEMMA StepCases ==
  ASSUME Forms, [Next]_vars
  PROVE  \/ \E a \in Agents : Starts(a) \/ Work(a) \/ Throw(a)
         \/ (\E d \in Days, t \in Exact : QuoteArrives(d, t)) \/ (\E e \in Entries : Add(e) \/ Drop(e))
         \/ Crash \/ UNCHANGED vars
<1>1. ASSUME NEW a \in Agents,
             \/ \E d \in Days : StartRecord(a, d) \/ StartMaterialise(a, d)
             \/ \E from, to \in Days : from <= to /\ StartRebuild(a, from, to)
             \/ \E lines \in (SUBSET Entries) \ {{}} : StartImport(a, lines)
      PROVE  Starts(a)
  BY <1>1, StartStarts
<1> QED
  BY <1>1 DEF Next

LEMMA LooseStep == ASSUME Forms, [Next]_vars PROVE loose' \subseteq Entries
BY StepCases DEF Forms, Starts, Start, Work, RecordLine, LinesDone, Sweep, SweepPositions, ReadLedger,
   ReadQuotes, LoadDayBefore, FindRow, WriteRow, WritePositions, Validate, Finish, Prices, Throw,
   QuoteArrives, Add, Drop, Unswept, Crash, ledgers, vars

LEMMA FormsStep == ASSUME Forms, [Next]_vars PROVE Forms'
<1> DEFINE Same == UNCHANGED <<ledger, quotes, rows, positions, unswept, troubles>>
<1>1. ASSUME agent' = [b \in Agents |-> agent'[b]],
             \A b \in Agents : agent'[b] = Idle \/ WorkOk(agent'[b]),
             ledger' \subseteq Entries, \A q \in quotes' : q[1] \in Days,
             rows' = [d \in Days |-> rows'[d]], \A d \in Days : \A r \in rows'[d] : RowOk(r),
             positions' = [d \in Days |-> positions'[d]], unswept' \in Nat, troubles' \in Nat
      PROVE  Forms'
  BY <1>1, LooseStep DEF Forms, Working
<1>2. CASE Same /\ UNCHANGED agent
  BY <1>1, <1>2, LooseStep DEF Forms, Working
<1>3. \A b \in Agents : Disturb(agent[b]) = Idle \/ WorkOk(Disturb(agent[b]))
  <2> SUFFICES ASSUME NEW b \in Agents PROVE Disturb(agent[b]) = Idle \/ WorkOk(Disturb(agent[b]))
    OBVIOUS
  <2>1. CASE agent[b] = Idle
    BY <2>1 DEF Disturb
  <2>2. CASE agent[b] # Idle
    BY <2>2, DisturbWork DEF Forms, Working
  <2> QED
    BY <2>1, <2>2
<1>4. ASSUME NEW a \in Agents, NEW w, OneMoves(a, w), w = Idle \/ WorkOk(w)
      PROVE  agent' = [b \in Agents |-> agent'[b]] /\ \A b \in Agents : agent'[b] = Idle \/ WorkOk(agent'[b])
  BY <1>4 DEF OneMoves, Forms, Working
<1>5. ASSUME NEW a \in Agents, Starts(a) PROVE Forms'
  <2>1. PICK job : Start(a, job) /\ WorkOk(job)
    BY <1>5 DEF Starts
  <2>2. /\ agent'[a] = job /\ agent' = [b \in Agents |-> agent'[b]]
        /\ \A b \in Agents \ {a} : agent'[b] = Disturb(agent[b])
        /\ Same
    BY <2>1, StartWork
  <2> QED
    BY <1>1, <1>3, <2>1, <2>2 DEF Forms
<1>6. ASSUME NEW a \in Agents, NEW e \in Entries, RecordLine(a, e) PROVE Forms'
  <2>1. Working(a)
    BY <1>6, Awake DEF RecordLine, At
  <2>2. /\ agent' = [b \in Agents |-> agent'[b]] /\ WorkOk(agent'[a])
        /\ \A b \in Agents \ {a} : agent'[b] = agent[b] \/ agent'[b] = Disturb(agent[b])
    BY <1>6, <2>1, LineWork
  <2>3. ledger' = ledger \cup {e} /\ UNCHANGED <<quotes, rows, positions, unswept, troubles>>
    BY <1>6 DEF RecordLine, store, bounds
  <2> QED
    BY <1>1, <1>3, <2>2, <2>3 DEF Forms, Working
<1>7. ASSUME NEW a \in Agents, Work(a), ~ \E e \in Entries : RecordLine(a, e) PROVE Forms'
  <2>1. PICK w : GoesOn(a, w)
    BY <1>7, WorkGoesOn
  <2>2. agent' = [b \in Agents |-> agent'[b]] /\ \A b \in Agents : agent'[b] = Idle \/ WorkOk(agent'[b])
    BY <1>4, <2>1 DEF GoesOn
  <2>3. UNCHANGED <<ledger, quotes, unswept, troubles>>
    BY <1>7 DEF Work, LinesDone, Sweep, SweepPositions, ReadLedger, ReadQuotes, LoadDayBefore,
       FindRow, WriteRow, WritePositions, Validate, Finish, Prices, ledgers, bounds
  <2>4. rows' = [d \in Days |-> rows'[d]] /\ \A d \in Days : \A r \in rows'[d] : RowOk(r)
    <3>1. CASE UNCHANGED rows
      BY <3>1 DEF Forms
    <3>2. CASE Sweep(a)
      BY <3>2 DEF Sweep, Forms
    <3>3. CASE WriteRow(a)
      <4>1. Working(a)
        BY <1>7, WorkGoesOn
      <4>2. ASSUME NEW r, RowOk(r), rows' = [rows EXCEPT ![agent[a].day] = {r}]
            PROVE  rows' = [d \in Days |-> rows'[d]] /\ \A d \in Days : \A q \in rows'[d] : RowOk(q)
        BY <4>2 DEF Forms
      <4>3. CASE ~ \E r : RowOk(r) /\ rows' = [rows EXCEPT ![agent[a].day] = {r}]
        BY <3>1, <3>3, <4>1, <4>3, WriteRowWork
      <4> QED
        BY <4>2, <4>3
    <3>4. CASE Finish(a)
      <4>1. Working(a) /\ agent[a].day \in Days
        BY <1>7, WorkGoesOn DEF Forms, WorkOk
      <4>2. \A r \in rows'[agent[a].day] : RowOk(r)
        <5> SUFFICES ASSUME NEW r \in rows'[agent[a].day] PROVE RowOk(r)
          OBVIOUS
        <5>1. CASE r \in rows[agent[a].day]
          BY <4>1, <5>1 DEF Forms
        <5>2. CASE r \notin rows[agent[a].day]
          <6>1. PICK q : r = [id |-> q.id, seen |-> q.seen, chain |-> q.chain, checked |-> TRUE]
            BY <3>4, <4>1, <5>2, FinishRows
          <6> QED
            BY <6>1 DEF RowOk
        <5> QED
          BY <5>1, <5>2
      <4> QED
        BY <3>4, <4>1, <4>2, FinishRows DEF Forms
    <3> QED
      BY <1>7, <3>1, <3>2, <3>3, <3>4 DEF Work, LinesDone, SweepPositions, ReadLedger, ReadQuotes,
         LoadDayBefore, FindRow, WritePositions, Validate, Prices, store
  <2>5. positions' = [d \in Days |-> positions'[d]]
    BY <1>7 DEF Work, LinesDone, Sweep, SweepPositions, ReadLedger, ReadQuotes, LoadDayBefore,
       FindRow, WriteRow, WritePositions, Validate, Finish, Prices, store, Forms
  <2> QED
    BY <1>1, <2>2, <2>3, <2>4, <2>5 DEF Forms
<1>8. ASSUME NEW a \in Agents, Throw(a) PROVE Forms'
  <2>1. PICK w : OneMoves(a, w) /\ (w = Idle \/ WorkOk(w))
    BY <1>8, ThrowWork
  <2>2. UNCHANGED <<ledger, quotes, rows, positions, unswept>> /\ troubles' = troubles + 1
    BY <1>8 DEF Throw, ledgers, store
  <2> QED
    BY <1>1, <1>4, <2>1, <2>2 DEF Forms
<1>9. ASSUME NEW d \in Days, NEW t, QuoteArrives(d, t) PROVE Forms'
  <2>1. /\ agent' = [b \in Agents |-> Disturb(agent[b])] /\ quotes' = quotes \cup {<<d, t>>}
        /\ UNCHANGED <<ledger, rows, positions, unswept, troubles>>
    BY <1>9 DEF QuoteArrives, Disturbed, store, bounds
  <2> QED
    BY <1>1, <1>3, <2>1 DEF Forms
<1>10. ASSUME NEW e \in Entries, Add(e) \/ Drop(e) PROVE Forms'
  <2>1. /\ agent' = [b \in Agents |-> Disturb(agent[b])] /\ unswept' = unswept + 1
        /\ ledger' \in {ledger \cup {e}, ledger \ {e}}
        /\ UNCHANGED <<quotes, rows, positions, troubles>>
    BY <1>10 DEF Add, Drop, Unswept, Disturbed, store
  <2> QED
    BY <1>1, <1>3, <2>1 DEF Forms
<1>11. CASE Crash
  <2>1. /\ agent' = [b \in Agents |-> Idle] /\ troubles' = troubles + 1
        /\ UNCHANGED <<ledger, quotes, rows, positions, unswept>>
    BY <1>11 DEF Crash, ledgers, store
  <2> QED
    BY <1>1, <2>1 DEF Forms
<1>12. CASE UNCHANGED vars
  BY <1>2, <1>12 DEF vars
<1> QED
  BY <1>5, <1>6, <1>7, <1>8, <1>9, <1>10, <1>11, <1>12, StartStarts DEF Next

LEMMA FormsHold == Spec => []Forms
<1>1. Init => Forms
  BY DEF Init, Forms, Working
<1>2. Forms /\ [Next]_vars => Forms'
  BY FormsStep
<1> QED
  BY <1>1, <1>2, PTL DEF Spec
-----------------------------------------------------------------------------
(* What is disturbed or beside a moving job works on as it did.             *)
Undisturbed(b) ==
  /\ Working(b)' <=> Working(b)
  /\ Working(b) => SamePlace(agent'[b], agent[b])

LEMMA DisturbedWorksOn ==
  ASSUME Forms, NEW b \in Agents, agent'[b] = agent[b] \/ agent'[b] = Disturb(agent[b])
  PROVE  Undisturbed(b)
<1>1. CASE agent'[b] = agent[b]
  BY <1>1 DEF Undisturbed, Working, SamePlace
<1>2. CASE agent'[b] = Disturb(agent[b]) /\ agent[b] = Idle
  BY <1>2 DEF Undisturbed, Working, Disturb
<1>3. CASE agent'[b] = Disturb(agent[b]) /\ agent[b] # Idle
  <2>1. PICK v, w : v = agent[b] /\ w = agent'[b] /\ WorkOk(v) /\ w = Disturb(v)
    BY <1>3 DEF Forms, Working
  <2>4. WorkOk(w)
    BY <2>1, DisturbWork
  <2>2. w # Idle
    BY <2>4, WorkFields DEF Idle
  <2>3. SamePlace(w, v)
    BY <2>1, DisturbWork
  <2> QED
    BY <1>3, <2>1, <2>2, <2>3 DEF Undisturbed, Working, SamePlace
<1> QED
  BY <1>1, <1>2, <1>3

LEMMA OthersWorkOn ==
  ASSUME Forms, NEW a \in Agents,
         \/ Starts(a) \/ (\E e \in Entries : RecordLine(a, e)) \/ (\E w : OneMoves(a, w))
  PROVE  \A b \in Agents \ {a} : Undisturbed(b)
<1>1. CASE Starts(a)
  BY <1>1, StartWork, DisturbedWorksOn DEF Starts
<1>2. ASSUME NEW e \in Entries, RecordLine(a, e) PROVE \A b \in Agents \ {a} : Undisturbed(b)
  <2>1. Working(a)
    BY <1>2, Awake DEF RecordLine, At
  <2>2. \A b \in Agents \ {a} : agent'[b] = agent[b] \/ agent'[b] = Disturb(agent[b])
    BY <1>2, <2>1, LineWork
  <2> QED
    BY <2>2, DisturbedWorksOn
<1>3. ASSUME NEW w, OneMoves(a, w) PROVE \A b \in Agents \ {a} : Undisturbed(b)
  BY <1>3, DisturbedWorksOn DEF OneMoves
<1> QED
  BY <1>1, <1>2, <1>3

LEMMA LineGoesOn ==
  ASSUME Forms, NEW a \in Agents, NEW e \in Entries, RecordLine(a, e)
  PROVE  /\ Working(a) /\ Working(a)' /\ agent[a].at = "line" /\ agent'[a].at = "line"
         /\ agent'[a].job = agent[a].job
         /\ agent'[a].from = agent[a].from /\ agent[a].from <= Entry[e].day
         /\ agent'[a].inserted = (agent[a].inserted \/ e \notin ledger)
<1>1. Working(a) /\ agent[a].at = "line"
  BY Awake DEF RecordLine, At
<1>2. PICK w : /\ agent'[a] = w /\ WorkOk(w) /\ SameJob(w, agent[a]) /\ w.at = "line"
               /\ w.inserted = (agent[a].inserted \/ e \notin ledger)
               /\ agent[a].from <= Entry[e].day
  BY <1>1, LineWork
<1>3. w # Idle
  BY <1>2, WorkFields DEF Idle
<1> QED
  BY <1>1, <1>2, <1>3 DEF SameJob, Working

(* The status: whoever leaves a rebuild says that it is over.               *)
RebuildAtWork == \E a \in Agents : Working(a) /\ agent[a].job = "rebuild"

LEMMA StatusStep ==
  ASSUME Forms, rebuilding => RebuildAtWork, [Next]_vars
  PROVE  (rebuilding => RebuildAtWork)'
<1>1. ASSUME NEW a \in Agents, Starts(a), UNCHANGED rebuilding \/ agent'[a].job = "rebuild"
      PROVE  (rebuilding => RebuildAtWork)'
  <2>1. \A b \in Agents \ {a} : Undisturbed(b)
    BY <1>1, OthersWorkOn
  <2>2. ~Working(a) /\ WorkOk(agent'[a])
    BY <1>1, StartWork DEF Starts
  <2>3. Working(a)'
    BY <2>2, WorkFields DEF Working, Idle
  <2> QED
    BY <1>1, <2>1, <2>2, <2>3 DEF RebuildAtWork, Undisturbed, SamePlace
<1>2. ASSUME NEW a \in Agents, NEW e \in Entries, RecordLine(a, e)
      PROVE  (rebuilding => RebuildAtWork)'
  <2>1. \A b \in Agents \ {a} : Undisturbed(b)
    BY <1>2, OthersWorkOn
  <2>2. Working(a)' /\ agent'[a].job = agent[a].job
    BY <1>2, LineGoesOn
  <2>3. UNCHANGED rebuilding
    BY <1>2 DEF RecordLine
  <2> QED
    BY <2>1, <2>2, <2>3 DEF RebuildAtWork, Undisturbed, SamePlace
<1>3. ASSUME NEW a \in Agents, NEW w, GoesOn(a, w),
             rebuilding' = (rebuilding /\ ~(At(a, "prices") /\ agent[a].job = "rebuild"))
      PROVE  (rebuilding => RebuildAtWork)'
  <2>1. \A b \in Agents \ {a} : Undisturbed(b)
    BY <1>3, OthersWorkOn DEF GoesOn
  <2>2. agent'[a] = w
    BY <1>3 DEF GoesOn, OneMoves
  <2>3. SUFFICES ASSUME rebuilding' PROVE RebuildAtWork'
    OBVIOUS
  <2>4. PICK b \in Agents : Working(b) /\ agent[b].job = "rebuild"
    BY <1>3, <2>3 DEF RebuildAtWork
  <2>5. CASE b # a
    BY <2>1, <2>4, <2>5 DEF RebuildAtWork, Undisturbed, SamePlace
  <2>6. CASE b = a
    <3>1. w # Idle
      BY <1>3, <2>3, <2>4, <2>6 DEF GoesOn, At
    <3>2. w.job = "rebuild"
      BY <1>3, <2>4, <2>6, <3>1 DEF GoesOn
    <3> QED
      BY <2>2, <3>1, <3>2 DEF RebuildAtWork, Working
  <2> QED
    BY <2>5, <2>6
<1>4. ASSUME NEW a \in Agents, Work(a), ~ \E e \in Entries : RecordLine(a, e)
      PROVE  (rebuilding => RebuildAtWork)'
  <2>1. PICK w : GoesOn(a, w)
    BY <1>4, WorkGoesOn
  <2>2. CASE Prices(a)
    BY <1>3, <2>1, <2>2 DEF Prices, At
  <2>3. CASE ~Prices(a)
    <3>1. UNCHANGED rebuilding /\ ~At(a, "prices")
      BY <1>4, <2>3 DEF Work, LinesDone, Sweep, SweepPositions, ReadLedger, ReadQuotes, LoadDayBefore,
         FindRow, WriteRow, WritePositions, Validate, Finish, At
    <3>2. rebuilding' = (rebuilding /\ ~(At(a, "prices") /\ agent[a].job = "rebuild"))
                        \/ (~rebuilding' /\ ~rebuilding)
      BY <3>1
    <3>3. CASE rebuilding
      <4>1. rebuilding' = (rebuilding /\ ~(At(a, "prices") /\ agent[a].job = "rebuild"))
        BY <3>2, <3>3, <3>1
      <4> QED
        BY <1>3, <2>1, <4>1
    <3>4. CASE ~rebuilding
      BY <3>1, <3>4
    <3> QED
      BY <3>3, <3>4
  <2> QED
    BY <2>2, <2>3
<1>5. ASSUME NEW a \in Agents, Throw(a) PROVE (rebuilding => RebuildAtWork)'
  <2>1. PICK w : GoesOn(a, w)
    <3>1. PICK w : /\ OneMoves(a, w)
                   /\ \/ w = Idle /\ ~(agent[a].job = "rebuild" /\ agent[a].at # "prices")
                      \/ WorkOk(w) /\ w.job = agent[a].job /\ w.sole = FALSE
      BY <1>5, ThrowWork
    <3>2. WorkOk(w) => w # Idle
      BY WorkFields DEF Idle
    <3> QED
      BY <3>1, <3>2 DEF GoesOn
  <2> QED
    BY <1>3, <1>5, <2>1 DEF Throw
<1>6. CASE UNCHANGED rebuilding /\ (agent' = Disturbed({}) \/ UNCHANGED agent)
  <2>1. \A b \in Agents : Undisturbed(b)
    BY <1>6, DisturbedWorksOn DEF Disturbed
  <2> QED
    BY <1>6, <2>1 DEF RebuildAtWork, Undisturbed, SamePlace
<1>7. CASE Crash
  BY <1>7 DEF Crash
<1> QED
  BY <1>1, <1>2, <1>4, <1>5, <1>6, <1>7, StartStarts DEF Next, QuoteArrives, Add, Drop, Unswept, vars

(* Whatever throws, overlaps or restarts, the status says "in progress"     *)
(* only while a rebuild is at work.                                         *)
THEOREM NobodyWaits == Spec => []NobodyWaitsForNothing
<1>1. Init => (rebuilding => RebuildAtWork)
  BY DEF Init
<1>2. Forms /\ (rebuilding => RebuildAtWork) /\ [Next]_vars => (rebuilding => RebuildAtWork)'
  BY StatusStep
<1>3. Forms /\ (rebuilding => RebuildAtWork) => NobodyWaitsForNothing
  BY Awake DEF RebuildAtWork, NobodyWaitsForNothing
<1> QED
  BY <1>1, <1>2, <1>3, FormsHold, PTL DEF Spec
-----------------------------------------------------------------------------
(* One job at a time.                                                       *)
ApartInv == apart => \A a, b \in Agents : Working(a) /\ Working(b) => a = b

LEMMA ApartOnce == ASSUME [Next]_vars, apart' PROVE apart
BY DEF Next, Start, StartRecord, StartMaterialise, StartRebuild, StartImport, Work, RecordLine, LinesDone,
   Sweep, SweepPositions, ReadLedger, ReadQuotes, LoadDayBefore, FindRow, WriteRow, WritePositions,
   Validate, Finish, Prices, Throw, QuoteArrives, Add, Drop, Unswept, Crash, vars

LEMMA ApartStep == ASSUME Forms, ApartInv, [Next]_vars PROVE ApartInv'
<1> SUFFICES ASSUME apart' PROVE (\A a, b \in Agents : Working(a) /\ Working(b) => a = b)'
  BY DEF ApartInv
<1>1. \A a, b \in Agents : Working(a) /\ Working(b) => a = b
  BY ApartOnce DEF ApartInv
<1>2. ASSUME NEW a \in Agents, Starts(a)
      PROVE (\A b, c \in Agents : Working(b) /\ Working(c) => b = c)'
  <2>1. Others(a) = {} /\ \A b \in Agents \ {a} : Undisturbed(b)
    BY <1>2, StartWork, OthersWorkOn DEF Starts
  <2>2. \A b \in Agents \ {a} : ~Working(b)
    BY <2>1, Awake DEF Others
  <2> QED
    BY <2>1, <2>2 DEF Undisturbed
<1>3. ASSUME NEW a \in Agents, Working(a), \A b \in Agents \ {a} : Undisturbed(b)
      PROVE (\A b, c \in Agents : Working(b) /\ Working(c) => b = c)'
  BY <1>1, <1>3 DEF Undisturbed
<1>4. ASSUME NEW a \in Agents, Work(a)
      PROVE  (\A b, c \in Agents : Working(b) /\ Working(c) => b = c)'
  BY <1>3, <1>4, WorkGoesOn, OthersWorkOn DEF GoesOn
<1>5. ASSUME NEW a \in Agents, Throw(a)
      PROVE  (\A b, c \in Agents : Working(b) /\ Working(c) => b = c)'
  BY <1>3, <1>5, ThrowWork, OthersWorkOn
<1>6. CASE agent' = Disturbed({}) \/ UNCHANGED agent
  <2>1. \A b \in Agents : Undisturbed(b)
    BY <1>6, DisturbedWorksOn DEF Disturbed
  <2> QED
    BY <1>1, <2>1 DEF Undisturbed
<1>7. CASE Crash
  BY <1>7 DEF Crash, Working
<1> QED
  BY <1>2, <1>4, <1>5, <1>6, <1>7, StartStarts DEF Next, QuoteArrives, Add, Drop, Unswept, vars

(* From the row it writes to the verdict a job is about the rows of its day.*)
CheckOf(a) ==
  /\ agent[a].at = "sweep_positions" => \A d \in Days : agent[a].from <= d => rows[d] = {}
  /\ agent[a].at \in {"positions", "validate", "finish"} =>
       \A r \in rows[agent[a].day] : r.seen = agent[a].seen
  /\ agent[a].at = "positions" => \A r \in rows[agent[a].day] : r.checked = FALSE
  /\ agent[a].at = "finish" => AddsUp(agent[a].day, agent[a].seen)

ChecksAddUp == \A d \in Days : \A r \in rows[d] : r.checked => AddsUp(d, r.seen)

CheckHolds == ChecksAddUp /\ \A a \in Agents : Working(a) => CheckOf(a)
CheckInv == apart => CheckHolds

Quiet == {"line", "sweep", "read", "quotes", "before", "find", "write", "prices"}

LEMMA CheckStep == ASSUME Forms, ApartInv, CheckInv, [Next]_vars PROVE CheckInv'
<1> SUFFICES ASSUME apart' PROVE CheckHolds'
  BY DEF CheckInv
<1>1. /\ \A a, b \in Agents : Working(a) /\ Working(b) => a = b
      /\ ChecksAddUp /\ \A a \in Agents : Working(a) => CheckOf(a)
  BY ApartOnce DEF ApartInv, CheckInv, CheckHolds
<1>2. ASSUME UNCHANGED <<rows, positions>>,
             \A b \in Agents : Undisturbed(b) \/ (Working(b)' => agent'[b].at \in Quiet)
      PROVE  CheckHolds'
  <2>1. ChecksAddUp'
    BY <1>1, <1>2 DEF ChecksAddUp, AddsUp
  <2>2. ASSUME NEW b \in Agents, Working(b)', Undisturbed(b) PROVE CheckOf(b)'
    BY <1>1, <1>2, <2>2 DEF Undisturbed, SamePlace, CheckOf, AddsUp
  <2>3. ASSUME NEW b \in Agents, agent'[b].at \in Quiet PROVE CheckOf(b)'
    BY <2>3 DEF CheckOf, Quiet
  <2> QED
    BY <1>2, <2>1, <2>2, <2>3 DEF CheckHolds
<1>3. ASSUME NEW a \in Agents, Starts(a) PROVE CheckHolds'
  <2>1. UNCHANGED <<rows, positions>> /\ agent'[a].at \in Quiet
    BY <1>3, StartWork DEF Starts, Quiet
  <2> QED
    BY <1>2, <1>3, <2>1, OthersWorkOn
<1>4. ASSUME NEW a \in Agents, NEW e \in Entries, RecordLine(a, e) PROVE CheckHolds'
  <2>1. UNCHANGED <<rows, positions>> /\ agent'[a].at \in Quiet
    BY <1>4, LineGoesOn DEF RecordLine, store, Quiet
  <2> QED
    BY <1>2, <1>4, <2>1, OthersWorkOn
<1>5. ASSUME NEW a \in Agents, NEW w, OneMoves(a, w), w = Idle \/ w.at \in Quiet,
             UNCHANGED <<rows, positions>>
      PROVE  CheckHolds'
  <2>1. \A b \in Agents \ {a} : Undisturbed(b)
    BY <1>5, OthersWorkOn
  <2>2. agent'[a] = w
    BY <1>5 DEF OneMoves
  <2> QED
    BY <1>2, <1>5, <2>1, <2>2 DEF Working
<1>6. ASSUME NEW a \in Agents, NEW w, OneMoves(a, w), Working(a),
             ChecksAddUp', w = Idle \/ w.at \in Quiet \/ CheckOf(a)'
      PROVE  CheckHolds'
  <2>1. \A b \in Agents \ {a} : Undisturbed(b)
    BY <1>6, OthersWorkOn
  <2>2. \A b \in Agents \ {a} : ~Working(b)'
    BY <1>1, <1>6, <2>1 DEF Undisturbed
  <2>3. agent'[a] = w
    BY <1>6 DEF OneMoves
  <2>4. w.at \in Quiet => CheckOf(a)'
    BY <2>3 DEF CheckOf, Quiet
  <2> QED
    BY <1>6, <2>2, <2>3, <2>4 DEF Working, CheckHolds
<1>7. ASSUME NEW a \in Agents, Working(a), DayFails(a), UNCHANGED <<rows, positions>> PROVE CheckHolds'
  <2>1. OneMoves(a, Failed(a))
    BY <1>7 DEF DayFails, OneMoves, Forms
  <2>2. Failed(a) = Idle \/ Failed(a).at \in Quiet
    BY <1>7, FailedWork DEF Visits, Quiet
  <2> QED
    BY <1>5, <1>7, <2>1, <2>2
<1>8. ASSUME NEW a \in Agents, Work(a) PROVE CheckHolds'
  <2>1. Working(a) /\ WorkOk(agent[a]) /\ agent[a].day \in Days
    BY <1>8, WorkGoesOn DEF Forms, WorkOk
  <2>2. CASE Sweep(a)
    <3>1. "sweep_positions" \in PointsOf(agent[a].job)
      BY <2>1, <2>2 DEF Sweep, At, WorkOk, PointsOf, Recording
    <3>2. PICK w : OneMoves(a, w) /\ w.at = "sweep_positions" /\ w.from = agent[a].from
      BY <2>1, <2>2, <3>1, GoWork DEF Sweep, SameDay, SameJob
    <3>3. /\ \A d \in Days : rows'[d] = IF d >= agent[a].from THEN {} ELSE rows[d]
          /\ UNCHANGED positions
      BY <2>2 DEF Sweep
    <3>4. ChecksAddUp'
      BY <1>1, <3>3 DEF ChecksAddUp, AddsUp
    <3>5. agent'[a] = w
      BY <3>2 DEF OneMoves
    <3>6. CheckOf(a)'
      BY <2>1, <3>2, <3>3, <3>5 DEF CheckOf, WorkOk, Days
    <3> QED
      BY <1>6, <2>1, <3>2, <3>4, <3>6
  <2>3. CASE SweepPositions(a)
    <3>1. PICK w : w = Swept(a) /\ OneMoves(a, w)
      BY <2>3 DEF SweepPositions, OneMoves, Forms
    <3>2. agent[a].at = "sweep_positions"
      BY <2>3 DEF SweepPositions, At
    <3>3. w = Idle \/ w.at \in Quiet
      BY <2>1, <3>1, <3>2, SweptWork DEF Visits, Quiet
    <3>4. \A d \in Days : agent[a].from <= d => rows[d] = {}
      BY <1>1, <2>1, <3>2 DEF CheckOf
    <3>5. /\ UNCHANGED rows
          /\ \A d \in Days : ~(d >= agent[a].from) => positions'[d] = positions[d]
      BY <2>3 DEF SweepPositions
    <3>6. ChecksAddUp'
      BY <1>1, <2>1, <3>4, <3>5 DEF ChecksAddUp, AddsUp, WorkOk, Days
    <3> QED
      BY <1>6, <2>1, <3>1, <3>3, <3>6
  <2>4. CASE WriteRow(a)
    <3>1. CASE OneMoves(a, Failed(a)) /\ UNCHANGED rows
      <4>1. Failed(a) = Idle \/ Failed(a).at \in Quiet
        BY <2>1, FailedWork DEF Visits, Quiet
      <4>2. UNCHANGED positions
        BY <2>4 DEF WriteRow
      <4> QED
        BY <1>5, <3>1, <4>1, <4>2
    <3>2. CASE ~(OneMoves(a, Failed(a)) /\ UNCHANGED rows)
      <4>1. PICK w, r : /\ OneMoves(a, w) /\ w.at = "positions" /\ w.day = agent[a].day
                        /\ w.seen = agent[a].seen /\ rows' = [rows EXCEPT ![agent[a].day] = {r}]
                        /\ r.seen = agent[a].seen /\ r.checked = FALSE
        BY <2>1, <2>4, <3>2, WriteRowWork
      <4>2. UNCHANGED positions
        BY <2>4 DEF WriteRow
      <4>3. \A d \in Days : rows'[d] = IF d = agent[a].day THEN {r} ELSE rows[d]
        BY <4>1 DEF Forms
      <4>4. ChecksAddUp'
        BY <1>1, <4>1, <4>2, <4>3 DEF ChecksAddUp, AddsUp
      <4>5. agent'[a] = w
        BY <4>1 DEF OneMoves
      <4>6. CheckOf(a)'
        BY <2>1, <4>1, <4>3, <4>5 DEF CheckOf
      <4> QED
        BY <1>6, <2>1, <4>1, <4>4, <4>6
    <3> QED
      BY <3>1, <3>2
  <2>5. CASE WritePositions(a)
    <3>1. agent[a].at = "positions" /\ "validate" \in PointsOf(agent[a].job)
      BY <2>1, <2>5 DEF WritePositions, At, WorkOk, PointsOf, Recording
    <3>2. PICK w : OneMoves(a, w) /\ w.at = "validate" /\ w.day = agent[a].day /\ w.seen = agent[a].seen
      BY <2>1, <2>5, <3>1, GoWork DEF WritePositions, SameDay
    <3>3. UNCHANGED rows /\ \A d \in Days \ {agent[a].day} : positions'[d] = positions[d]
      BY <2>5 DEF WritePositions, Forms
    <3>4. ChecksAddUp'
      BY <1>1, <2>1, <3>1, <3>3 DEF ChecksAddUp, AddsUp, CheckOf
    <3>5. agent'[a] = w
      BY <3>2 DEF OneMoves
    <3>6. CheckOf(a)'
      BY <1>1, <2>1, <3>1, <3>2, <3>3, <3>5 DEF CheckOf
    <3> QED
      BY <1>6, <2>1, <3>2, <3>4, <3>6
  <2>6. CASE Validate(a)
    <3>1. UNCHANGED <<rows, positions>> /\ agent[a].at = "validate"
      BY <2>6 DEF Validate, store, At
    <3>2. CASE DayFails(a)
      BY <1>7, <2>1, <3>1, <3>2
    <3>3. CASE Go(a, "finish") /\ AddsUp(agent[a].day, agent[a].seen)
      <4>1. "finish" \in PointsOf(agent[a].job)
        BY <2>1, <3>1 DEF WorkOk, PointsOf, Recording
      <4>2. PICK w : OneMoves(a, w) /\ w.at = "finish" /\ w.day = agent[a].day /\ w.seen = agent[a].seen
        BY <2>1, <3>3, <4>1, GoWork DEF SameDay
      <4>3. agent'[a] = w
        BY <4>2 DEF OneMoves
      <4>4. ChecksAddUp'
        BY <1>1, <3>1 DEF ChecksAddUp, AddsUp
      <4>5. CheckOf(a)'
        BY <1>1, <2>1, <3>1, <3>3, <4>2, <4>3 DEF CheckOf, AddsUp
      <4> QED
        BY <1>6, <2>1, <4>2, <4>4, <4>5
    <3> QED
      BY <2>6, <3>2, <3>3 DEF Validate
  <2>7. CASE Finish(a)
    <3>1. agent[a].at = "finish" /\ UNCHANGED positions
      BY <2>7 DEF Finish, At
    <3>2. PICK w : OneMoves(a, w) /\ (w = Idle \/ w.at \in Quiet)
      BY <2>1, <2>7, FinishWork DEF Visits, Quiet
    <3>3. AddsUp(agent[a].day, agent[a].seen) /\ \A r \in rows[agent[a].day] : r.seen = agent[a].seen
      BY <1>1, <2>1, <3>1 DEF CheckOf
    <3>4. \A r \in rows'[agent[a].day] : r.seen = agent[a].seen
      BY <2>1, <2>7, <3>3, FinishRows
    <3>5. \A d \in Days \ {agent[a].day} : rows'[d] = rows[d]
      BY <2>1, <2>7, FinishRows
    <3>6. ChecksAddUp'
      BY <1>1, <2>1, <3>1, <3>3, <3>4, <3>5 DEF ChecksAddUp, AddsUp
    <3> QED
      BY <1>6, <2>1, <3>2, <3>6
  <2>8. CASE ReadQuotes(a)
    <3>1. UNCHANGED <<rows, positions>> /\ agent[a].at = "quotes"
      BY <2>8 DEF ReadQuotes, store, At
    <3>2. CASE DayFails(a)
      BY <1>7, <2>1, <3>1, <3>2
    <3>3. CASE Go(a, "before")
      <4>1. "before" \in PointsOf(agent[a].job)
        BY <2>1, <3>1 DEF WorkOk, PointsOf, Recording
      <4>2. PICK w : OneMoves(a, w) /\ w.at = "before"
        BY <2>1, <3>3, <4>1, GoWork
      <4> QED
        BY <1>5, <3>1, <4>2 DEF Quiet
    <3> QED
      BY <2>8, <3>2, <3>3 DEF ReadQuotes
  <2>9. CASE LinesDone(a) \/ ReadLedger(a) \/ LoadDayBefore(a) \/ FindRow(a) \/ Prices(a)
    <3>1. UNCHANGED <<rows, positions>>
      BY <2>9 DEF LinesDone, ReadLedger, LoadDayBefore, FindRow, Prices, store
    <3>2. CASE LinesDone(a)
      <4>1. PICK w : OneMoves(a, w) /\ (w.at = "sweep" \/ w = Idle)
        BY <2>1, <3>2, LinesDoneWork
      <4> QED
        BY <1>5, <3>1, <4>1 DEF Quiet
    <3>3. CASE ReadLedger(a)
      <4>1. PICK w : OneMoves(a, w) /\ w.at = "quotes"
        BY <2>1, <3>3, ReadLedgerWork
      <4> QED
        BY <1>5, <3>1, <4>1 DEF Quiet
    <3>4. CASE LoadDayBefore(a)
      <4>1. PICK w : OneMoves(a, w) /\ w.at = "find"
        BY <2>1, <3>4, LoadDayBeforeWork
      <4> QED
        BY <1>5, <3>1, <4>1 DEF Quiet
    <3>5. CASE FindRow(a)
      <4>1. PICK w : OneMoves(a, w) /\ w.at = "write"
        BY <2>1, <3>5, FindRowWork
      <4> QED
        BY <1>5, <3>1, <4>1 DEF Quiet
    <3>6. CASE Prices(a)
      <4>1. OneMoves(a, Idle)
        BY <3>6 DEF Prices, OneMoves, Forms
      <4> QED
        BY <1>5, <3>1, <4>1
    <3> QED
      BY <2>9, <3>2, <3>3, <3>4, <3>5, <3>6
  <2> QED
    BY <1>4, <1>8, <2>2, <2>3, <2>4, <2>5, <2>6, <2>7, <2>8, <2>9 DEF Work
<1>9. ASSUME NEW a \in Agents, Throw(a) PROVE CheckHolds'
  <2>1. PICK w : OneMoves(a, w) /\ (w = Idle \/ w.at \in Quiet)
    BY <1>9, ThrowWork DEF Quiet
  <2>2. UNCHANGED <<rows, positions>>
    BY <1>9 DEF Throw, store
  <2> QED
    BY <1>5, <2>1, <2>2
<1>10. CASE UNCHANGED <<rows, positions>> /\ (agent' = Disturbed({}) \/ UNCHANGED agent)
  <2>1. \A b \in Agents : Undisturbed(b)
    BY <1>10, DisturbedWorksOn DEF Disturbed
  <2> QED
    BY <1>2, <1>10, <2>1
<1>11. CASE Crash
  <2>1. UNCHANGED <<rows, positions>> /\ \A b \in Agents : ~Working(b)'
    BY <1>11 DEF Crash, store, Working
  <2> QED
    BY <1>2, <2>1
<1>13. CASE \/ \E d \in Days, t \in Exact : QuoteArrives(d, t)
            \/ \E e \in Entries : Add(e) \/ Drop(e)
            \/ UNCHANGED vars
  BY <1>10, <1>13 DEF QuoteArrives, Add, Drop, Unswept, vars, store
<1> QED
  BY <1>3, <1>8, <1>9, <1>11, <1>13, StepCases

(* One job at a time, whatever threw, stopped or was dropped before: a row  *)
(* that carries the verdict adds up to its positions.                       *)
THEOREM CheckedRowsAddUp == Spec => []CheckedRowAddsUp
<1>1. Init => ApartInv /\ CheckInv
  BY DEF Init, ApartInv, CheckInv, CheckHolds, ChecksAddUp, Working
<1>2. Forms /\ ApartInv /\ CheckInv /\ [Next]_vars => (ApartInv /\ CheckInv)'
  BY ApartStep, CheckStep
<1>3. CheckInv => CheckedRowAddsUp
  BY DEF CheckInv, CheckHolds, ChecksAddUp, CheckedRowAddsUp
<1> QED
  BY <1>1, <1>2, <1>3, FormsHold, PTL DEF Spec
-----------------------------------------------------------------------------
(* One after the other, nothing thrown: a row follows the ledger, but for   *)
(* what changed with no sweep, or the import that changed it has the day    *)
(* still to sweep; what a job has read follows the ledger the same way.     *)
HasRead == {"quotes", "before", "find", "write"}

WillSweep(a, d) ==
  /\ Working(a) /\ agent[a].from <= d
  /\ agent[a].at = "sweep" \/ (agent[a].at = "line" /\ agent[a].inserted = TRUE)

RowsFollow ==
  \A d \in Days : \A r \in rows[d] : Follows(r.seen, d) \/ \E a \in Agents : WillSweep(a, d)

ReadsFollow ==
  \A a \in Agents : Working(a) /\ agent[a].at \in HasRead => Follows(agent[a].seen, agent[a].day)

FollowHolds == RowsFollow /\ ReadsFollow

FollowInv == apart /\ troubles = 0 => FollowHolds

LEMMA CalmStep ==
  ASSUME Forms, [Next]_vars, troubles' = 0
  PROVE  troubles = 0 /\ UNCHANGED troubles
<1>1. troubles' = troubles \/ troubles' = troubles + 1
  BY DEF Next, Start, StartRecord, StartMaterialise, StartRebuild, StartImport, Work, RecordLine, LinesDone,
     Sweep, SweepPositions, ReadLedger, ReadQuotes, LoadDayBefore, FindRow, WriteRow, WritePositions,
     Validate, Finish, Prices, Throw, QuoteArrives, Add, Drop, Unswept, Crash, vars, bounds
<1> QED
  BY <1>1 DEF Forms

(* What was seen follows the ledger from one moment to the next as long as  *)
(* nothing changes up to that day but what is loose.                        *)
LEMMA FollowsOn ==
  ASSUME NEW seen, NEW d, Follows(seen, d),
         SymDiff(UpTo(ledger, d), UpTo(ledger, d)') \subseteq UpTo(loose, d)',
         UpTo(loose, d) \subseteq UpTo(loose, d)'
  PROVE  Follows(seen, d)'
BY DEF Follows, SymDiff

LEMMA FollowsStill ==
  ASSUME UNCHANGED <<ledger, loose>>, NEW seen, NEW d
  PROVE  Follows(seen, d)' <=> Follows(seen, d)
BY DEF Follows, UpTo

LEMMA FollowsRead == ASSUME NEW d PROVE Follows(UpTo(ledger, d), d)
BY DEF Follows, SymDiff

LEMMA FollowStep == ASSUME Forms, ApartInv, FollowInv, [Next]_vars PROVE FollowInv'
<1> SUFFICES ASSUME apart', troubles' = 0 PROVE FollowHolds'
  BY DEF FollowInv
<1>1. /\ \A a, b \in Agents : Working(a) /\ Working(b) => a = b
      /\ RowsFollow /\ ReadsFollow /\ UNCHANGED troubles /\ troubles \in Nat
  BY ApartOnce, CalmStep DEF ApartInv, FollowInv, FollowHolds, Forms
<1>2. ASSUME UNCHANGED rows, \A b \in Agents : Undisturbed(b),
             \A seen, d : Follows(seen, d) => Follows(seen, d)'
      PROVE  FollowHolds'
  <2>1. ASSUME NEW b \in Agents, NEW d, WillSweep(b, d) PROVE WillSweep(b, d)'
    BY <1>2, <2>1 DEF WillSweep, Undisturbed, SamePlace
  <2>2. RowsFollow'
    BY <1>1, <1>2, <2>1 DEF RowsFollow
  <2>3. ReadsFollow'
    <3> SUFFICES ASSUME NEW b \in Agents, Working(b)', agent'[b].at \in HasRead
                 PROVE  Follows(agent[b].seen, agent[b].day)'
      BY DEF ReadsFollow
    <3>1. PICK seen, d : seen = agent[b].seen /\ d = agent[b].day
      OBVIOUS
    <3>2. agent'[b].seen = seen /\ agent'[b].day = d /\ Follows(seen, d)
      BY <1>1, <1>2, <3>1 DEF ReadsFollow, Undisturbed, SamePlace
    <3>3. Follows(seen, d)'
      BY <1>2, <3>2
    <3> QED
      BY <3>2, <3>3 DEF Follows
  <2> QED
    BY <2>2, <2>3 DEF FollowHolds
<1>3. ASSUME NEW a \in Agents, NEW w, agent'[a] = w, \A b \in Agents \ {a} : ~Working(b)',
             \A d \in Days : \A r \in rows'[d] : Follows(r.seen, d)' \/ WillSweep(a, d)',
             w.at \in HasRead => Follows(w.seen, w.day)'
      PROVE  FollowHolds'
  <2>1. RowsFollow'
    BY <1>3 DEF RowsFollow
  <2>2. ReadsFollow'
    BY <1>3 DEF ReadsFollow, Follows
  <2> QED
    BY <2>1, <2>2 DEF FollowHolds
<1>4. ASSUME NEW a \in Agents, Starts(a) PROVE FollowHolds'
  <2>1. PICK job : /\ Start(a, job) /\ job.at \in {"line", "sweep", "read"}
    BY <1>4 DEF Starts
  <2>2. /\ agent'[a] = job /\ Others(a) = {} /\ ~Working(a)
        /\ UNCHANGED <<rows, ledger, loose>>
    BY <2>1, StartWork DEF Start, ledgers
  <2>3. \A b \in Agents : ~Working(b)
    BY <2>2, Awake DEF Others
  <2>4. \A b \in Agents \ {a} : ~Working(b)'
    BY <1>4, <2>3, OthersWorkOn DEF Undisturbed
  <2>5. \A d \in Days : \A r \in rows'[d] : Follows(r.seen, d)'
    BY <1>1, <2>2, <2>3, FollowsStill DEF RowsFollow, WillSweep
  <2> QED
    BY <1>3, <2>1, <2>2, <2>4, <2>5 DEF HasRead
<1>5. ASSUME NEW a \in Agents, Working(a),
             (\E e \in Entries : RecordLine(a, e)) \/ (\E w : OneMoves(a, w))
      PROVE  /\ \A b \in Agents \ {a} : ~Working(b)'
             /\ \A d \in Days : \A r \in rows[d] : Follows(r.seen, d) \/ WillSweep(a, d)
  <2>1. \A b \in Agents \ {a} : ~Working(b)'
    BY <1>1, <1>5, OthersWorkOn DEF Undisturbed
  <2>2. \A b \in Agents, d \in Days : WillSweep(b, d) => b = a
    BY <1>1, <1>5 DEF WillSweep
  <2> QED
    BY <1>1, <2>1, <2>2 DEF RowsFollow
<1>6. ASSUME NEW a \in Agents, NEW e \in Entries, RecordLine(a, e) PROVE FollowHolds'
  <2>1. PICK v, w : /\ v = agent[a] /\ w = agent'[a] /\ Working(a) /\ Working(a)'
                    /\ v.at = "line" /\ w.at = "line" /\ w.from = v.from /\ v.from <= Entry[e].day
                    /\ w.inserted = (v.inserted \/ e \notin ledger)
    BY <1>6, LineGoesOn
  <2>2. ledger' = ledger \cup {e} /\ UNCHANGED <<rows, loose>>
    BY <1>6 DEF RecordLine, store
  <2>3. v.from \in Days /\ v.inserted \in BOOLEAN
    BY <2>1 DEF Forms, WorkOk
  <2>4. ASSUME NEW d \in Days, NEW r \in rows[d]
        PROVE  Follows(r.seen, d)' \/ WillSweep(a, d)'
    <3>1. CASE e \in ledger
      <4>1. ledger' = ledger
        BY <2>2, <3>1
      <4>2. w.inserted = v.inserted
        BY <2>1, <2>3, <3>1
      <4>3. WillSweep(a, d) => WillSweep(a, d)'
        BY <2>1, <4>2 DEF WillSweep
      <4> QED
        BY <1>5, <1>6, <2>1, <2>2, <2>4, <4>1, <4>3, FollowsStill
    <3>2. CASE e \notin ledger /\ v.from <= d
      BY <2>1, <2>3, <3>2 DEF WillSweep
    <3>3. CASE ~(v.from <= d)
      <4>1. ~(Entry[e].day <= d)
        BY <2>1, <2>3, <2>4, <3>3, EntryAssumption, DayAssumption DEF Days
      <4>2. UpTo(ledger, d)' = UpTo(ledger, d)
        BY <2>2, <4>1 DEF UpTo
      <4>3. ~WillSweep(a, d)
        BY <2>1, <3>3 DEF WillSweep
      <4>4. Follows(r.seen, d)
        BY <1>5, <1>6, <2>1, <2>4, <4>3
      <4>5. Follows(r.seen, d)'
        BY <2>2, <4>2, <4>4 DEF Follows, UpTo
      <4> QED
        BY <4>5
    <3> QED
      BY <3>1, <3>2, <3>3
  <2> QED
    BY <1>3, <1>5, <1>6, <2>1, <2>2, <2>4 DEF HasRead
<1>7. ASSUME NEW a \in Agents, NEW w, OneMoves(a, w), Working(a), UNCHANGED <<ledger, loose>>,
             \A d \in Days : \A r \in rows'[d] : Follows(r.seen, d) \/ WillSweep(a, d)',
             w.at \in HasRead => Follows(w.seen, w.day)
      PROVE  FollowHolds'
  BY <1>3, <1>5, <1>7, FollowsStill DEF OneMoves
<1>8. ASSUME NEW a \in Agents, NEW w, OneMoves(a, w), Working(a), UNCHANGED <<rows, ledger, loose>>,
             agent[a].at \notin {"line", "sweep"},
             w = Idle \/ w.at \notin HasRead \/ Follows(w.seen, w.day)
      PROVE  FollowHolds'
  <2>1. \A d \in Days : \A r \in rows'[d] : Follows(r.seen, d)
    BY <1>5, <1>8 DEF WillSweep
  <2> QED
    BY <1>7, <1>8, <2>1 DEF Idle, HasRead
<1>9. ASSUME NEW a \in Agents, Work(a) PROVE FollowHolds'
  <2>1. Working(a) /\ WorkOk(agent[a]) /\ agent[a].day \in Days
    BY <1>9, WorkGoesOn DEF Forms, WorkOk
  <2>2. agent[a].at \in HasRead => Follows(agent[a].seen, agent[a].day)
    BY <1>1, <2>1 DEF ReadsFollow
  <2>3. CASE LinesDone(a)
    <3>1. PICK w : /\ OneMoves(a, w)
                   /\ IF agent[a].inserted
                      THEN w.at = "sweep" /\ WorkOk(w) /\ SameDay(w, agent[a])
                      ELSE w = Idle
      BY <2>1, <2>3, LinesDoneWork
    <3>2. agent[a].at = "line" /\ UNCHANGED <<rows, ledger, loose>> /\ agent'[a] = w
      BY <2>3, <3>1 DEF LinesDone, At, ledgers, store, OneMoves
    <3>3. ASSUME NEW d \in Days, NEW r \in rows[d]
          PROVE  Follows(r.seen, d) \/ WillSweep(a, d)'
      <4>1. CASE WillSweep(a, d)
        <5>1. w.at = "sweep" /\ WorkOk(w) /\ w.from = agent[a].from /\ agent[a].from <= d
          BY <3>1, <3>2, <4>1 DEF WillSweep, SameDay, SameJob
        <5>2. w # Idle
          BY <5>1, WorkFields DEF Idle
        <5> QED
          BY <3>2, <5>1, <5>2 DEF WillSweep, Working
      <4>2. CASE ~WillSweep(a, d)
        BY <1>5, <2>1, <3>1, <3>3, <4>2
      <4> QED
        BY <4>1, <4>2
    <3>4. w.at \notin HasRead
      BY <3>1 DEF HasRead, Idle
    <3> QED
      BY <1>7, <2>1, <3>1, <3>2, <3>3, <3>4
  <2>4. CASE Sweep(a)
    <3>1. "sweep_positions" \in PointsOf(agent[a].job)
      BY <2>1, <2>4 DEF Sweep, At, WorkOk, PointsOf, Recording
    <3>2. PICK w : OneMoves(a, w) /\ w.at = "sweep_positions"
      BY <2>1, <2>4, <3>1, GoWork DEF Sweep
    <3>3. /\ \A d \in Days : rows'[d] = IF d >= agent[a].from THEN {} ELSE rows[d]
          /\ UNCHANGED ledger /\ loose' = {e \in loose : Entry[e].day < agent[a].from}
      BY <2>4 DEF Sweep
    <3>4. \A d \in Days : WillSweep(a, d) => d >= agent[a].from
      BY <2>1 DEF WillSweep, WorkOk, Days
    <3>5. ASSUME NEW d \in Days, NEW r \in rows'[d] PROVE Follows(r.seen, d)'
      <4>1. r \in rows[d] /\ ~(d >= agent[a].from)
        BY <3>3, <3>5
      <4>2. Follows(r.seen, d)
        BY <1>5, <2>1, <3>2, <3>4, <4>1
      <4>3. \A e \in loose : Entry[e].day <= d => e \in loose'
        BY <2>1, <3>3, <4>1, EntryAssumption DEF Forms, WorkOk, Days
      <4>4. UpTo(loose, d) \subseteq UpTo(loose, d)'
        BY <4>3 DEF UpTo
      <4>5. UpTo(ledger, d)' = UpTo(ledger, d)
        BY <3>3 DEF UpTo
      <4> QED
        BY <4>2, <4>4, <4>5, FollowsOn DEF SymDiff
    <3>6. agent'[a] = w /\ \A b \in Agents \ {a} : ~Working(b)'
      BY <1>5, <2>1, <3>2 DEF OneMoves
    <3> QED
      BY <1>3, <3>2, <3>5, <3>6 DEF HasRead
  <2>5. CASE SweepPositions(a)
    <3>1. PICK w : w = Swept(a) /\ OneMoves(a, w)
      BY <2>5 DEF SweepPositions, OneMoves, Forms
    <3>2. agent[a].at = "sweep_positions" /\ UNCHANGED <<rows, ledger, loose>>
      BY <2>5 DEF SweepPositions, At, ledgers
    <3>3. w = Idle \/ w.at \notin HasRead
      BY <2>1, <3>1, <3>2, SweptWork DEF Visits, HasRead
    <3> QED
      BY <1>8, <2>1, <3>1, <3>2, <3>3
  <2>6. ASSUME DayFails(a), UNCHANGED <<rows, ledger, loose>>, agent[a].at \notin {"line", "sweep"}
        PROVE  FollowHolds'
    <3>1. PICK w : w = Failed(a) /\ OneMoves(a, w)
      BY <2>6 DEF DayFails, OneMoves, Forms
    <3>2. w = Idle \/ w.at \notin HasRead
      BY <2>1, <3>1, FailedWork DEF Visits, HasRead
    <3> QED
      BY <1>8, <2>1, <2>6, <3>1, <3>2
  <2>7. CASE ReadLedger(a)
    <3>1. PICK w : OneMoves(a, w) /\ w.day = agent[a].day /\ w.seen = UpTo(ledger, agent[a].day)
      BY <2>1, <2>7, ReadLedgerWork
    <3>2. agent[a].at = "read" /\ UNCHANGED <<rows, ledger, loose>>
      BY <2>7 DEF ReadLedger, At, ledgers, store
    <3> QED
      BY <1>8, <2>1, <3>1, <3>2, FollowsRead
  <2>8. CASE ReadQuotes(a) \/ Validate(a)
    <3>1. UNCHANGED <<rows, ledger, loose>> /\ agent[a].at \in {"quotes", "validate"}
      BY <2>8 DEF ReadQuotes, Validate, At, ledgers, store
    <3>2. CASE DayFails(a)
      BY <2>6, <3>1, <3>2
    <3>3. CASE ReadQuotes(a) /\ Go(a, "before")
      <4>1. "before" \in PointsOf(agent[a].job) /\ agent[a].at = "quotes"
        BY <2>1, <3>3 DEF ReadQuotes, At, WorkOk, PointsOf, Recording
      <4>2. PICK w : OneMoves(a, w) /\ w.day = agent[a].day /\ w.seen = agent[a].seen
        BY <2>1, <3>3, <4>1, GoWork DEF SameDay
      <4> QED
        BY <1>8, <2>1, <2>2, <3>1, <4>1, <4>2 DEF HasRead
    <3>4. CASE Validate(a) /\ Go(a, "finish")
      <4>1. "finish" \in PointsOf(agent[a].job)
        BY <2>1, <3>4 DEF Validate, At, WorkOk, PointsOf, Recording
      <4>2. PICK w : OneMoves(a, w) /\ w.at = "finish"
        BY <2>1, <3>4, <4>1, GoWork
      <4> QED
        BY <1>8, <2>1, <3>1, <4>2 DEF HasRead
    <3> QED
      BY <2>8, <3>2, <3>3, <3>4 DEF ReadQuotes, Validate
  <2>9. CASE LoadDayBefore(a) \/ FindRow(a)
    <3>1. PICK w : OneMoves(a, w) /\ w.day = agent[a].day /\ w.seen = agent[a].seen
      <4>1. CASE LoadDayBefore(a)
        BY <2>1, <4>1, LoadDayBeforeWork
      <4>2. CASE FindRow(a)
        BY <2>1, <4>2, FindRowWork
      <4> QED
        BY <2>9, <4>1, <4>2
    <3>2. agent[a].at \in {"before", "find"} /\ UNCHANGED <<rows, ledger, loose>>
      BY <2>9 DEF LoadDayBefore, FindRow, At, ledgers, store
    <3> QED
      BY <1>8, <2>1, <2>2, <3>1, <3>2 DEF HasRead
  <2>10. CASE WriteRow(a)
    <3>1. agent[a].at = "write" /\ UNCHANGED <<ledger, loose>>
      BY <2>10 DEF WriteRow, At, ledgers
    <3>2. CASE OneMoves(a, Failed(a)) /\ UNCHANGED rows
      <4>1. Failed(a) = Idle \/ Failed(a).at \notin HasRead
        BY <2>1, FailedWork DEF Visits, HasRead
      <4> QED
        BY <1>8, <2>1, <3>1, <3>2, <4>1
    <3>3. CASE ~(OneMoves(a, Failed(a)) /\ UNCHANGED rows)
      <4>1. PICK w, r : /\ OneMoves(a, w) /\ w.at = "positions"
                        /\ rows' = [rows EXCEPT ![agent[a].day] = {r}] /\ r.seen = agent[a].seen
        BY <2>1, <2>10, <3>3, WriteRowWork
      <4>2. \A d \in Days : rows'[d] = IF d = agent[a].day THEN {r} ELSE rows[d]
        BY <2>1, <4>1 DEF Forms
      <4>3. \A d \in Days : ~WillSweep(a, d)
        BY <3>1 DEF WillSweep
      <4>4. Follows(r.seen, agent[a].day)
        BY <2>2, <3>1, <4>1 DEF HasRead
      <4>5. \A d \in Days : \A q \in rows'[d] : Follows(q.seen, d)
        BY <1>5, <2>1, <4>1, <4>2, <4>3, <4>4
      <4> QED
        BY <1>7, <2>1, <3>1, <4>1, <4>5 DEF HasRead
    <3> QED
      BY <3>2, <3>3
  <2>11. CASE WritePositions(a)
    <3>1. "validate" \in PointsOf(agent[a].job)
      BY <2>1, <2>11 DEF WritePositions, At, WorkOk, PointsOf, Recording
    <3>2. PICK w : OneMoves(a, w) /\ w.at = "validate"
      BY <2>1, <2>11, <3>1, GoWork DEF WritePositions
    <3>3. agent[a].at = "positions" /\ UNCHANGED <<rows, ledger, loose>>
      BY <2>11 DEF WritePositions, At, ledgers
    <3> QED
      BY <1>8, <2>1, <3>2, <3>3 DEF HasRead
  <2>12. CASE Finish(a)
    <3>1. PICK w : OneMoves(a, w) /\ (w = Idle \/ w.at \in {"read", "prices"})
      BY <2>1, <2>12, FinishWork DEF Visits
    <3>2. agent[a].at = "finish" /\ UNCHANGED <<ledger, loose>>
      BY <2>12 DEF Finish, At, ledgers
    <3>3. ASSUME NEW d \in Days, NEW r \in rows'[d] PROVE \E q \in rows[d] : r.seen = q.seen
      BY <2>1, <2>12, <3>3, FinishRows
    <3>4. \A d \in Days : ~WillSweep(a, d)
      BY <3>2 DEF WillSweep
    <3>5. \A d \in Days : \A r \in rows'[d] : Follows(r.seen, d)
      BY <1>5, <2>1, <3>1, <3>3, <3>4
    <3>6. w.at \notin HasRead
      BY <3>1 DEF HasRead, Idle
    <3> QED
      BY <1>7, <2>1, <3>1, <3>2, <3>5, <3>6
  <2>13. CASE Prices(a)
    <3>1. OneMoves(a, Idle) /\ agent[a].at = "prices" /\ UNCHANGED <<rows, ledger, loose>>
      BY <2>13 DEF Prices, OneMoves, Forms, At, ledgers, store
    <3> QED
      BY <1>8, <2>1, <3>1
  <2> QED
    BY <1>6, <1>9, <2>3, <2>4, <2>5, <2>7, <2>8, <2>9, <2>10, <2>11, <2>12, <2>13 DEF Work
<1>10. ASSUME NEW a \in Agents, Throw(a) PROVE FALSE
  BY <1>1, <1>10 DEF Throw
<1>11. CASE Crash
  BY <1>1, <1>11 DEF Crash
<1>13. ASSUME NEW e \in Entries, Add(e) \/ Drop(e) PROVE FollowHolds'
  <2>1. /\ UNCHANGED rows /\ agent' = Disturbed({}) /\ loose' = loose \cup {e}
        /\ ledger' \in {ledger \cup {e}, ledger \ {e}}
    BY <1>13 DEF Add, Drop, Unswept, store
  <2>2. \A b \in Agents : Undisturbed(b)
    BY <2>1, DisturbedWorksOn DEF Disturbed
  <2>3. ASSUME NEW seen, NEW d, Follows(seen, d) PROVE Follows(seen, d)'
    <3>1. UpTo(loose, d) \subseteq UpTo(loose, d)'
      BY <2>1 DEF UpTo
    <3>2. SymDiff(UpTo(ledger, d), UpTo(ledger, d)') \subseteq UpTo(loose, d)'
      BY <2>1 DEF UpTo, SymDiff
    <3> QED
      BY <2>3, <3>1, <3>2, FollowsOn
  <2> QED
    BY <1>2, <2>1, <2>2, <2>3
<1>12. CASE (\E d \in Days, t \in Exact : QuoteArrives(d, t)) \/ UNCHANGED vars
  <2>1. UNCHANGED <<rows, ledger, loose>> /\ (agent' = Disturbed({}) \/ UNCHANGED agent)
    BY <1>12 DEF QuoteArrives, vars, store
  <2>2. \A b \in Agents : Undisturbed(b)
    BY <2>1, DisturbedWorksOn DEF Disturbed
  <2> QED
    BY <1>2, <2>1, <2>2, FollowsStill
<1> QED
  BY <1>4, <1>9, <1>10, <1>11, <1>12, <1>13, StepCases

(* Jobs one after the other, none of which threw: the rows follow the       *)
(* ledger, back-dated imports between recordings included, but for entries  *)
(* that a settlement, a backfill or an amendment changed with no sweep.     *)
THEOREM LedgerIsFollowed == Spec => []RowsFollowLedger
<1>1. Init => ApartInv /\ FollowInv
  BY DEF Init, ApartInv, FollowInv, FollowHolds, RowsFollow, ReadsFollow, Working
<1>2. Forms /\ ApartInv /\ FollowInv /\ [Next]_vars => (ApartInv /\ FollowInv)'
  BY ApartStep, FollowStep
<1>3. Forms /\ FollowInv => RowsFollowLedger
  BY Awake DEF FollowInv, FollowHolds, RowsFollow, WillSweep, RowsFollowLedger, AllIdle
<1> QED
  BY <1>1, <1>2, <1>3, FormsHold, PTL DEF Spec
-----------------------------------------------------------------------------
(* What a rebuild nobody disturbed has behind it, before it and in hand.    *)
NoPositions == [t \in Tickers |-> {}]

DayRepaired(to, d) ==
  LET seen == UpTo(ledger, d)
  IN  IF to < d \/ d \in Closed \/ ~CanBeValued(seen, d) THEN rows[d] = {}
      ELSE /\ AddsUp(d, seen)
           /\ \E r \in rows[d] :
                r.seen = seen /\ r.checked = TRUE /\ r.chain = Chain(RowsBefore(d), d, seen)

NewRow(w) ==
  \E r : rows[w.day] = {r} /\ r.id = w.id /\ r.seen = w.seen
        /\ r.chain = Chain(RowsBefore(w.day), w.day, w.seen)

Ahead(d) == \A x \in Days : d < x => rows[x] = {} /\ positions[x] = NoPositions

Behind(w) == \A d \in Days : w.from <= d /\ d < w.day => DayRepaired(w.to, d)

RepairOf(w) ==
  /\ w.at \in {"sweep", "sweep_positions"} => w.day = w.from
  /\ w.at = "sweep_positions" => \A d \in Days : w.from <= d => rows[d] = {}
  /\ w.at \in Recording =>
       /\ w.from <= w.day /\ ~(w.to < w.day) /\ w.day \notin Closed
       /\ Behind(w) /\ Ahead(w.day)
  /\ w.at \in {"read", "quotes", "before", "find", "write"} => rows[w.day] = {}
  /\ w.at \in Recording \ {"validate", "finish"} => positions[w.day] = NoPositions
  /\ w.at \in Recording \ {"read"} => w.seen = UpTo(ledger, w.day)
  /\ w.at \in Recording \ {"read", "quotes"} => CanBeValued(w.seen, w.day)
  /\ w.at \in {"find", "write"} => w.before = RowsBefore(w.day)
  /\ w.at = "write" => w.id = NoId
  /\ w.at \in {"positions", "validate", "finish"} => NewRow(w)
  /\ w.at \in {"validate", "finish"} => AddsUp(w.day, w.seen)
  /\ w.at = "prices" => \A d \in Days : w.from <= d => DayRepaired(w.to, d)

(* The row before a day depends on the days before it.                      *)
LEMMA RowsBeforeKept ==
  ASSUME NEW d \in Days, \A x \in Days : x < d => rows'[x] = rows[x]
  PROVE  RowsBefore(d)' = RowsBefore(d)
<1> DEFINE S == {y \in Days : y < d /\ rows[y] # {} /\ \A z \in Days : y < z /\ z < d => rows[z] = {}}
           T == {y \in Days : y < d /\ rows'[y] # {} /\ \A z \in Days : y < z /\ z < d => rows'[z] = {}}
<1>1. S = T
  OBVIOUS
<1>2. \A x \in S : rows'[x] = rows[x]
  OBVIOUS
<1>3. RowsBefore(d) = UNION {rows[x] : x \in S}
  BY DEF RowsBefore
<1>4. RowsBefore(d)' = UNION {rows'[x] : x \in T}
  BY DEF RowsBefore
<1> HIDE DEF S, T
<1>5. UNION {rows[x] : x \in S} = UNION {rows'[x] : x \in T}
  BY <1>1, <1>2
<1> QED
  BY <1>3, <1>4, <1>5

LEMMA DayKept ==
  ASSUME NEW d \in Days, NEW to, DayRepaired(to, d), UNCHANGED <<ledger, quotes>>,
         \A x \in Days : x <= d => rows'[x] = rows[x], positions'[d] = positions[d]
  PROVE  DayRepaired(to, d)'
<1>1. \A x \in Days : x < d => rows'[x] = rows[x]
  BY DEF Days
<1>2. RowsBefore(d)' = RowsBefore(d)
  BY <1>1, RowsBeforeKept
<1>3. rows'[d] = rows[d]
  BY DEF Days
<1>4. UpTo(ledger, d)' = UpTo(ledger, d)
  BY DEF UpTo
<1>5. \A entries : CanBeValued(entries, d)' <=> CanBeValued(entries, d)
  BY DEF CanBeValued, QuotesSuffice
<1>6. \A entries : AddsUp(d, entries)' <=> AddsUp(d, entries)
  BY DEF AddsUp
<1> QED
  BY <1>2, <1>3, <1>4, <1>5, <1>6 DEF DayRepaired

(* On to the next day: those in between are closed or beyond the range.     *)
LEMMA VisitRepairs ==
  ASSUME NEW w, WorkOk(w), NEW low \in Int, w.from <= low,
         NEW days, days = {d \in Days \ Closed : low <= d /\ d <= w.to}, Visits(w, days),
         \A d \in Days : w.from <= d /\ d < low => DayRepaired(w.to, d)',
         \A d \in Days : low <= d => rows'[d] = {} /\ positions'[d] = NoPositions
  PROVE  RepairOf(w)'
<1>1. w.from \in Int /\ w.to \in Int /\ Days \subseteq Int
  BY DEF WorkOk, Days
<1>2. ASSUME NEW d \in Days, w.from <= d, d \notin days PROVE DayRepaired(w.to, d)'
  <2>1. CASE d < low
    BY <1>2, <2>1
  <2>2. CASE ~(d < low)
    <3>1. rows'[d] = {} /\ (w.to < d \/ d \in Closed)
      BY <1>1, <1>2, <2>2
    <3> QED
      BY <3>1 DEF DayRepaired
  <2> QED
    BY <2>1, <2>2
<1>3. CASE days = {}
  <2>1. w.at = "prices"
    BY <1>3 DEF Visits
  <2> QED
    BY <1>2, <1>3, <2>1 DEF RepairOf, Recording
<1>4. CASE days # {}
  <2>1. w.at = "read" /\ w.day \in days /\ \A d \in days : w.day <= d
    BY <1>4 DEF Visits
  <2>6. \A d \in days : d \in Days \ Closed /\ low <= d /\ ~(w.to < d)
    <3> SUFFICES ASSUME NEW d \in days PROVE d \in Days \ Closed /\ low <= d /\ ~(w.to < d)
      OBVIOUS
    <3>1. d \in Days \ Closed /\ low <= d /\ d <= w.to
      OBVIOUS
    <3>2. d \in Int
      BY <1>1, <3>1
    <3> QED
      BY <1>1, <3>1, <3>2
  <2>7. w.day \in Days \ Closed /\ low <= w.day /\ ~(w.to < w.day)
    BY <2>1, <2>6
  <2>8. w.day \in Int
    BY <1>1, <2>7
  <2>2. \A d \in Days : d < w.day => d \notin days
    <3> SUFFICES ASSUME NEW d \in Days, d < w.day, d \in days PROVE FALSE
      OBVIOUS
    <3>1. d \in Int /\ w.day \in Int /\ w.day <= d
      BY <1>1, <2>1, <2>7
    <3> QED
      BY <3>1
  <2>3. Behind(w)'
    BY <1>2, <2>2 DEF Behind
  <2>4. low <= w.day /\ w.from <= w.day /\ ~(w.to < w.day) /\ w.day \in Days \ Closed
    <3>1. w.day \in Int
      BY <1>1, <2>7
    <3>2. w.from <= w.day
      BY <1>1, <2>7, <3>1
    <3> QED
      BY <2>7, <3>2
  <2>5. Ahead(w.day)' /\ rows'[w.day] = {} /\ positions'[w.day] = NoPositions
    <3>1. ASSUME NEW d \in Days, w.day <= d PROVE rows'[d] = {} /\ positions'[d] = NoPositions
      <4>1. d \in Int
        BY <1>1
      <4>2. low <= d
        BY <2>4, <2>8, <3>1, <4>1
      <4> QED
        BY <4>2
    <3>2. \A d \in Days : w.day < d => w.day <= d
      <4> SUFFICES ASSUME NEW d \in Days, w.day < d PROVE w.day <= d
        OBVIOUS
      <4>1. d \in Int
        BY <1>1
      <4> QED
        BY <2>8, <4>1
    <3>3. w.day <= w.day
      BY <2>8
    <3> QED
      BY <2>4, <3>1, <3>2, <3>3 DEF Ahead, NoPositions
  <2> QED
    BY <2>1, <2>3, <2>4, <2>5 DEF RepairOf, Recording
<1> QED
  BY <1>3, <1>4

(* What was behind a day stays repaired while only that day changes.        *)
LEMMA BehindKept ==
  ASSUME NEW v, WorkOk(v), Behind(v), UNCHANGED <<ledger, quotes>>,
         \A x \in Days : x # v.day => rows'[x] = rows[x] /\ positions'[x] = positions[x]
  PROVE  \A d \in Days : v.from <= d /\ d < v.day => DayRepaired(v.to, d)'
<1> SUFFICES ASSUME NEW d \in Days, v.from <= d, d < v.day PROVE DayRepaired(v.to, d)'
  OBVIOUS
<1>1. DayRepaired(v.to, d)
  BY DEF Behind
<1>2. v.day \in Int /\ Days \subseteq Int
  BY DEF WorkOk, Days
<1>3. \A x \in Days : x <= d => x # v.day
  BY <1>2
<1>4. d # v.day
  BY <1>2
<1> QED
  BY <1>1, <1>3, <1>4, DayKept

Repairs(a) == \E w : OneMoves(a, w) /\ (w = Idle \/ RepairOf(w)')

(* Within a day: same day, same books up to there.                          *)
LEMMA SameDayRepairs ==
  ASSUME NEW v, WorkOk(v), RepairOf(v), v.at \in Recording, NEW w, SameJob(w, v), w.day = v.day,
         UNCHANGED <<ledger, quotes>>, rows' = [d \in Days |-> rows'[d]],
         \A x \in Days : x # v.day => rows'[x] = rows[x] /\ positions'[x] = positions[x]
  PROVE  /\ w.from <= w.day /\ ~(w.to < w.day) /\ w.day \notin Closed /\ Behind(w)' /\ Ahead(w.day)'
         /\ RowsBefore(w.day)' = RowsBefore(w.day)
<1>1. v.from <= v.day /\ ~(v.to < v.day) /\ v.day \notin Closed /\ Behind(v) /\ Ahead(v.day)
  BY DEF RepairOf
<1>2. v.day \in Days /\ Days \subseteq Int
  BY DEF WorkOk, Days
<1>3. Behind(w)'
  BY <1>1, BehindKept DEF Behind, SameJob
<1>4. \A x \in Days : (x < v.day \/ v.day < x) => x # v.day
  BY <1>2
<1>5. Ahead(w.day)'
  BY <1>1, <1>4 DEF Ahead, NoPositions
<1>6. RowsBefore(v.day)' = RowsBefore(v.day)
  BY <1>2, <1>4, RowsBeforeKept
<1> QED
  BY <1>1, <1>3, <1>5, <1>6 DEF SameJob

(* A day that is over, and the next one.                                    *)
LEMMA NextDayRepairs ==
  ASSUME NEW a \in Agents, NEW v, v = agent[a], WorkOk(v), RepairOf(v), v.at \in Recording,
         NEW w, WorkOk(w), SameJob(w, v), Visits(w, Following(a) \ {v.day}),
         UNCHANGED <<ledger, quotes>>,
         \A x \in Days : x # v.day => rows'[x] = rows[x] /\ positions'[x] = positions[x],
         DayRepaired(v.to, v.day)'
  PROVE  RepairOf(w)'
<1>1. /\ v.from \in Days /\ v.day \in Days /\ v.from \in Int /\ v.day \in Int /\ Days \subseteq Int
      /\ v.day + 1 \in Int
  BY DEF WorkOk, Days
<1>2. v.from <= v.day /\ Behind(v) /\ Ahead(v.day)
  BY DEF RepairOf
<1>3. \A d \in Days : v.from <= d /\ d < v.day => DayRepaired(v.to, d)'
  BY <1>2, BehindKept
<1>4. w.from = v.from /\ w.to = v.to
  BY DEF SameJob
<1>5. w.from <= v.day + 1
  BY <1>1, <1>2, <1>4
<1>6. \A d \in Days : w.from <= d /\ d < v.day + 1 => DayRepaired(w.to, d)'
  <2> SUFFICES ASSUME NEW d \in Days, w.from <= d, d < v.day + 1 PROVE DayRepaired(w.to, d)'
    OBVIOUS
  <2>1. d \in Int
    BY <1>1
  <2>2. d = v.day \/ d < v.day
    BY <1>1, <2>1
  <2>3. v.from <= d
    BY <1>4
  <2> QED
    BY <1>3, <1>4, <2>2, <2>3
<1>7. \A d \in Days : v.day + 1 <= d => rows'[d] = {} /\ positions'[d] = NoPositions
  <2> SUFFICES ASSUME NEW d \in Days, v.day + 1 <= d
               PROVE  rows'[d] = {} /\ positions'[d] = NoPositions
    OBVIOUS
  <2>1. d \in Int
    BY <1>1
  <2>2. v.day < d /\ d # v.day
    BY <1>1, <2>1
  <2> QED
    BY <1>2, <2>2 DEF Ahead
<1>8. Following(a) \ {v.day} = {d \in Days \ Closed : v.day + 1 <= d /\ d <= w.to}
  <2>1. \A d \in Days : v.day <= d /\ d # v.day <=> v.day + 1 <= d
    <3> SUFFICES ASSUME NEW d \in Days PROVE v.day <= d /\ d # v.day <=> v.day + 1 <= d
      OBVIOUS
    <3>1. d \in Int
      BY <1>1
    <3> QED
      BY <1>1, <3>1
  <2> QED
    BY <1>4, <2>1 DEF Following
<1> QED
  BY <1>1, <1>5, <1>6, <1>7, <1>8, VisitRepairs

LEMMA RepairStep ==
  ASSUME Forms, NEW a \in Agents, Work(a), agent[a].job = "rebuild", NEW v, v = agent[a], RepairOf(v)
  PROVE  Repairs(a)
<1>1. Working(a) /\ WorkOk(v) /\ v.job = "rebuild" /\ v.day \in Days /\ v.from \in Days
  BY WorkGoesOn DEF Forms, WorkOk
<1>2. Days \subseteq Int /\ v.day \in Int
  BY <1>1 DEF Days
<1>3. rows = [d \in Days |-> rows[d]] /\ positions = [d \in Days |-> positions[d]]
  BY DEF Forms
<1>4. \A d \in Days : v.day <= d <=> (v.day = d \/ v.day < d)
  BY <1>2
<1>5. v.at # "line"
  BY <1>1 DEF WorkOk, PointsOf, Recording
<1>6. ASSUME UNCHANGED <<ledger, quotes, rows, positions>>, v.at \in Recording,
             NEW p, Go(a, p), p \in Recording \ {"read"},
             p = "before" => v.at = "quotes" /\ CanBeValued(v.seen, v.day),
             p = "finish" => v.at = "validate", p \in {"before", "finish"}
      PROVE  Repairs(a)
  <2>1. p \in PointsOf(v.job)
    BY <1>1, <1>6 DEF PointsOf
  <2>2. PICK w : OneMoves(a, w) /\ w.at = p /\ SameDay(w, v)
    BY <1>1, <1>6, <2>1, GoWork
  <2>3. SameJob(w, v) /\ w.day = v.day /\ w.seen = v.seen /\ w.id = v.id
    BY <2>2 DEF SameDay
  <2>4. /\ w.from <= w.day /\ ~(w.to < w.day) /\ w.day \notin Closed /\ Behind(w)' /\ Ahead(w.day)'
        /\ RowsBefore(w.day)' = RowsBefore(w.day)
    BY <1>1, <1>3, <1>6, <2>3, SameDayRepairs
  <2>5. \A entries, d : CanBeValued(entries, d)' <=> CanBeValued(entries, d)
    BY <1>6 DEF CanBeValued, QuotesSuffice
  <2>6. CASE p = "before"
    <3>1. /\ rows[v.day] = {} /\ positions[v.day] = NoPositions /\ v.seen = UpTo(ledger, v.day)
          /\ CanBeValued(v.seen, v.day)
      BY <1>6, <2>6 DEF RepairOf, Recording
    <3>2. /\ rows'[w.day] = {} /\ positions'[w.day] = NoPositions /\ w.seen = UpTo(ledger', w.day)
          /\ CanBeValued(w.seen, w.day)'
      BY <1>6, <2>3, <2>5, <3>1
    <3>3. RepairOf(w)'
      BY <2>2, <2>4, <2>6, <3>2 DEF RepairOf, Recording, NoPositions, UpTo
    <3> QED
      BY <2>2, <3>3 DEF Repairs
  <2>7. CASE p = "finish"
    <3>1. v.seen = UpTo(ledger, v.day) /\ CanBeValued(v.seen, v.day) /\ NewRow(v) /\ AddsUp(v.day, v.seen)
      BY <1>6, <2>7 DEF RepairOf, Recording
    <3>2. /\ w.seen = UpTo(ledger', w.day) /\ CanBeValued(w.seen, w.day)'
          /\ NewRow(w)' /\ AddsUp(w.day, w.seen)'
      BY <1>6, <2>3, <2>4, <2>5, <3>1 DEF NewRow, AddsUp
    <3>3. RepairOf(w)'
      BY <2>2, <2>4, <2>7, <3>2 DEF RepairOf, Recording, UpTo
    <3> QED
      BY <2>2, <3>3 DEF Repairs
  <2> QED
    BY <1>6, <2>6, <2>7
<1>7. CASE Sweep(a)
  <2>1. "sweep_positions" \in PointsOf(v.job)
    BY <1>1 DEF PointsOf
  <2>2. PICK w : OneMoves(a, w) /\ w.at = "sweep_positions" /\ SameDay(w, v)
    BY <1>1, <1>7, <2>1, GoWork DEF Sweep
  <2>3. v.at = "sweep"
    BY <1>7 DEF Sweep, At
  <2>4. \A d \in Days : v.from <= d => rows'[d] = {}
    BY <1>1, <1>2, <1>7 DEF Sweep
  <2>5. w.day = w.from /\ w.from = v.from
    BY <2>2, <2>3 DEF SameDay, SameJob, RepairOf
  <2>6. RepairOf(w)'
    BY <2>2, <2>4, <2>5 DEF RepairOf, Recording
  <2> QED
    BY <2>2, <2>6 DEF Repairs
<1>8. CASE SweepPositions(a)
  <2>1. PICK w : w = Swept(a) /\ OneMoves(a, w)
    BY <1>8 DEF SweepPositions, OneMoves, Forms
  <2>2. v.at = "sweep_positions" /\ UNCHANGED rows
    BY <1>8 DEF SweepPositions, At
  <2>3. WorkOk(w) /\ SameJob(w, v) /\ Visits(w, Following(a))
    BY <1>1, <2>1, <2>2, SweptWork
  <2>4. v.day = v.from /\ \A d \in Days : v.from <= d => rows[d] = {}
    BY <2>2 DEF RepairOf
  <2>5. \A d \in Days : v.from <= d => positions'[d] = NoPositions
    BY <1>1, <1>2, <1>8 DEF SweepPositions, NoPositions
  <2>6. Following(a) = {d \in Days \ Closed : v.from <= d /\ d <= v.to}
    BY <2>4 DEF Following
  <2>7. RepairOf(w)'
    <3>3. v.from \in Int
      BY <1>1, <1>2
    <3>1. WorkOk(w) /\ w.from = v.from /\ w.to = v.to
      BY <2>3 DEF SameJob
    <3>4. w.from <= v.from
      BY <3>1, <3>3
    <3>2. \A d \in Days : ~(w.from <= d /\ d < v.from)
      <4> SUFFICES ASSUME NEW d \in Days, v.from <= d, d < v.from PROVE FALSE
        BY <3>1
      <4>1. d \in Int
        BY <1>2
      <4> QED
        BY <3>3, <4>1
    <3> QED
      BY <2>2, <2>3, <2>4, <2>5, <2>6, <3>1, <3>2, <3>3, <3>4, VisitRepairs
  <2> QED
    BY <2>1, <2>7 DEF Repairs
<1>9. CASE ReadLedger(a)
  <2>1. PICK w : OneMoves(a, w) /\ SameJob(w, v) /\ w.at = "quotes" /\ w.day = v.day
                 /\ w.seen = UpTo(ledger, v.day)
    BY <1>1, <1>9, ReadLedgerWork
  <2>2. v.at = "read" /\ UNCHANGED <<ledger, quotes, rows, positions>>
    BY <1>9 DEF ReadLedger, At, ledgers, store
  <2>3. /\ w.from <= w.day /\ ~(w.to < w.day) /\ w.day \notin Closed /\ Behind(w)' /\ Ahead(w.day)'
    BY <1>1, <1>3, <2>1, <2>2, SameDayRepairs DEF Recording
  <2>4. rows[v.day] = {} /\ positions[v.day] = NoPositions
    BY <2>2 DEF RepairOf, Recording
  <2>5. RepairOf(w)'
    BY <2>1, <2>2, <2>3, <2>4 DEF RepairOf, Recording, NoPositions, UpTo
  <2> QED
    BY <2>1, <2>5 DEF Repairs
<1>10. CASE ReadQuotes(a)
  <2>1. v.at = "quotes" /\ UNCHANGED <<ledger, quotes, rows, positions>>
    BY <1>10 DEF ReadQuotes, At, ledgers, store
  <2>2. /\ v.from <= v.day /\ Behind(v) /\ Ahead(v.day) /\ rows[v.day] = {}
        /\ positions[v.day] = NoPositions /\ v.seen = UpTo(ledger, v.day)
    BY <2>1 DEF RepairOf, Recording
  <2>3. CASE CanBeValued(v.seen, v.day)
    BY <1>6, <1>10, <2>1, <2>3 DEF ReadQuotes, Recording
  <2>4. CASE ~CanBeValued(v.seen, v.day)
    <3>1. PICK w : OneMoves(a, w) /\ w = Failed(a)
      BY <1>10, <2>4 DEF ReadQuotes, DayFails, OneMoves, Forms
    <3>2. WorkOk(w) /\ SameJob(w, v) /\ Visits(w, Following(a) \ {v.day})
      BY <1>1, <3>1, FailedWork
    <3>3. DayRepaired(v.to, v.day)
      BY <2>2, <2>4 DEF DayRepaired
    <3>4. DayRepaired(v.to, v.day)'
      BY <1>1, <2>1, <3>3, DayKept
    <3>5. RepairOf(w)'
      BY <1>1, <2>1, <3>2, <3>4, NextDayRepairs DEF Recording
    <3> QED
      BY <3>1, <3>5 DEF Repairs
  <2> QED
    BY <2>3, <2>4
<1>11. CASE LoadDayBefore(a) \/ FindRow(a)
  <2>1. /\ v.at \in {"before", "find"} /\ UNCHANGED <<ledger, quotes, rows, positions>>
        /\ LoadDayBefore(a) => v.at = "before"
        /\ FindRow(a) => v.at = "find"
    BY <1>11 DEF LoadDayBefore, FindRow, At, ledgers, store
  <2>2. /\ rows[v.day] = {} /\ positions[v.day] = NoPositions /\ v.seen = UpTo(ledger, v.day)
        /\ CanBeValued(v.seen, v.day) /\ (v.at = "find" => v.before = RowsBefore(v.day))
    BY <2>1 DEF RepairOf, Recording
  <2>3. PICK w : /\ OneMoves(a, w) /\ SameJob(w, v) /\ w.day = v.day /\ w.seen = v.seen
                 /\ w.at \in {"find", "write"} /\ w.before = RowsBefore(v.day)
                 /\ w.at = "write" => w.id = NoId
    <3>1. CASE LoadDayBefore(a)
      <4>1. PICK w : /\ OneMoves(a, w) /\ SameJob(w, v) /\ w.at = "find" /\ w.day = v.day
                     /\ w.seen = v.seen /\ w.before = RowsBefore(v.day)
        BY <1>1, <3>1, LoadDayBeforeWork
      <4> QED
        BY <4>1
    <3>2. CASE FindRow(a)
      <4>1. PICK w : /\ OneMoves(a, w) /\ SameJob(w, v) /\ w.at = "write" /\ w.day = v.day
                     /\ w.seen = v.seen /\ w.before = v.before
                     /\ rows[v.day] = {} => w.id = NoId
        BY <1>1, <3>2, FindRowWork
      <4> QED
        BY <2>1, <2>2, <3>2, <4>1
    <3> QED
      BY <1>11, <3>1, <3>2
  <2>4. /\ w.from <= w.day /\ ~(w.to < w.day) /\ w.day \notin Closed /\ Behind(w)' /\ Ahead(w.day)'
        /\ RowsBefore(w.day)' = RowsBefore(w.day)
    BY <1>1, <1>3, <2>1, <2>3, SameDayRepairs DEF Recording
  <2>5. /\ rows'[w.day] = {} /\ positions'[w.day] = NoPositions /\ w.seen = UpTo(ledger', w.day)
        /\ CanBeValued(w.seen, w.day)' /\ w.before = RowsBefore(w.day)'
    BY <2>1, <2>2, <2>3, <2>4 DEF CanBeValued, QuotesSuffice
  <2>6. RepairOf(w)'
    BY <2>3, <2>4, <2>5 DEF RepairOf, Recording, NoPositions, UpTo
  <2> QED
    BY <2>3, <2>6 DEF Repairs
<1>12. CASE WriteRow(a)
  <2>1. v.at = "write" /\ UNCHANGED <<ledger, quotes, positions>>
    BY <1>12 DEF WriteRow, At, ledgers
  <2>2. /\ rows[v.day] = {} /\ positions[v.day] = NoPositions /\ v.seen = UpTo(ledger, v.day)
        /\ CanBeValued(v.seen, v.day) /\ v.before = RowsBefore(v.day) /\ v.id = NoId
    BY <2>1 DEF RepairOf, Recording
  <2>3. PICK w, r : /\ OneMoves(a, w) /\ SameJob(w, v)
                    /\ w.at = "positions" /\ w.day = v.day /\ w.seen = v.seen
                    /\ rows' = [rows EXCEPT ![v.day] = {r}]
                    /\ r.id = w.id /\ r.seen = v.seen /\ r.chain = Chain(v.before, v.day, v.seen)
    BY <1>1, <1>12, <2>2, WriteRowWork
  <2>4. /\ rows' = [d \in Days |-> rows'[d]] /\ rows'[v.day] = {r}
        /\ \A x \in Days : x # v.day => rows'[x] = rows[x]
    BY <1>1, <1>3, <2>3
  <2>5. /\ w.from <= w.day /\ ~(w.to < w.day) /\ w.day \notin Closed /\ Behind(w)' /\ Ahead(w.day)'
        /\ RowsBefore(w.day)' = RowsBefore(w.day)
    BY <1>1, <1>3, <2>1, <2>3, <2>4, SameDayRepairs DEF Recording
  <2>6. NewRow(w)'
    BY <2>2, <2>3, <2>4, <2>5 DEF NewRow
  <2>7. /\ positions'[w.day] = NoPositions /\ w.seen = UpTo(ledger', w.day) /\ CanBeValued(w.seen, w.day)'
    BY <2>1, <2>2, <2>3 DEF CanBeValued, QuotesSuffice
  <2>8. RepairOf(w)'
    BY <2>3, <2>5, <2>6, <2>7 DEF RepairOf, Recording, NoPositions, UpTo
  <2> QED
    BY <2>3, <2>8 DEF Repairs
<1>13. CASE WritePositions(a)
  <2>1. v.at = "positions" /\ UNCHANGED <<ledger, quotes, rows>>
    BY <1>13 DEF WritePositions, At, ledgers
  <2>2. /\ NewRow(v) /\ positions[v.day] = NoPositions /\ v.seen = UpTo(ledger, v.day)
        /\ CanBeValued(v.seen, v.day)
    BY <2>1 DEF RepairOf, Recording
  <2>3. "validate" \in PointsOf(v.job)
    BY <1>1 DEF PointsOf, Recording
  <2>4. PICK w : OneMoves(a, w) /\ w.at = "validate" /\ SameDay(w, v)
    BY <1>1, <1>13, <2>3, GoWork DEF WritePositions
  <2>5. SameJob(w, v) /\ w.day = v.day /\ w.seen = v.seen /\ w.id = v.id
    BY <2>4 DEF SameDay
  <2>6. PICK snapshot : /\ snapshot = Snapshot(v.seen)
                        /\ snapshot = [t \in Tickers |-> snapshot[t]]
                        /\ positions' = [positions EXCEPT ![v.day] =
                             [t \in Tickers |-> IF snapshot[t] # {} THEN snapshot[t] ELSE @[t]]]
    BY <1>13 DEF WritePositions, Snapshot
  <2>7. \A x \in Days : x # v.day => positions'[x] = positions[x]
    BY <1>3, <2>6
  <2>8. positions'[v.day] = snapshot
    <3>1. positions'[v.day] = [t \in Tickers |-> IF snapshot[t] # {} THEN snapshot[t] ELSE NoPositions[t]]
      BY <1>1, <1>3, <2>2, <2>6
    <3>2. \A t \in Tickers : (IF snapshot[t] # {} THEN snapshot[t] ELSE NoPositions[t]) = snapshot[t]
      BY DEF NoPositions
    <3>3. [t \in Tickers |-> IF snapshot[t] # {} THEN snapshot[t] ELSE NoPositions[t]]
          = [t \in Tickers |-> snapshot[t]]
      BY <3>2
    <3> QED
      BY <2>6, <3>1, <3>3
  <2>9. /\ w.from <= w.day /\ ~(w.to < w.day) /\ w.day \notin Closed /\ Behind(w)' /\ Ahead(w.day)'
        /\ RowsBefore(w.day)' = RowsBefore(w.day)
    BY <1>1, <1>3, <2>1, <2>5, <2>7, SameDayRepairs DEF Recording
  <2>10. NewRow(w)'
    BY <2>1, <2>2, <2>5, <2>9 DEF NewRow
  <2>11. /\ w.seen = UpTo(ledger', w.day) /\ CanBeValued(w.seen, w.day)' /\ AddsUp(w.day, w.seen)'
    BY <2>1, <2>2, <2>5, <2>6, <2>8 DEF CanBeValued, QuotesSuffice, AddsUp
  <2>12. RepairOf(w)'
    BY <2>4, <2>9, <2>10, <2>11 DEF RepairOf, Recording, UpTo
  <2> QED
    BY <2>4, <2>12 DEF Repairs
<1>14. CASE Validate(a)
  <2>1. v.at = "validate" /\ UNCHANGED <<ledger, quotes, rows, positions>>
    BY <1>14 DEF Validate, At, ledgers, store
  <2>2. AddsUp(v.day, v.seen)
    BY <2>1 DEF RepairOf
  <2>3. Go(a, "finish")
    BY <1>14, <2>2 DEF Validate
  <2> QED
    BY <1>6, <2>1, <2>3 DEF Recording
<1>15. CASE Finish(a)
  <2>1. v.at = "finish" /\ UNCHANGED <<ledger, quotes, positions>>
    BY <1>15 DEF Finish, At, ledgers
  <2>2. /\ NewRow(v) /\ v.seen = UpTo(ledger, v.day) /\ CanBeValued(v.seen, v.day)
        /\ AddsUp(v.day, v.seen)
    BY <2>1 DEF RepairOf, Recording
  <2>3. PICK q : /\ rows[v.day] = {q} /\ q.id = v.id /\ q.seen = v.seen
                 /\ q.chain = Chain(RowsBefore(v.day), v.day, v.seen)
    BY <2>2 DEF NewRow
  <2>4. \A x \in Days : x # v.day => rows'[x] = rows[x]
    BY <1>1, <1>15, FinishRows
  <2>5. PICK r : r \in rows'[v.day] /\ r.seen = v.seen /\ r.checked = TRUE /\ r.chain = q.chain
    <3>1. [id |-> q.id, seen |-> q.seen, chain |-> q.chain, checked |-> TRUE] \in rows'[v.day]
      BY <1>1, <1>15, <2>3, FinishRows
    <3> QED
      BY <2>3, <3>1
  <2>6. RowsBefore(v.day)' = RowsBefore(v.day)
    <3>1. \A x \in Days : x < v.day => x # v.day
      BY <1>2
    <3> QED
      BY <1>1, <2>4, <3>1, RowsBeforeKept
  <2>7. DayRepaired(v.to, v.day)'
    <3>1. /\ v.seen = UpTo(ledger, v.day)' /\ CanBeValued(v.seen, v.day)' /\ AddsUp(v.day, v.seen)'
          /\ ~(v.to < v.day) /\ v.day \notin Closed
      BY <2>1, <2>2 DEF UpTo, CanBeValued, QuotesSuffice, AddsUp, RepairOf, Recording
    <3> QED
      BY <2>3, <2>5, <2>6, <3>1 DEF DayRepaired
  <2>8. PICK w : /\ OneMoves(a, w) /\ WorkOk(w) /\ SameJob(w, v)
                 /\ Visits(w, Following(a) \ {v.day})
    BY <1>1, <1>15, FinishWork
  <2>9. RepairOf(w)'
    BY <1>1, <2>1, <2>4, <2>7, <2>8, NextDayRepairs DEF Recording
  <2> QED
    BY <2>8, <2>9 DEF Repairs
<1>16. CASE Prices(a)
  BY <1>16 DEF Prices, OneMoves, Forms, Repairs
<1> QED
  BY <1>5, <1>7, <1>8, <1>9, <1>10, <1>11, <1>12, <1>13, <1>14, <1>15, <1>16
     DEF Work, RecordLine, LinesDone, At

Sole(a) == Working(a) /\ agent[a].sole = TRUE

SoleInv ==
  \A a \in Agents : Sole(a) =>
    agent[a].job = "rebuild" /\ (\A b \in Agents : Working(b) => b = a) /\ RepairOf(agent[a])

LEMMA SoleStep == ASSUME Forms, SoleInv, [Next]_vars PROVE SoleInv'
<1>1. ASSUME NEW b \in Agents, agent'[b] = Disturb(agent[b]) PROVE ~Sole(b)'
  <2>1. CASE agent[b] = Idle
    BY <1>1, <2>1 DEF Disturb, Sole, Working
  <2>2. CASE agent[b] # Idle
    <3>1. PICK v, w : v = agent[b] /\ w = agent'[b] /\ WorkOk(v) /\ w = Disturb(v)
      BY <1>1, <2>2 DEF Forms, Working
    <3>2. w.sole = FALSE
      BY <3>1, DisturbWork
    <3> QED
      BY <3>1, <3>2 DEF Sole
  <2> QED
    BY <2>1, <2>2
<1>2. ASSUME \A b \in Agents : ~Sole(b)' PROVE SoleInv'
  BY <1>2 DEF SoleInv
<1>3. ASSUME NEW a \in Agents, Starts(a) PROVE SoleInv'
  <2>1. PICK job : /\ Start(a, job) /\ job.at \in {"line", "sweep", "read"} /\ job.day = job.from
                   /\ job.job = "rebuild" => job.at = "sweep"
                   /\ job.sole = TRUE => job.job = "rebuild" /\ Others(a) = {}
    BY <1>3 DEF Starts
  <2>2. agent'[a] = job /\ \A b \in Agents \ {a} : agent'[b] = Disturb(agent[b])
    BY <2>1, StartWork
  <2>3. \A b \in Agents \ {a} : ~Sole(b)'
    BY <1>1, <2>2
  <2>4. CASE job.sole = TRUE
    <3>1. \A b \in Agents \ {a} : ~Working(b)
      BY <2>1, <2>4, Awake DEF Others
    <3>2. \A b \in Agents \ {a} : ~Working(b)'
      BY <1>3, <3>1, OthersWorkOn DEF Undisturbed
    <3>4. RepairOf(job)'
      BY <2>1, <2>4 DEF RepairOf, Recording
    <3> QED
      BY <2>1, <2>2, <2>3, <2>4, <3>2, <3>4 DEF SoleInv
  <2>5. CASE job.sole # TRUE
    BY <1>2, <2>2, <2>3, <2>5 DEF Sole
  <2> QED
    BY <2>4, <2>5
<1>4. ASSUME NEW a \in Agents, NEW e \in Entries, RecordLine(a, e) PROVE SoleInv'
  <2>1. Working(a) /\ agent[a].at = "line"
    BY <1>4, LineGoesOn
  <2>2. agent[a].job # "rebuild"
    BY <2>1 DEF Forms, WorkOk, PointsOf, Recording
  <2>3. \A b \in Agents : ~Sole(b)
    BY <2>1, <2>2 DEF SoleInv
  <2>4. PICK w : /\ agent'[a] = w /\ w.sole = agent[a].sole
                 /\ \A b \in Agents \ {a} : agent'[b] = IF e \in ledger THEN agent[b] ELSE Disturb(agent[b])
    BY <1>4, <2>1, LineWork DEF SameJob
  <2>5. ~Sole(a)'
    BY <2>1, <2>3, <2>4 DEF Sole
  <2>6. ASSUME NEW b \in Agents \ {a} PROVE ~Sole(b)'
    BY <1>1, <2>3, <2>4 DEF Sole, Working
  <2> QED
    BY <1>2, <2>5, <2>6
<1>5. ASSUME NEW a \in Agents, Working(a), NEW w, OneMoves(a, w),
             w = Idle \/ (w.sole = TRUE => agent[a].sole = TRUE /\ RepairOf(w)' /\ w.job = "rebuild")
      PROVE  SoleInv'
  <2>1. agent'[a] = w /\ \A b \in Agents \ {a} : agent'[b] = agent[b]
    BY <1>5 DEF OneMoves
  <2>2. ASSUME NEW b \in Agents \ {a} PROVE ~Sole(b)'
    <3>1. ~Sole(b)
      BY <1>5 DEF SoleInv
    <3> QED
      BY <2>1, <3>1 DEF Sole, Working
  <2>3. CASE w # Idle /\ w.sole = TRUE
    <3>1. Sole(a)
      BY <1>5, <2>3 DEF Sole
    <3>2. \A b \in Agents : Working(b) => b = a
      BY <3>1 DEF SoleInv
    <3>3. \A b \in Agents : Working(b)' => b = a
      BY <2>1, <3>2 DEF Working
    <3> QED
      BY <1>5, <2>1, <2>2, <2>3, <3>3 DEF SoleInv
  <2>4. CASE ~(w # Idle /\ w.sole = TRUE)
    BY <1>2, <2>1, <2>2, <2>4 DEF Sole, Working
  <2> QED
    BY <2>3, <2>4
<1>6. ASSUME NEW a \in Agents, Work(a), ~ \E e \in Entries : RecordLine(a, e) PROVE SoleInv'
  <2>1. PICK w : GoesOn(a, w) /\ Working(a)
    BY <1>6, WorkGoesOn
  <2>2. OneMoves(a, w)
    BY <2>1 DEF GoesOn
  <2>3. CASE Sole(a)
    <3>1. agent[a].job = "rebuild" /\ RepairOf(agent[a])
      BY <2>3 DEF SoleInv
    <3>2. Repairs(a)
      BY <1>6, <3>1, RepairStep
    <3>3. PICK u : OneMoves(a, u) /\ (u = Idle \/ RepairOf(u)')
      BY <3>2 DEF Repairs
    <3>4. u = w
      BY <2>2, <3>3 DEF OneMoves
    <3> QED
      BY <1>5, <2>1, <2>2, <2>3, <3>1, <3>3, <3>4 DEF GoesOn, Sole
  <2>4. CASE ~Sole(a)
    BY <1>5, <2>1, <2>2, <2>4 DEF GoesOn, Sole
  <2> QED
    BY <2>3, <2>4
<1>7. ASSUME NEW a \in Agents, Throw(a) PROVE SoleInv'
  <2>1. Working(a)
    BY <1>7, ThrowWork
  <2>2. PICK w : OneMoves(a, w) /\ (w = Idle \/ w.sole = FALSE)
    BY <1>7, ThrowWork
  <2> QED
    BY <1>5, <2>1, <2>2
<1>8. CASE agent' = Disturbed({})
  BY <1>1, <1>2, <1>8 DEF Disturbed
<1>9. CASE Crash
  BY <1>2, <1>9 DEF Crash, Sole, Working
<1>10. CASE UNCHANGED vars
  <2>1. UNCHANGED <<agent, rows, positions, ledger, quotes>>
    BY <1>10 DEF vars
  <2>3. \A d, entries : /\ AddsUp(d, entries)' <=> AddsUp(d, entries)
                        /\ CanBeValued(entries, d)' <=> CanBeValued(entries, d)
    BY <2>1 DEF AddsUp, CanBeValued, QuotesSuffice
  <2>4. \A d : RowsBefore(d)' = RowsBefore(d) /\ UpTo(ledger, d)' = UpTo(ledger, d)
    BY <2>1 DEF RowsBefore, UpTo
  <2>5. \A d, to : DayRepaired(to, d)' <=> DayRepaired(to, d)
    BY <2>1, <2>3, <2>4 DEF DayRepaired
  <2>6. \A w : (Behind(w)' <=> Behind(w)) /\ (NewRow(w)' <=> NewRow(w))
    BY <2>1, <2>4, <2>5 DEF Behind, NewRow
  <2>7. \A d : Ahead(d)' <=> Ahead(d)
    BY <2>1 DEF Ahead, NoPositions
  <2>2. \A w : RepairOf(w)' <=> RepairOf(w)
    BY <2>1, <2>3, <2>4, <2>5, <2>6, <2>7 DEF RepairOf, NoPositions
  <2> QED
    BY <2>1, <2>2 DEF SoleInv, Sole, Working
<1> QED
  BY <1>3, <1>4, <1>6, <1>7, <1>8, <1>9, <1>10, StepCases DEF QuoteArrives, Add, Drop, Unswept

(* A rebuild nobody disturbed repairs its days whatever was stored before.  *)
THEOREM RebuildsRepair == Spec => []RebuildRepairs
<1>1. Init => SoleInv
  BY DEF Init, SoleInv, Sole, Working
<1>2. Forms /\ SoleInv /\ [Next]_vars => SoleInv'
  BY SoleStep
<1>3. Forms /\ SoleInv => RebuildRepairs
  <2> SUFFICES ASSUME Forms, SoleInv, NEW a \in Agents,
                      At(a, "prices"), agent[a].sole, NEW d \in agent[a].from..Today
               PROVE  Repaired(a, d)
    BY DEF RebuildRepairs
  <2>1. agent[a].at = "prices" /\ Working(a)
    BY Awake DEF At
  <2>2. PICK v : v = agent[a] /\ WorkOk(v) /\ v.at = "prices"
    BY <2>1 DEF Forms
  <2>3. v.sole = TRUE
    BY <2>2 DEF WorkOk
  <2>4. RepairOf(v)
    BY <2>1, <2>2, <2>3 DEF SoleInv, Sole
  <2>5. d \in Days /\ v.from <= d
    BY <2>2, DayAssumption DEF WorkOk, Days
  <2>6. DayRepaired(v.to, d)
    BY <2>2, <2>4, <2>5 DEF RepairOf
  <2> QED
    BY <2>2, <2>6 DEF DayRepaired, Repaired
<1> QED
  BY <1>1, <1>2, <1>3, FormsHold, PTL DEF Spec
=============================================================================
