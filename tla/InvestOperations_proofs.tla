----------------------- MODULE InvestOperations_proofs -----------------------
(***************************************************************************)
(* For any lines, notes, requests and stops: the legs of a note hang from  *)
(* a header of that note, and a link never leaves the import that wrote    *)
(* it.  With one request at a time, a line is recorded once and whole, and *)
(* a sweep is complete.  The parts of the invariants are operators of the  *)
(* rows they speak about: E is a set of headers, L a set of legs, j what a *)
(* request does.                                                           *)
(***************************************************************************)
EXTENDS InvestOperations, TLAPS

NoteOf(E, event, ref) == \E e \in E : e.id = event /\ e.ref = ref

LegOf(L, id, book, line, event) ==
  \E l \in L : l.id = id /\ l.book = book /\ l.line = line /\ l.event = event

HeadersOk(E) == E \subseteq Header /\ \A e, f \in E : e.id = f.id => e = f

LegsOk(E, L) == L \subseteq Leg /\ \A l \in L : NoteOf(E, l.event, SourceRef[l.line])

Joined(L, k) ==
  \E p, f \in L :
    /\ {k[1], k[2]} = {p.id, f.id}
    /\ p.book = "patrimony" /\ f.book = "financial"
    /\ p.line = f.line /\ p.event = f.event

Finding == {"lookup", "pendingCheck", "event"}
Linking == {"linkPatrimony", "linkFinancial"}
Writing == {"patrimony", "financial"} \cup Linking

(* A request that records a line has chosen a header of the line's note, or *)
(* brings it along from amendEvent, for the lines that follow too.          *)
HeaderOf(E, j) ==
  /\ j.at \in Finding \cup Writing => j.line \in Lines
  /\ j.at \in Finding /\ j.event # NoEvent => NoteOf(E, j.event, SourceRef[j.line])
  /\ j.at \in Writing => j.event \in EventIds /\ NoteOf(E, j.event, SourceRef[j.line])
  /\ \A l \in j.lines :
       IF j.at = "revise" THEN NoteOf(E, j.old, SourceRef[l])
                          ELSE j.event # NoEvent /\ NoteOf(E, j.event, SourceRef[l])

(* The legs it is about to link are those it has just written.              *)
LegsOf(L, j) ==
  /\ j.at \in Finding \cup {"patrimony"} => j.pat = NoLeg
  /\ j.at \in Writing /\ j.pat # NoLeg => LegOf(L, j.pat, "patrimony", j.line, j.event)
  /\ j.at \in Linking => j.pat # NoLeg /\ LegOf(L, j.fin, "financial", j.line, j.event)

JobOk(E, L, j) == j \in Job /\ HeaderOf(E, j) /\ LegsOf(L, j)

IInv ==
  /\ HeadersOk(events)
  /\ LegsOk(events, legs)
  /\ \A k \in links : Joined(legs, k)
  /\ job = [a \in Agents |-> job[a]]
  /\ \A a \in Agents : JobOk(events, legs, job[a])
-----------------------------------------------------------------------------
(* Headers and legs are only ever added, so what a request, a leg or a link *)
(* relies on is still there after a step of another request.                *)
LEMMA NothingLost ==
  ASSUME NEW E, NEW F, NEW L, NEW M, E \subseteq F, L \subseteq M
  PROVE  /\ \A j : JobOk(E, L, j) => JobOk(F, M, j)
         /\ \A k : Joined(L, k) => Joined(M, k)
         /\ \A event, ref : NoteOf(E, event, ref) => NoteOf(F, event, ref)
<1>1. \A event, ref : NoteOf(E, event, ref) => NoteOf(F, event, ref)
  BY DEF NoteOf
<1>2. \A id, book, line, event : LegOf(L, id, book, line, event) => LegOf(M, id, book, line, event)
  BY DEF LegOf
<1>3. ASSUME NEW j, HeaderOf(E, j) PROVE HeaderOf(F, j)
  BY <1>1, <1>3 DEF HeaderOf
<1>4. ASSUME NEW j, LegsOf(L, j) PROVE LegsOf(M, j)
  BY <1>2, <1>4 DEF LegsOf
<1>5. \A k : Joined(L, k) => Joined(M, k)
  BY DEF Joined
<1> QED
  BY <1>1, <1>3, <1>4, <1>5 DEF JobOk

(* A step that gives one request something sound to do, keeps every row and *)
(* adds only sound rows and links, keeps the invariant.                     *)
LEMMA JobStep ==
  ASSUME IInv, NEW a \in Agents, NEW j, Set(a, j),
         events \subseteq events', legs \subseteq legs',
         HeadersOk(events'), LegsOk(events', legs'),
         \A k \in links' : Joined(legs', k),
         JobOk(events', legs', j)
  PROVE  IInv'
<1>1. job' = [b \in Agents |-> IF b = a THEN j ELSE job[b]]
  BY DEF IInv, Set
<1>2. \A b \in Agents : JobOk(events', legs', job[b])
  BY NothingLost DEF IInv
<1>3. \A b \in Agents : JobOk(events', legs', job'[b])
  BY <1>1, <1>2
<1>4. job' = [b \in Agents |-> job'[b]]
  BY <1>1
<1> QED
  BY <1>3, <1>4 DEF IInv

(* Most steps write no row: only what the request does next is to be shown. *)
LEMMA QuietStep ==
  ASSUME IInv, NEW a \in Agents, NEW j, Set(a, j),
         UNCHANGED <<events, legs, links>>, JobOk(events, legs, j)
  PROVE  IInv'
BY JobStep DEF IInv

LEMMA AtRest == ASSUME NEW E, NEW L PROVE JobOk(E, L, Idle)
BY NoEventAssumption, LegAssumption
   DEF JobOk, HeaderOf, LegsOf, Idle, Job, Points, Finding, Writing, Linking

(***************************************************************************)
(* recordOperation                                                         *)
(***************************************************************************)

LEMMA StartImportStep == ASSUME IInv, NEW a \in Agents, StartImport(a) PROVE IInv'
<1>1. PICK l \in Lines : Set(a, [Idle EXCEPT !.at = "lookup", !.line = l])
  BY DEF StartImport, Start
<1> DEFINE j == [Idle EXCEPT !.at = "lookup", !.line = l]
<1>2. j \in Job
  BY DEF Idle, Job, Points
<1>3. HeaderOf(events, j) /\ LegsOf(legs, j)
  BY DEF Idle, HeaderOf, LegsOf, Finding, Writing, Linking
<1>4. UNCHANGED <<events, legs, links>>
  BY DEF StartImport, books, bookVars
<1> QED
  BY <1>1, <1>2, <1>3, <1>4, QuietStep DEF JobOk

LEMMA LookupHitStep == ASSUME IInv, NEW a \in Agents, LookupHit(a) PROVE IInv'
<1> DEFINE j == [job[a] EXCEPT !.at = IF job[a].line \in Deferred THEN "pendingCheck"
                                                     ELSE "returned"]
<1>1. JobOk(events, legs, job[a]) /\ job[a] \in Job
  BY DEF IInv, JobOk
<1>2. j \in Job
  BY <1>1 DEF LookupHit, IsAt, Job, Points
<1>3. HeaderOf(events, j) /\ LegsOf(legs, j)
  BY <1>1 DEF LookupHit, IsAt, Job, JobOk, HeaderOf, LegsOf, Finding, Writing, Linking
<1>4. Set(a, j) /\ UNCHANGED <<events, legs, links>>
  BY DEF LookupHit, books, bookVars
<1> QED
  BY <1>2, <1>3, <1>4, QuietStep DEF JobOk

LEMMA LookupMissStep == ASSUME IInv, NEW a \in Agents, LookupMiss(a) PROVE IInv'
<1> DEFINE j == [job[a] EXCEPT !.at = "event"]
<1>1. JobOk(events, legs, job[a]) /\ job[a] \in Job
  BY DEF IInv, JobOk
<1>2. j \in Job
  BY <1>1 DEF LookupMiss, IsAt, Job, Points
<1>3. HeaderOf(events, j) /\ LegsOf(legs, j)
  BY <1>1 DEF LookupMiss, IsAt, Job, JobOk, HeaderOf, LegsOf, Finding, Writing, Linking
<1>4. Set(a, j) /\ UNCHANGED <<events, legs, links>>
  BY DEF LookupMiss, books, bookVars
<1> QED
  BY <1>2, <1>3, <1>4, QuietStep DEF JobOk

LEMMA CheckPendingStep == ASSUME IInv, NEW a \in Agents, CheckPending(a) PROVE IInv'
<1>1. JobOk(events, legs, job[a]) /\ job[a] \in Job /\ job[a].at = "pendingCheck"
  BY DEF IInv, JobOk, CheckPending, IsAt
<1>2. UNCHANGED <<events, legs, links>>
  BY DEF CheckPending, books, bookVars
<1>3. CASE Set(a, [job[a] EXCEPT !.at = "returned"])
  <2> DEFINE j == [job[a] EXCEPT !.at = "returned"]
  <2>1. j \in Job
    BY <1>1 DEF Job, Points
  <2>2. HeaderOf(events, j) /\ LegsOf(legs, j)
    BY <1>1 DEF Job, JobOk, HeaderOf, LegsOf, Finding, Writing, Linking
  <2> QED
    BY <1>2, <1>3, <2>1, <2>2, QuietStep DEF JobOk
<1>4. CASE Set(a, [job[a] EXCEPT !.at = "event", !.backfill = TRUE])
  <2> DEFINE j == [job[a] EXCEPT !.at = "event", !.backfill = TRUE]
  <2>1. j \in Job
    BY <1>1 DEF Job, Points
  <2>2. HeaderOf(events, j) /\ LegsOf(legs, j)
    BY <1>1 DEF Job, JobOk, HeaderOf, LegsOf, Finding, Writing, Linking
  <2> QED
    BY <1>2, <1>4, <2>1, <2>2, QuietStep DEF JobOk
<1> QED
  BY <1>3, <1>4 DEF CheckPending

(* Whatever header is chosen for the line, the request goes on with it.     *)
LEMMA ChosenHeader ==
  ASSUME NEW E, NEW L, NEW r, JobOk(E, L, r), r.at = "event", NEW id \in EventIds,
         NoteOf(E, id, SourceRef[r.line]),
         r.event = NoEvent \/ r.event = id
  PROVE  JobOk(E, L, [r EXCEPT !.at = AfterEvent(r), !.event = id])
<1> DEFINE at == AfterEvent(r)
<1>1. at \in {"financial", "patrimony"}
  BY DEF AfterEvent
<1>2. r \in Job /\ r.line \in Lines /\ r.pat = NoLeg
  BY DEF JobOk, HeaderOf, LegsOf, Finding
<1>3. \A l \in r.lines : NoteOf(E, id, SourceRef[l])
  BY DEF JobOk, HeaderOf
<1> HIDE DEF at
<1>4. PICK q : q = [r EXCEPT !.at = at, !.event = id]
  OBVIOUS
<1>5. /\ q \in Job /\ q.at = at /\ q.event = id
      /\ q.line = r.line /\ q.lines = r.lines /\ q.pat = r.pat
  BY <1>1, <1>2, <1>4 DEF Job, Points
<1>6. HeaderOf(E, q)
  BY <1>1, <1>2, <1>3, <1>5, NoEventAssumption DEF HeaderOf, Finding, Writing, Linking
<1>7. LegsOf(L, q)
  BY <1>1, <1>2, <1>5 DEF LegsOf, Finding, Writing, Linking
<1> QED
  BY <1>4, <1>5, <1>6, <1>7 DEF JobOk, at

LEMMA ResolveGivenStep == ASSUME IInv, NEW a \in Agents, ResolveGiven(a) PROVE IInv'
<1> DEFINE j == [job[a] EXCEPT !.at = AfterEvent(job[a])]
<1>1. JobOk(events, legs, job[a]) /\ job[a] \in Job /\ job[a].at = "event"
  BY DEF IInv, JobOk, ResolveGiven, IsAt
<1>2. job[a].event \in EventIds /\ NoteOf(events, job[a].event, SourceRef[job[a].line])
  BY <1>1 DEF ResolveGiven, JobOk, HeaderOf, Finding, Job
<1>3. JobOk(events, legs, [job[a] EXCEPT !.at = AfterEvent(job[a]), !.event = job[a].event])
  BY <1>1, <1>2, ChosenHeader
<1>4. j = [job[a] EXCEPT !.at = AfterEvent(job[a]), !.event = job[a].event]
  BY <1>1 DEF Job
<1>5. Set(a, j) /\ UNCHANGED <<events, legs, links>>
  BY DEF ResolveGiven, books, bookVars
<1> QED
  BY <1>3, <1>4, <1>5, QuietStep

LEMMA ResolveFoundStep == ASSUME IInv, NEW a \in Agents, ResolveFound(a) PROVE IInv'
<1>1. PICK e \in events :
        /\ e.ref = SourceRef[job[a].line]
        /\ Tell(e)
        /\ Set(a, [job[a] EXCEPT !.at = AfterEvent(job[a]), !.event = e.id])
  BY DEF ResolveFound
<1>2. JobOk(events, legs, job[a]) /\ job[a].at = "event" /\ job[a].event = NoEvent
  BY DEF IInv, ResolveFound, IsAt
<1>3. e.id \in EventIds /\ NoteOf(events, e.id, SourceRef[job[a].line])
  BY <1>1 DEF IInv, HeadersOk, Header, NoteOf
<1>4. JobOk(events, legs, [job[a] EXCEPT !.at = AfterEvent(job[a]), !.event = e.id])
  BY <1>2, <1>3, ChosenHeader
<1>5. UNCHANGED <<events, legs, links>>
  BY <1>1 DEF ResolveFound, books, Tell
<1> QED
  BY <1>1, <1>4, <1>5, QuietStep

(* A header that is inserted has an id of its own.                          *)
LEMMA NewHeader ==
  ASSUME IInv, NEW h \in Header, Commit(h), UNCHANGED <<legs, links>>
  PROVE  /\ events' = events \cup {h} /\ HeadersOk(events')
         /\ LegsOk(events', legs') /\ \A k \in links' : Joined(legs', k)
         /\ NoteOf(events', h.id, h.ref)
<1>1. events' = events \cup {h} /\ \A e \in events : e.id # h.id
  BY DEF Commit, Insertable, Ids
<1>2. HeadersOk(events')
  BY <1>1 DEF IInv, HeadersOk
<1>3. LegsOk(events', legs')
  BY <1>1, NothingLost DEF IInv, LegsOk
<1>4. NoteOf(events', h.id, h.ref)
  BY <1>1 DEF NoteOf
<1> QED
  BY <1>1, <1>2, <1>3, <1>4 DEF IInv

LEMMA ResolveOpenedStep == ASSUME IInv, NEW a \in Agents, ResolveOpened(a) PROVE IInv'
<1>1. PICK id \in EventIds :
        /\ Open(id, SourceRef[job[a].line])
        /\ Set(a, [job[a] EXCEPT !.at = AfterEvent(job[a]), !.event = id])
  BY DEF ResolveOpened
<1> DEFINE h == [id |-> id, ref |-> SourceRef[job[a].line], rev |-> 1, supersedes |-> NoEvent]
<1>2. JobOk(events, legs, job[a]) /\ job[a].at = "event" /\ job[a].event = NoEvent
  BY DEF IInv, ResolveOpened, IsAt
<1>3. job[a].line \in Lines
  BY <1>2 DEF JobOk, HeaderOf, Finding
<1>4. h \in Header /\ Commit(h) /\ UNCHANGED <<legs, links>>
  BY <1>1, <1>3, LineAssumption DEF Header, Open, ResolveOpened, books
<1>5. /\ events' = events \cup {h} /\ HeadersOk(events')
      /\ LegsOk(events', legs') /\ \A k \in links' : Joined(legs', k)
      /\ NoteOf(events', h.id, h.ref)
  BY <1>4, NewHeader
<1>6. JobOk(events', legs', job[a])
  BY <1>2, <1>4, <1>5, NothingLost
<1>7. JobOk(events', legs', [job[a] EXCEPT !.at = AfterEvent(job[a]), !.event = id])
  BY <1>2, <1>5, <1>6, ChosenHeader
<1>8. events \subseteq events' /\ legs \subseteq legs'
  BY <1>4, <1>5
<1> QED
  BY <1>1, <1>5, <1>7, <1>8, JobStep

(* A leg that is written hangs from the header its request has chosen.      *)
LEMMA NewLeg ==
  ASSUME IInv, NEW j, JobOk(events, legs, j), j.at \in Writing,
         NEW id \in LegIds, NEW book \in {"patrimony", "financial"},
         NEW tag \in {"", "CASH", "PENDING"}, AddLeg(id, book, tag, j)
  PROVE  /\ legs \subseteq legs' /\ events \subseteq events' /\ HeadersOk(events')
         /\ LegsOk(events', legs') /\ \A k \in links' : Joined(legs', k)
         /\ LegOf(legs', id, book, j.line, j.event)
<1> DEFINE m == [id |-> id, book |-> book, tag |-> tag, line |-> j.line, event |-> j.event]
<1>1. legs' = legs \cup {m} /\ events' = events /\ links' = links
  BY DEF AddLeg, bookVars
<1>2. m \in Leg /\ NoteOf(events, m.event, SourceRef[m.line])
  BY DEF JobOk, HeaderOf, Leg, Writing
<1>3. LegsOk(events', legs')
  BY <1>1, <1>2 DEF IInv, LegsOk
<1>4. LegOf(legs', id, book, j.line, j.event)
  <2>1. /\ m.id = id /\ m.book = book /\ m.line = j.line /\ m.event = j.event
        /\ m \in legs'
    BY <1>1
  <2> HIDE DEF m
  <2> QED
    BY <2>1 DEF LegOf
<1>5. \A k \in links' : Joined(legs', k)
  BY <1>1, NothingLost DEF IInv
<1> QED
  BY <1>1, <1>3, <1>4, <1>5 DEF IInv

LEMMA RecordPatrimonyStep == ASSUME IInv, NEW a \in Agents, RecordPatrimony(a) PROVE IInv'
<1>1. PICK id \in LegIds :
        /\ AddLeg(id, "patrimony", "", job[a])
        /\ Set(a, [job[a] EXCEPT !.at = "financial", !.pat = id])
  BY DEF RecordPatrimony
<1> DEFINE r == job[a]
<1>2. JobOk(events, legs, r) /\ r.at = "patrimony" /\ r.at \in Writing
  BY DEF IInv, RecordPatrimony, IsAt, Writing
<1>3. /\ legs \subseteq legs' /\ events \subseteq events' /\ HeadersOk(events')
      /\ LegsOk(events', legs') /\ \A k \in links' : Joined(legs', k)
      /\ LegOf(legs', id, "patrimony", r.line, r.event)
  BY <1>1, <1>2, NewLeg
<1>4. JobOk(events', legs', r)
  BY <1>2, <1>3, NothingLost
<1>5. PICK q : q = [r EXCEPT !.at = "financial", !.pat = id]
  OBVIOUS
<1>6. /\ q \in Job /\ q.at = "financial" /\ q.event = r.event
      /\ q.line = r.line /\ q.lines = r.lines /\ q.pat = id
  BY <1>4, <1>5 DEF JobOk, Job, Points
<1>7. HeaderOf(events', q)
  BY <1>2, <1>4, <1>6 DEF JobOk, HeaderOf, Finding, Writing, Linking
<1>8. LegsOf(legs', q)
  BY <1>3, <1>6 DEF LegsOf, Finding, Writing, Linking
<1> QED
  BY <1>1, <1>3, <1>5, <1>6, <1>7, <1>8, JobStep DEF JobOk

LEMMA RecordFinancialStep == ASSUME IInv, NEW a \in Agents, RecordFinancial(a) PROVE IInv'
<1> DEFINE r == job[a]
           at == IF r.pat = NoLeg THEN "returned" ELSE "linkPatrimony"
<1>1. PICK id \in LegIds :
        /\ AddLeg(id, "financial", FinancialTag(r.line), r)
        /\ Set(a, [r EXCEPT !.at = at, !.fin = id])
  BY DEF RecordFinancial
<1>2. JobOk(events, legs, r) /\ r.at = "financial" /\ r.at \in Writing
  BY DEF IInv, RecordFinancial, IsAt, Writing
<1>3. /\ legs \subseteq legs' /\ events \subseteq events' /\ HeadersOk(events')
      /\ LegsOk(events', legs') /\ \A k \in links' : Joined(legs', k)
      /\ LegOf(legs', id, "financial", r.line, r.event)
  <2>1. FinancialTag(r.line) \in {"", "CASH", "PENDING"}
    BY DEF FinancialTag
  <2> QED
    BY <1>1, <1>2, <2>1, NewLeg
<1>4. JobOk(events', legs', r)
  BY <1>2, <1>3, NothingLost
<1>5. PICK q : q = [r EXCEPT !.at = at, !.fin = id]
  OBVIOUS
<1>6. /\ q \in Job /\ q.at = at /\ q.event = r.event /\ q.fin = id
      /\ q.line = r.line /\ q.lines = r.lines /\ q.pat = r.pat
  <2>1. at \in Points
    BY DEF Points
  <2> HIDE DEF at
  <2> QED
    BY <1>4, <1>5, <2>1 DEF JobOk, Job
<1>7. HeaderOf(events', q)
  BY <1>2, <1>4, <1>6 DEF JobOk, HeaderOf, Finding, Writing, Linking
<1>8. LegsOf(legs', q)
  BY <1>2, <1>3, <1>4, <1>6 DEF JobOk, LegsOf, Finding, Writing, Linking
<1> QED
  BY <1>1, <1>3, <1>5, <1>6, <1>7, <1>8, JobStep DEF JobOk

(* The two legs a request has written make a link, either way round.        *)
LEMMA NewLink ==
  ASSUME NEW E, NEW L, NEW r, JobOk(E, L, r), r.at \in Linking
  PROVE  Joined(L, <<r.pat, r.fin>>) /\ Joined(L, <<r.fin, r.pat>>)
<1>1. /\ LegOf(L, r.pat, "patrimony", r.line, r.event)
      /\ LegOf(L, r.fin, "financial", r.line, r.event)
  BY DEF JobOk, LegsOf, Writing
<1>2. PICK p \in L : p.id = r.pat /\ p.book = "patrimony" /\ p.line = r.line /\ p.event = r.event
  BY <1>1 DEF LegOf
<1>3. PICK f \in L : f.id = r.fin /\ f.book = "financial" /\ f.line = r.line /\ f.event = r.event
  BY <1>1 DEF LegOf
<1>4. {r.pat, r.fin} = {p.id, f.id} /\ {r.fin, r.pat} = {p.id, f.id}
  BY <1>2, <1>3
<1> QED
  BY <1>2, <1>3, <1>4 DEF Joined

LEMMA LinkPatrimonyStep == ASSUME IInv, NEW a \in Agents, LinkPatrimony(a) PROVE IInv'
<1> DEFINE j == [job[a] EXCEPT !.at = "linkFinancial"]
<1>1. JobOk(events, legs, job[a]) /\ job[a] \in Job /\ job[a].at = "linkPatrimony"
  BY DEF IInv, JobOk, LinkPatrimony, IsAt
<1>2. j \in Job
  BY <1>1 DEF Job, Points
<1>3. HeaderOf(events, j) /\ LegsOf(legs, j)
  BY <1>1 DEF Job, JobOk, HeaderOf, LegsOf, Finding, Writing, Linking
<1>4. Set(a, j) /\ UNCHANGED <<events, legs>> /\ links' = links \cup {<<job[a].pat, job[a].fin>>}
  BY DEF LinkPatrimony, bookVars
<1>5. Joined(legs, <<job[a].pat, job[a].fin>>)
  BY <1>1, NewLink DEF Linking
<1>6. \A k \in links' : Joined(legs, k)
  BY <1>4, <1>5 DEF IInv
<1> QED
  BY <1>2, <1>3, <1>4, <1>6, JobStep DEF JobOk, IInv

LEMMA LinkFinancialStep == ASSUME IInv, NEW a \in Agents, LinkFinancial(a) PROVE IInv'
<1> DEFINE j == [job[a] EXCEPT !.at = "returned"]
<1>1. JobOk(events, legs, job[a]) /\ job[a] \in Job /\ job[a].at = "linkFinancial"
  BY DEF IInv, JobOk, LinkFinancial, IsAt
<1>2. j \in Job
  BY <1>1 DEF Job, Points
<1>3. HeaderOf(events, j) /\ LegsOf(legs, j)
  BY <1>1 DEF Job, JobOk, HeaderOf, LegsOf, Finding, Writing, Linking
<1>4. Set(a, j) /\ UNCHANGED <<events, legs>> /\ links' = links \cup {<<job[a].fin, job[a].pat>>}
  BY DEF LinkFinancial, bookVars
<1>5. Joined(legs, <<job[a].fin, job[a].pat>>)
  BY <1>1, NewLink DEF Linking
<1>6. \A k \in links' : Joined(legs, k)
  BY <1>4, <1>5 DEF IInv
<1> QED
  BY <1>2, <1>3, <1>4, <1>6, JobStep DEF JobOk, IInv

LEMMA ReturnStep == ASSUME IInv, NEW a \in Agents, Return(a) PROVE IInv'
<1> DEFINE j == [job[a] EXCEPT !.at = "swept"]
<1>1. JobOk(events, legs, job[a]) /\ job[a] \in Job
  BY DEF IInv, JobOk
<1>2. j \in Job
  BY <1>1 DEF Job, Points
<1>3. HeaderOf(events, j) /\ LegsOf(legs, j)
  BY <1>1 DEF Return, IsAt, Job, JobOk, HeaderOf, LegsOf, Finding, Writing, Linking
<1>4. Set(a, j) \/ Set(a, Idle)
  BY DEF Return
<1>5. UNCHANGED <<events, legs, links>>
  BY DEF Return, books, bookVars
<1> QED
  BY <1>2, <1>3, <1>4, <1>5, QuietStep, AtRest DEF JobOk

(***************************************************************************)
(* voidEvent and amendEvent                                                *)
(***************************************************************************)

LEMMA StartVoidStep == ASSUME IInv, NEW a \in Agents, StartVoid(a) PROVE IInv'
<1>1. PICK e \in events : Set(a, [Idle EXCEPT !.at = "mark", !.op = "void", !.old = e.id])
  BY DEF StartVoid, Start
<1>2. PICK q : q = [Idle EXCEPT !.at = "mark", !.op = "void", !.old = e.id]
  OBVIOUS
<1>3. e.id \in EventIds
  BY DEF IInv, HeadersOk, Header
<1>4. q \in Job /\ q.at = "mark" /\ q.lines = {}
  BY <1>2, <1>3 DEF Idle, Job, Points
<1>5. HeaderOf(events, q) /\ LegsOf(legs, q)
  BY <1>4 DEF HeaderOf, LegsOf, Finding, Writing, Linking
<1>6. UNCHANGED <<events, legs, links>>
  BY DEF StartVoid, books, bookVars
<1> QED
  BY <1>1, <1>2, <1>4, <1>5, <1>6, QuietStep DEF JobOk

LEMMA MarkVoidedStep == ASSUME IInv, NEW a \in Agents, MarkVoided(a) PROVE IInv'
<1> DEFINE j == [job[a] EXCEPT !.at = "list"]
<1>1. JobOk(events, legs, job[a]) /\ job[a] \in Job
  BY DEF IInv, JobOk
<1>2. j \in Job
  BY <1>1 DEF MarkVoided, IsAt, Job, Points
<1>3. HeaderOf(events, j) /\ LegsOf(legs, j)
  BY <1>1 DEF MarkVoided, IsAt, Job, JobOk, HeaderOf, LegsOf, Finding, Writing, Linking
<1>4. Set(a, j) /\ UNCHANGED <<events, legs, links>>
  BY DEF MarkVoided, books, Annul
<1> QED
  BY <1>2, <1>3, <1>4, QuietStep DEF JobOk

LEMMA StartAmendStep == ASSUME IInv, NEW a \in Agents, StartAmend(a) PROVE IInv'
<1>1. PICK e \in events, ls \in SUBSET Lines :
        /\ ls \subseteq NoteLines(e)
        /\ Set(a, [Idle EXCEPT !.at = "revise", !.op = "amend", !.old = e.id, !.lines = ls])
  BY DEF StartAmend, Start
<1>2. PICK q : q = [Idle EXCEPT !.at = "revise", !.op = "amend", !.old = e.id, !.lines = ls]
  OBVIOUS
<1>3. e.id \in EventIds
  BY DEF IInv, HeadersOk, Header
<1>4. q \in Job /\ q.at = "revise" /\ q.lines = ls /\ q.old = e.id
  BY <1>2, <1>3 DEF Idle, Job, Points
<1>5. \A l \in ls : NoteOf(events, e.id, SourceRef[l])
  BY <1>1 DEF NoteLines, NoteOf
<1>6. HeaderOf(events, q) /\ LegsOf(legs, q)
  BY <1>4, <1>5 DEF HeaderOf, LegsOf, Finding, Writing, Linking
<1>7. UNCHANGED <<events, legs, links>>
  BY DEF StartAmend, books, bookVars
<1> QED
  BY <1>1, <1>2, <1>4, <1>6, <1>7, QuietStep DEF JobOk

(* The revision carries on the reference, so the lines the caller handed    *)
(* over find it to be a header of their note as well.                       *)
LEMMA OpenRevisionStep == ASSUME IInv, NEW a \in Agents, OpenRevision(a) PROVE IInv'
<1> DEFINE r == job[a]
<1>1. PICK prev \in events, id \in EventIds :
        /\ prev.id = r.old
        /\ Revise(id, prev)
        /\ Set(a, [r EXCEPT !.at = "list", !.event = id])
  BY DEF OpenRevision
<1> DEFINE h == [id |-> id, ref |-> prev.ref, rev |-> prev.rev + 1, supersedes |-> prev.id]
<1>2. JobOk(events, legs, r) /\ r \in Job /\ r.at = "revise"
  BY DEF IInv, JobOk, OpenRevision, IsAt
<1>3. prev.id \in EventIds /\ prev.ref \in Refs \cup {NoRef} /\ prev.rev \in Nat \ {0}
  BY DEF IInv, HeadersOk, Header
<1>4. h \in Header /\ Commit(h) /\ UNCHANGED <<legs, links>>
  BY <1>1, <1>3 DEF Header, Revise, OpenRevision, books
<1>5. /\ events' = events \cup {h} /\ HeadersOk(events')
      /\ LegsOk(events', legs') /\ \A k \in links' : Joined(legs', k)
      /\ NoteOf(events', h.id, h.ref)
  BY <1>4, NewHeader
<1>6. \A l \in r.lines : SourceRef[l] = prev.ref
  <2>1. \A l \in r.lines : NoteOf(events, r.old, SourceRef[l])
    BY <1>2 DEF JobOk, HeaderOf
  <2> QED
    BY <1>1, <2>1 DEF IInv, HeadersOk, NoteOf
<1>7. \A l \in r.lines : NoteOf(events', id, SourceRef[l])
  BY <1>5, <1>6
<1>8. PICK q : q = [r EXCEPT !.at = "list", !.event = id]
  OBVIOUS
<1>9. q \in Job /\ q.at = "list" /\ q.lines = r.lines /\ q.event = id
  BY <1>2, <1>8 DEF Job, Points
<1>10. HeaderOf(events', q) /\ LegsOf(legs', q)
  BY <1>7, <1>9, NoEventAssumption DEF HeaderOf, LegsOf, Finding, Writing, Linking
<1>11. events \subseteq events' /\ legs \subseteq legs'
  BY <1>4, <1>5
<1> QED
  BY <1>1, <1>5, <1>8, <1>9, <1>10, <1>11, JobStep DEF JobOk

(* The ways a request ends without another row: it has nothing left to do,  *)
(* a colleague has amended the header, a leg is gone already, or it stops.  *)
LEMMA EndStep ==
  ASSUME IInv, NEW a \in Agents,
         RevisionCollides(a) \/ SoftDeleteFails(a) \/ EndOfChange(a) \/ Abort(a)
  PROVE  IInv'
<1>1. Set(a, Idle) /\ UNCHANGED <<events, legs, links>>
  BY DEF RevisionCollides, SoftDeleteFails, EndOfChange, Abort, books, bookVars
<1> QED
  BY <1>1, QuietStep, AtRest

LEMMA ListLegsStep == ASSUME IInv, NEW a \in Agents, ListLegs(a) PROVE IInv'
<1> DEFINE found == {l.id : l \in LiveUnder(job[a].old)}
<1>1. JobOk(events, legs, job[a]) /\ job[a] \in Job /\ job[a].at = "list"
  BY DEF IInv, JobOk, ListLegs, IsAt
<1>2. found \in SUBSET LegIds
  BY DEF IInv, LegsOk, Leg, LiveUnder, Live
<1>3. Set(a, [job[a] EXCEPT !.at = "sweep", !.sweep = found]) /\ UNCHANGED <<events, legs, links>>
  BY DEF ListLegs, books, bookVars
<1> HIDE DEF found
<1>4. PICK q : q = [job[a] EXCEPT !.at = "sweep", !.sweep = found]
  OBVIOUS
<1>5. q \in Job /\ q.at = "sweep" /\ q.lines = job[a].lines /\ q.event = job[a].event
  BY <1>1, <1>2, <1>4 DEF Job, Points
<1>6. HeaderOf(events, q) /\ LegsOf(legs, q)
  BY <1>1, <1>5 DEF JobOk, HeaderOf, LegsOf, Finding, Writing, Linking
<1> QED
  BY <1>3, <1>4, <1>5, <1>6, QuietStep DEF JobOk

LEMMA SoftDeleteStep == ASSUME IInv, NEW a \in Agents, SoftDelete(a) PROVE IInv'
<1>1. PICK l : Set(a, [job[a] EXCEPT !.sweep = @ \ {l.id}])
  BY DEF SoftDelete
<1>2. JobOk(events, legs, job[a]) /\ job[a] \in Job /\ job[a].at = "sweep"
  BY DEF IInv, JobOk, SoftDelete, IsAt
<1>3. PICK q : q = [job[a] EXCEPT !.sweep = @ \ {l.id}]
  OBVIOUS
<1>4. q \in Job /\ q.at = "sweep" /\ q.lines = job[a].lines /\ q.event = job[a].event
  BY <1>2, <1>3 DEF Job
<1>5. HeaderOf(events, q) /\ LegsOf(legs, q)
  BY <1>2, <1>4 DEF JobOk, HeaderOf, LegsOf, Finding, Writing, Linking
<1>6. UNCHANGED <<events, legs, links>>
  BY DEF SoftDelete, bookVars
<1> QED
  BY <1>1, <1>3, <1>4, <1>5, <1>6, QuietStep DEF JobOk

LEMMA SweptStep == ASSUME IInv, NEW a \in Agents, Swept(a) PROVE IInv'
<1> DEFINE j == [job[a] EXCEPT !.at = "swept"]
<1>1. JobOk(events, legs, job[a]) /\ job[a] \in Job
  BY DEF IInv, JobOk
<1>2. j \in Job
  BY <1>1 DEF Swept, IsAt, Job, Points
<1>3. HeaderOf(events, j) /\ LegsOf(legs, j)
  BY <1>1 DEF Swept, IsAt, Job, JobOk, HeaderOf, LegsOf, Finding, Writing, Linking
<1>4. Set(a, j) /\ UNCHANGED <<events, legs, links>>
  BY DEF Swept, books, bookVars
<1> QED
  BY <1>2, <1>3, <1>4, QuietStep DEF JobOk

(* The next line takes the header of the one before: both are of the note.  *)
LEMMA ApplyNextLineStep == ASSUME IInv, NEW a \in Agents, ApplyNextLine(a) PROVE IInv'
<1> DEFINE r == job[a]
<1>1. PICK l \in r.lines :
        Set(a, [r EXCEPT !.at = "lookup", !.line = l, !.lines = @ \ {l},
                         !.backfill = FALSE, !.pat = NoLeg, !.fin = NoLeg])
  BY DEF ApplyNextLine
<1>2. JobOk(events, legs, r) /\ r \in Job /\ r.at = "swept"
  BY DEF IInv, JobOk, ApplyNextLine, IsAt
<1>3. r.event # NoEvent /\ \A m \in r.lines : NoteOf(events, r.event, SourceRef[m])
  BY <1>1, <1>2 DEF JobOk, HeaderOf
<1>4. l \in Lines /\ r.lines \ {l} \in SUBSET Lines
  BY <1>1, <1>2 DEF Job
<1>5. PICK q : q = [r EXCEPT !.at = "lookup", !.line = l, !.lines = @ \ {l},
                             !.backfill = FALSE, !.pat = NoLeg, !.fin = NoLeg]
  OBVIOUS
<1>6. /\ q \in Job /\ q.at = "lookup" /\ q.line = l /\ q.lines = r.lines \ {l}
      /\ q.event = r.event /\ q.pat = NoLeg
  BY <1>2, <1>4, <1>5 DEF Job, Points
<1>7. HeaderOf(events, q)
  BY <1>1, <1>3, <1>4, <1>6 DEF HeaderOf, Finding, Writing, Linking
<1>8. LegsOf(legs, q)
  BY <1>6 DEF LegsOf, Finding, Writing, Linking
<1>9. UNCHANGED <<events, legs, links>>
  BY DEF ApplyNextLine, books, bookVars
<1> QED
  BY <1>1, <1>5, <1>6, <1>7, <1>8, <1>9, QuietStep DEF JobOk
-----------------------------------------------------------------------------
(* The invariant is inductive and gives the two properties of all requests. *)
LEMMA InitOk == Init => IInv
<1>1. ASSUME Init, NEW a \in Agents PROVE JobOk(events, legs, job[a])
  BY <1>1, AtRest DEF Init
<1> QED
  BY <1>1 DEF Init, BookInit, IInv, HeadersOk, LegsOk

LEMMA StutterStep == ASSUME IInv, UNCHANGED vars PROVE IInv'
BY DEF vars, bookVars, IInv

LEMMA NextOk == ASSUME IInv, [Next]_vars PROVE IInv'
<1>1. ASSUME NEW a \in Agents,
             \/ StartImport(a) \/ LookupHit(a) \/ LookupMiss(a) \/ CheckPending(a)
             \/ ResolveGiven(a) \/ ResolveFound(a) \/ ResolveOpened(a)
             \/ RecordPatrimony(a) \/ RecordFinancial(a)
             \/ LinkPatrimony(a) \/ LinkFinancial(a) \/ Return(a)
      PROVE  IInv'
  BY <1>1, StartImportStep, LookupHitStep, LookupMissStep, CheckPendingStep,
     ResolveGivenStep, ResolveFoundStep, ResolveOpenedStep, RecordPatrimonyStep,
     RecordFinancialStep, LinkPatrimonyStep, LinkFinancialStep, ReturnStep
<1>2. ASSUME NEW a \in Agents,
             \/ StartVoid(a) \/ MarkVoided(a)
             \/ StartAmend(a) \/ OpenRevision(a) \/ RevisionCollides(a)
             \/ ListLegs(a) \/ SoftDelete(a) \/ SoftDeleteFails(a) \/ Swept(a)
             \/ ApplyNextLine(a) \/ EndOfChange(a) \/ Abort(a)
      PROVE  IInv'
  BY <1>2, StartVoidStep, MarkVoidedStep, StartAmendStep, OpenRevisionStep, EndStep,
     ListLegsStep, SoftDeleteStep, SweptStep, ApplyNextLineStep
<1> QED
  BY <1>1, <1>2, StutterStep DEF Next, Quiet

LEMMA InvariantHolds == Spec => []IInv
<1>1. Init => IInv
  BY InitOk
<1>2. IInv /\ [Next]_vars => IInv'
  BY NextOk
<1> QED
  BY <1>1, <1>2, PTL DEF Spec

(* resolveOrCreateEvent and amendEvent: a leg of a note hangs from a header *)
(* of that note, in every interleaving of imports, voids and amendments.    *)
THEOREM LegsStayWithTheirNote == Spec => []GatheredUnderNote
<1>1. IInv => GatheredUnderNote
  BY DEF IInv, LegsOk, NoteOf, GatheredUnderNote, Live
<1> QED
  BY <1>1, InvariantHolds, PTL

(* The cross references that recordOperation writes after both legs join    *)
(* two legs of one line under one header, wherever other requests stop.     *)
THEOREM LinksJoinOneImport == Spec => []LinksMatch
<1>1. IInv => LinksMatch
  BY DEF IInv, Joined, LinksMatch
<1> QED
  BY <1>1, InvariantHolds, PTL

(* What the requests leave in the remaining tables: no step writes a row    *)
(* that is not of its table's form, and no more calls stop than may.        *)
Remainder ==
  /\ voided \subseteq EventIds /\ answers \subseteq Answer
  /\ dropped \subseteq LegIds /\ links \subseteq LegIds \X LegIds
  /\ aborts \in 0..MaxAborts

LEMMA LinkedLegs ==
  ASSUME IInv, NEW a \in Agents, job[a].at \in Linking
  PROVE  job[a].pat \in LegIds /\ job[a].fin \in LegIds
<1>1. /\ LegOf(legs, job[a].pat, "patrimony", job[a].line, job[a].event)
      /\ LegOf(legs, job[a].fin, "financial", job[a].line, job[a].event)
  BY DEF IInv, JobOk, LegsOf, Writing
<1> QED
  BY <1>1 DEF IInv, LegsOk, Leg, LegOf

LEMMA RemainderStep == ASSUME IInv, Remainder, [Next]_vars PROVE Remainder'
<1>1. CASE UNCHANGED <<voided, answers, dropped, links, aborts>>
  BY <1>1 DEF Remainder
<1>2. ASSUME NEW a \in Agents, ResolveFound(a) PROVE Remainder'
  <2>1. PICK e \in events : Tell(e)
    BY <1>2 DEF ResolveFound
  <2>2. [ref |-> e.ref, event |-> e.id] \in Answer
    BY <2>1 DEF IInv, HeadersOk, Header, Answer, Tell
  <2> QED
    BY <1>2, <2>1, <2>2 DEF Remainder, ResolveFound, books, Tell
<1>3. ASSUME NEW a \in Agents, MarkVoided(a) PROVE Remainder'
  <2>1. PICK e \in events : Annul(e)
    BY <1>3 DEF MarkVoided
  <2> QED
    BY <1>3, <2>1 DEF IInv, HeadersOk, Header, Remainder, MarkVoided, books, Annul
<1>4. ASSUME NEW a \in Agents, SoftDelete(a) PROVE Remainder'
  <2>1. PICK l \in legs : dropped' = dropped \cup {l.id}
    BY <1>4 DEF SoftDelete, NextToDrop
  <2>2. l.id \in LegIds
    BY DEF IInv, LegsOk, Leg
  <2> QED
    BY <1>4, <2>1, <2>2 DEF Remainder, SoftDelete, bookVars
<1>5. ASSUME NEW a \in Agents, LinkPatrimony(a) PROVE Remainder'
  BY <1>5, LinkedLegs DEF Remainder, LinkPatrimony, IsAt, Linking, bookVars
<1>6. ASSUME NEW a \in Agents, LinkFinancial(a) PROVE Remainder'
  BY <1>6, LinkedLegs DEF Remainder, LinkFinancial, IsAt, Linking, bookVars
<1>7. ASSUME NEW a \in Agents, Abort(a) PROVE Remainder'
  BY <1>7, BoundAssumption DEF Remainder, Abort, books, bookVars
<1>8. ASSUME NEW a \in Agents, ResolveOpened(a) \/ OpenRevision(a) PROVE Remainder'
  BY <1>1, <1>8 DEF ResolveOpened, OpenRevision, Open, Revise, Commit, books
<1>9. ASSUME NEW a \in Agents, RecordPatrimony(a) \/ RecordFinancial(a) PROVE Remainder'
  BY <1>1, <1>9 DEF RecordPatrimony, RecordFinancial, AddLeg, bookVars
<1>10. ASSUME NEW a \in Agents,
              \/ StartImport(a) \/ LookupHit(a) \/ LookupMiss(a) \/ CheckPending(a)
              \/ ResolveGiven(a) \/ Return(a) \/ StartVoid(a) \/ StartAmend(a)
              \/ RevisionCollides(a) \/ ListLegs(a) \/ SoftDeleteFails(a) \/ Swept(a)
              \/ ApplyNextLine(a) \/ EndOfChange(a)
       PROVE  Remainder'
  BY <1>1, <1>10 DEF StartImport, LookupHit, LookupMiss, CheckPending, ResolveGiven,
     Return, StartVoid, StartAmend, RevisionCollides, ListLegs, SoftDeleteFails, Swept,
     ApplyNextLine, EndOfChange, books, bookVars
<1>11. CASE UNCHANGED vars
  BY <1>1, <1>11 DEF vars, bookVars
<1> QED
  BY <1>2, <1>3, <1>4, <1>5, <1>6, <1>7, <1>8, <1>9, <1>10, <1>11 DEF Next, Quiet

(* Whatever the requests do and wherever they stop, the rows they write are *)
(* of their tables' form and what they are doing is one of recordOperation, *)
(* voidEvent and amendEvent's steps.                                        *)
THEOREM TypeCorrect == Spec => []TypeOK
<1>1. Init => Remainder
  BY BoundAssumption DEF Init, BookInit, Remainder
<1>2. IInv /\ Remainder /\ [Next]_vars => Remainder'
  BY RemainderStep
<1>3. IInv /\ Remainder => TypeOK
  <2>1. IInv => job \in [Agents -> Job]
    BY DEF IInv, JobOk
  <2> QED
    BY <2>1 DEF IInv, HeadersOk, LegsOk, Remainder, TypeOK, BookTypeOK
<1> QED
  BY <1>1, <1>2, <1>3, InvariantHolds, PTL DEF Spec
-----------------------------------------------------------------------------
(***************************************************************************)
(* One request at a time.  V are the live legs, n the stops so far, j what *)
(* the request does.                                                       *)
(***************************************************************************)
Alone == \A a, b \in Agents : a = b

Fills(V, line, book, tag) == \E l \in V : l.line = line /\ l.book = book /\ l.tag = tag

(* A leg hasExistingByRef or, as long as nothing has stopped, any leg.      *)
Counts(l, n) == l.tag # "PENDING" \/ n = 0

Single(V, n) ==
  \A l, m \in V : l.line = m.line /\ l.book = m.book /\ l.tag = m.tag /\ Counts(l, n) => l = m

(* Slots, column by column.                                                 *)
Books == {"patrimony", "financial"}
Tags == {"", "CASH", "PENDING"}

IsSlot(line, book, tag) ==
  IF line \in CashOnly THEN book = "financial" /\ tag = ""
  ELSE \/ book = "patrimony" /\ tag = ""
       \/ book = "financial" /\ tag = IF line \in Deferred THEN "PENDING" ELSE "CASH"

Slotted(L) == \A l \in L : IsSlot(l.line, l.book, l.tag)

(* A live leg is dropped by its id, and a new one has an id of its own.     *)
RowsOk(L, D) ==
  /\ \A l, m \in L : l.id = m.id => l = m
  /\ D \subseteq {l.id : l \in L}
  /\ Slotted(L)

(* The other leg of the line is there, under the same header.               *)
Paired(V, l) ==
  \A book \in Books, tag \in Tags : IsSlot(l.line, book, tag) =>
    \E m \in V : m.line = l.line /\ m.event = l.event /\ m.book = book /\ m.tag = tag

Underway(j, l) ==
  \/ j.at = "sweep" /\ l.event = j.old
  \/ j.at = "financial" /\ j.backfill = FALSE /\ l.line = j.line /\ l.event = j.event

Pairs(V, j) == \A l \in V : Paired(V, l) \/ Underway(j, l)

Missing(V, n, line) == \A l \in V : l.line = line => ~Counts(l, n)

(* An earlier import of the deferred trade stopped before its pending leg.  *)
Healing(V, line) ==
  /\ line \in Deferred
  /\ Fills(V, line, "patrimony", "")
  /\ ~Fills(V, line, "financial", "PENDING")

FilledIn(V, line) ==
  \A book \in Books, tag \in Tags : IsSlot(line, book, tag) => Fills(V, line, book, tag)

Recording == Finding \cup Writing \cup {"returned", "swept"}

(* What the look-ups have told the request is still so when it writes.      *)
Told(V, n, j) ==
  /\ j.at = "lookup" => j.backfill = FALSE
  /\ j.at = "pendingCheck" => j.line \in Deferred /\ Fills(V, j.line, "patrimony", "")
  /\ j.at \in {"event", "financial"} /\ j.backfill = TRUE => Healing(V, j.line)
  /\ j.at = "event" /\ j.backfill = FALSE => Missing(V, n, j.line)
  /\ j.at = "patrimony" => j.line \notin CashOnly /\ Missing(V, n, j.line) /\ j.backfill = FALSE
  /\ j.at = "financial" /\ j.backfill = FALSE =>
       IF j.line \in CashOnly
       THEN Missing(V, n, j.line)
       ELSE /\ \E l \in V : l.line = j.line /\ l.book = "patrimony" /\ l.tag = "" /\ l.event = j.event
            /\ \A l \in V : l.line = j.line /\ l.book = "financial" => ~Counts(l, n)
  /\ j.at \in Linking => FilledIn(V, j.line)
  /\ j.at = "returned" /\ (j.line \in Deferred \cup CashOnly \/ n = 0) => FilledIn(V, j.line)

(* What is swept are the live legs of the old header, and none comes back.  *)
Cleared(V, j) ==
  /\ j.at = "sweep" => j.sweep = {l.id : l \in {m \in V : m.event = j.old}}
  /\ j.at \in Recording => \A l \in V : l.event # j.old
  /\ j.event = NoEvent \/ j.event # j.old
  /\ j.at \in Finding /\ j.event = NoEvent => j.old = NoEvent

AloneOk(V, n, j) == (n = 0 => Pairs(V, j)) /\ Told(V, n, j) /\ Cleared(V, j)

AloneInv ==
  /\ RowsOk(legs, dropped)
  /\ Single(Live, aborts)
  /\ \A a \in Agents : AloneOk(Live, aborts, job[a])

LEMMA AloneStep ==
  ASSUME Alone, IInv, NEW a \in Agents, NEW j, Set(a, j),
         RowsOk(legs', dropped'), Single(Live', aborts'), AloneOk(Live', aborts', j)
  PROVE  AloneInv'
<1>1. job' = [b \in Agents |-> IF b = a THEN j ELSE job[b]]
  BY DEF IInv, Set
<1>2. \A b \in Agents : b = a
  BY DEF Alone
<1>3. \A b \in Agents : AloneOk(Live', aborts', job'[b])
  BY <1>1, <1>2
<1> QED
  BY <1>3 DEF AloneInv

LEMMA SameBooks ==
  ASSUME Alone, IInv, AloneInv, NEW a \in Agents, NEW j, Set(a, j),
         UNCHANGED <<legs, dropped, aborts>>, AloneOk(Live, aborts, j)
  PROVE  AloneInv'
<1>1. Live' = Live
  BY DEF Live
<1> QED
  BY <1>1, AloneStep DEF AloneInv

(* The queries of the code in terms of the live legs.                       *)
LEMMA FilledSlots ==
  ASSUME NEW line
  PROVE  /\ \A book, tag : <<book, tag>> \in Filled(line) <=> Fills(Live, line, book, tag)
         /\ Complete(line) <=> FilledIn(Live, line)
<1>1. \A book, tag : <<book, tag>> \in Filled(line) <=> Fills(Live, line, book, tag)
  BY DEF Filled, Fills
<1>2. /\ \A book \in Books, tag \in Tags : <<book, tag>> \in Slots(line) <=> IsSlot(line, book, tag)
      /\ \A s \in Slots(line) : \E book \in Books, tag \in Tags : s = <<book, tag>>
  <2>1. CASE line \in CashOnly
    <3>1. Slots(line) = {<<"financial", "">>}
      BY <2>1, LineAssumption DEF Slots
    <3>2. \A book, tag : IsSlot(line, book, tag) <=>
            <<book, tag>> = <<"financial", "">>
      BY <2>1 DEF IsSlot
    <3> QED
      BY <3>1, <3>2 DEF Books, Tags
  <2>2. CASE line \notin CashOnly /\ line \in Deferred
    <3>1. Slots(line) = {<<"patrimony", "">>, <<"financial", "PENDING">>}
      BY <2>2 DEF Slots
    <3>2. \A book, tag : IsSlot(line, book, tag) <=>
            <<book, tag>> = <<"patrimony", "">> \/ <<book, tag>> = <<"financial", "PENDING">>
      BY <2>2 DEF IsSlot
    <3> QED
      BY <3>1, <3>2 DEF Books, Tags
  <2>3. CASE line \notin CashOnly /\ line \notin Deferred
    <3>1. Slots(line) = {<<"patrimony", "">>, <<"financial", "CASH">>}
      BY <2>3 DEF Slots
    <3>2. \A book, tag : IsSlot(line, book, tag) <=>
            <<book, tag>> = <<"patrimony", "">> \/ <<book, tag>> = <<"financial", "CASH">>
      BY <2>3 DEF IsSlot
    <3> QED
      BY <3>1, <3>2 DEF Books, Tags
  <2> QED
    BY <2>1, <2>2, <2>3
<1>3. Complete(line) => FilledIn(Live, line)
  BY <1>1, <1>2 DEF Complete, FilledIn
<1>4. FilledIn(Live, line) => Complete(line)
  BY <1>1, <1>2 DEF Complete, FilledIn
<1> QED
  BY <1>1, <1>3, <1>4

LEMMA KnownLines ==
  ASSUME NEW line, Slotted(Live)
  PROVE  Known(line) <=> \E l \in Live : l.line = line /\ l.tag # "PENDING"
<1>1. ASSUME NEW l \in Live, l.line = line, l.tag # "PENDING" PROVE Known(line)
  <2>1. <<l.book, l.tag>> \in {<<"patrimony", "">>, <<"financial", "">>, <<"financial", "CASH">>}
    BY <1>1 DEF Slotted, IsSlot
  <2>2. <<l.book, l.tag>> \in Filled(line)
    BY <1>1 DEF Filled
  <2> QED
    BY <2>1, <2>2 DEF Known
<1>2. ASSUME Known(line) PROVE \E l \in Live : l.line = line /\ l.tag # "PENDING"
  <2>1. \/ Fills(Live, line, "patrimony", "") \/ Fills(Live, line, "financial", "")
        \/ Fills(Live, line, "financial", "CASH")
    BY <1>2, FilledSlots DEF Known
  <2> QED
    BY <2>1 DEF Fills
<1> QED
  BY <1>1, <1>2

LEMMA LiveSlotted == ASSUME RowsOk(legs, dropped) PROVE Slotted(Live)
BY DEF RowsOk, Slotted, Live

(* A known line of a kind is filled as far as recordOperation relies on it. *)
LEMMA KnownFills ==
  ASSUME NEW line \in Lines, Slotted(Live), Known(line)
  PROVE  /\ line \in Deferred => Fills(Live, line, "patrimony", "")
         /\ line \in CashOnly => FilledIn(Live, line)
         /\ (\A l \in Live : Paired(Live, l)) => FilledIn(Live, line)
<1>1. PICK l \in Live : l.line = line /\ l.tag # "PENDING"
  BY KnownLines
<1>2. IsSlot(line, l.book, l.tag)
  BY <1>1 DEF Slotted
<1>3. line \in Deferred => Fills(Live, line, "patrimony", "")
  BY <1>1, <1>2, LineAssumption DEF IsSlot, Fills
<1>4. line \in CashOnly => FilledIn(Live, line)
  BY <1>1, <1>2 DEF IsSlot, Fills, FilledIn
<1>5. ASSUME Paired(Live, l) PROVE FilledIn(Live, line)
  BY <1>1, <1>5 DEF Paired, FilledIn, Fills
<1> QED
  BY <1>1, <1>3, <1>4, <1>5

LEMMA AllPaired ==
  ASSUME AloneInv, NEW a \in Agents, aborts = 0, job[a].at \notin {"sweep", "financial"}
  PROVE  \A l \in Live : Paired(Live, l)
BY DEF AloneInv, AloneOk, Pairs, Underway

(* A request that goes on to a point where nothing is half-done.            *)
LEMMA PairsStay ==
  ASSUME AloneInv, NEW a \in Agents, job[a].at \notin {"sweep", "financial"}, NEW q
  PROVE  aborts = 0 => Pairs(Live, q)
BY AllPaired DEF Pairs

LEMMA StartImportAlone ==
  ASSUME Alone, IInv, AloneInv, NEW a \in Agents, StartImport(a) PROVE AloneInv'
<1>1. PICK l \in Lines : Start(a, [Idle EXCEPT !.at = "lookup", !.line = l])
  BY DEF StartImport
<1>2. PICK q : q = [Idle EXCEPT !.at = "lookup", !.line = l]
  OBVIOUS
<1>3. q.at = "lookup" /\ q.backfill = FALSE /\ q.event = NoEvent /\ q.old = NoEvent
  BY <1>2 DEF Idle
<1>4. job[a].at = "idle" /\ Set(a, q)
  BY <1>1, <1>2 DEF Start, IsAt
<1>5. \A m \in Live : m.event # NoEvent
  BY NoEventAssumption DEF IInv, LegsOk, Leg, Live
<1>6. Told(Live, aborts, q) /\ Cleared(Live, q)
  BY <1>3, <1>5 DEF Told, Cleared, Linking
<1>7. aborts = 0 => Pairs(Live, q)
  BY <1>4, PairsStay
<1>8. UNCHANGED <<legs, dropped, aborts>>
  BY DEF StartImport, books
<1> QED
  BY <1>4, <1>6, <1>7, <1>8, SameBooks DEF AloneOk

LEMMA LookupHitAlone ==
  ASSUME Alone, IInv, AloneInv, NEW a \in Agents, LookupHit(a) PROVE AloneInv'
<1> DEFINE r == job[a]
           at == IF r.line \in Deferred THEN "pendingCheck" ELSE "returned"
<1>1. r \in Job /\ r.at = "lookup" /\ r.line \in Lines /\ Known(r.line)
  BY DEF IInv, JobOk, HeaderOf, Finding, LookupHit, IsAt
<1>2. PICK q : q = [r EXCEPT !.at = at]
  OBVIOUS
<1>3. /\ q.at = at /\ q.line = r.line /\ q.event = r.event /\ q.old = r.old
      /\ q.backfill = r.backfill
  BY <1>1, <1>2 DEF Job
<1>4. /\ r.line \in Deferred => Fills(Live, r.line, "patrimony", "")
      /\ r.line \in CashOnly => FilledIn(Live, r.line)
      /\ aborts = 0 => FilledIn(Live, r.line)
  BY <1>1, KnownFills, LiveSlotted, AllPaired DEF AloneInv
<1>5. Told(Live, aborts, q)
  BY <1>3, <1>4 DEF Told, Linking
<1>6. Cleared(Live, r)
  BY DEF AloneInv, AloneOk
<1>7. Cleared(Live, q)
  BY <1>1, <1>3, <1>6 DEF Cleared, Recording, Finding
<1>8. aborts = 0 => Pairs(Live, q)
  BY <1>1, PairsStay
<1>9. Set(a, q) /\ UNCHANGED <<legs, dropped, aborts>>
  BY <1>2 DEF LookupHit, books
<1> QED
  BY <1>5, <1>7, <1>8, <1>9, SameBooks DEF AloneOk

LEMMA LookupMissAlone ==
  ASSUME Alone, IInv, AloneInv, NEW a \in Agents, LookupMiss(a) PROVE AloneInv'
<1> DEFINE r == job[a]
<1>1. r \in Job /\ r.at = "lookup" /\ r.line \in Lines /\ ~Known(r.line)
  BY DEF IInv, JobOk, HeaderOf, Finding, LookupMiss, IsAt
<1>2. PICK q : q = [r EXCEPT !.at = "event"]
  OBVIOUS
<1>3. /\ q.at = "event" /\ q.line = r.line /\ q.event = r.event /\ q.old = r.old
      /\ q.backfill = r.backfill
  BY <1>1, <1>2 DEF Job
<1>4. Told(Live, aborts, r) /\ Cleared(Live, r) /\ Slotted(Live)
  BY LiveSlotted DEF AloneInv, AloneOk
<1>5. \A l \in Live : l.line = r.line => l.tag = "PENDING"
  BY <1>1, <1>4, KnownLines
<1>6. ASSUME aborts = 0, NEW l \in Live, l.line = r.line PROVE FALSE
  <2>1. Paired(Live, l)
    BY <1>1, <1>6, AllPaired
  <2>2. IsSlot(r.line, l.book, l.tag)
    BY <1>4, <1>6 DEF Slotted
  <2>3. IsSlot(r.line, "patrimony", "")
    BY <1>5, <1>6, <2>2 DEF IsSlot
  <2>4. \E m \in Live : m.line = r.line /\ m.tag = ""
    BY <1>6, <2>1, <2>3 DEF Paired, Books, Tags
  <2> QED
    BY <1>5, <2>4
<1>7. Missing(Live, aborts, r.line)
  BY <1>5, <1>6 DEF Missing, Counts
<1>8. Told(Live, aborts, q)
  BY <1>1, <1>3, <1>4, <1>7 DEF Told, Linking
<1>9. Cleared(Live, q)
  BY <1>1, <1>3, <1>4 DEF Cleared, Recording, Finding
<1>10. aborts = 0 => Pairs(Live, q)
  BY <1>1, PairsStay
<1>11. Set(a, q) /\ UNCHANGED <<legs, dropped, aborts>>
  BY <1>2 DEF LookupMiss, books
<1> QED
  BY <1>8, <1>9, <1>10, <1>11, SameBooks DEF AloneOk

LEMMA CheckPendingAlone ==
  ASSUME Alone, IInv, AloneInv, NEW a \in Agents, CheckPending(a) PROVE AloneInv'
<1> DEFINE r == job[a]
<1>1. r \in Job /\ r.at = "pendingCheck"
  BY DEF IInv, JobOk, CheckPending, IsAt
<1>2. Told(Live, aborts, r) /\ Cleared(Live, r)
  BY DEF AloneInv, AloneOk
<1>3. r.line \in Deferred /\ r.line \notin CashOnly /\ Fills(Live, r.line, "patrimony", "")
  BY <1>1, <1>2, LineAssumption DEF Told
<1>4. \A book, tag : IsSlot(r.line, book, tag) =>
        (book = "patrimony" /\ tag = "") \/ (book = "financial" /\ tag = "PENDING")
  BY <1>3 DEF IsSlot
<1>5. UNCHANGED <<legs, dropped, aborts>>
  BY DEF CheckPending, books
<1>6. CASE Fills(Live, r.line, "financial", "PENDING")
  <2>1. FilledIn(Live, r.line)
    BY <1>3, <1>4, <1>6 DEF FilledIn
  <2>2. PICK q : q = [r EXCEPT !.at = "returned"]
    OBVIOUS
  <2>3. /\ q.at = "returned" /\ q.line = r.line /\ q.event = r.event /\ q.old = r.old
    BY <1>1, <2>2 DEF Job
  <2>4. Told(Live, aborts, q) /\ Cleared(Live, q)
    BY <1>1, <1>2, <2>1, <2>3 DEF Told, Linking, Cleared, Recording, Finding
  <2>5. aborts = 0 => Pairs(Live, q)
    BY <1>1, PairsStay
  <2>6. Set(a, q)
    BY <1>6, <2>2, FilledSlots DEF CheckPending
  <2> QED
    BY <1>5, <2>4, <2>5, <2>6, SameBooks DEF AloneOk
<1>7. CASE ~Fills(Live, r.line, "financial", "PENDING")
  <2>1. Healing(Live, r.line)
    BY <1>3, <1>7 DEF Healing
  <2>2. PICK q : q = [r EXCEPT !.at = "event", !.backfill = TRUE]
    OBVIOUS
  <2>3. /\ q.at = "event" /\ q.line = r.line /\ q.event = r.event /\ q.old = r.old
        /\ q.backfill = TRUE
    BY <1>1, <2>2 DEF Job
  <2>4. Told(Live, aborts, q) /\ Cleared(Live, q)
    BY <1>1, <1>2, <2>1, <2>3 DEF Told, Linking, Cleared, Recording, Finding
  <2>5. aborts = 0 => Pairs(Live, q)
    BY <1>1, PairsStay
  <2>6. Set(a, q)
    BY <1>7, <2>2, FilledSlots DEF CheckPending
  <2> QED
    BY <1>5, <2>4, <2>5, <2>6, SameBooks DEF AloneOk
<1> QED
  BY <1>6, <1>7

(* Whatever header is chosen, the row is still to be written as told.       *)
LEMMA HeaderChosenAlone ==
  ASSUME Alone, IInv, AloneInv, NEW a \in Agents, job[a].at = "event", NEW event,
         event = job[a].event \/ (job[a].event = NoEvent /\ event \in EventIds),
         Set(a, [job[a] EXCEPT !.at = AfterEvent(job[a]), !.event = event]),
         UNCHANGED <<legs, dropped, aborts>>
  PROVE  AloneInv'
<1> DEFINE r == job[a]
           at == AfterEvent(r)
<1>1. r \in Job /\ r.at = "event"
  BY DEF IInv, JobOk
<1>2. r.backfill \in BOOLEAN
  BY <1>1 DEF Job
<1>3. PICK q : q = [r EXCEPT !.at = at, !.event = event]
  OBVIOUS
<1>4. /\ q.at = at /\ q.line = r.line /\ q.event = event /\ q.old = r.old
      /\ q.backfill = r.backfill
  BY <1>1, <1>3 DEF Job
<1>5. Told(Live, aborts, r) /\ Cleared(Live, r)
  BY DEF AloneInv, AloneOk
<1>6. aborts = 0 => \A l \in Live : Paired(Live, l)
  BY <1>1, AllPaired
<1>7. Told(Live, aborts, q)
  <2>1. CASE r.backfill = TRUE
    BY <1>1, <1>4, <1>5, <2>1 DEF AfterEvent, Told, Linking
  <2>2. CASE r.backfill = FALSE
    <3>1. Missing(Live, aborts, r.line)
      BY <1>1, <1>5, <2>2 DEF Told
    <3>2. CASE r.line \in CashOnly
      BY <1>4, <2>2, <3>1, <3>2 DEF AfterEvent, Told, Linking
    <3>3. CASE r.line \notin CashOnly
      BY <1>4, <2>2, <3>1, <3>3 DEF AfterEvent, Told, Linking
    <3> QED
      BY <3>2, <3>3
  <2> QED
    BY <1>2, <2>1, <2>2
<1>8. Cleared(Live, q)
  <2>1. at \in {"financial", "patrimony"}
    BY DEF AfterEvent
  <2>2. event = NoEvent \/ event # r.old
    BY <1>1, <1>5, NoEventAssumption DEF Cleared, Finding
  <2> QED
    BY <1>1, <1>4, <1>5, <2>1, <2>2 DEF Cleared, Recording, Finding, Writing
<1>9. aborts = 0 => Pairs(Live, q)
  BY <1>6 DEF Pairs
<1> QED
  BY <1>3, <1>7, <1>8, <1>9, SameBooks DEF AloneOk

LEMMA ResolveAlone ==
  ASSUME Alone, IInv, AloneInv, NEW a \in Agents,
         ResolveGiven(a) \/ ResolveFound(a) \/ ResolveOpened(a)
  PROVE  AloneInv'
<1> DEFINE r == job[a]
<1>1. r \in Job /\ r.at = "event"
  BY DEF IInv, JobOk, ResolveGiven, ResolveFound, ResolveOpened, IsAt
<1>2. UNCHANGED <<legs, dropped, aborts>>
  BY DEF ResolveGiven, ResolveFound, ResolveOpened, books
<1>3. CASE ResolveGiven(a)
  <2>1. [r EXCEPT !.at = AfterEvent(r)] = [r EXCEPT !.at = AfterEvent(r), !.event = r.event]
    BY <1>1 DEF Job
  <2> QED
    BY <1>1, <1>2, <1>3, <2>1, HeaderChosenAlone DEF ResolveGiven
<1>4. CASE ResolveFound(a)
  <2>1. PICK e \in events : Set(a, [r EXCEPT !.at = AfterEvent(r), !.event = e.id])
    BY <1>4 DEF ResolveFound
  <2>2. e.id \in EventIds
    BY DEF IInv, HeadersOk, Header
  <2> QED
    BY <1>1, <1>2, <1>4, <2>1, <2>2, HeaderChosenAlone DEF ResolveFound
<1>5. CASE ResolveOpened(a)
  <2>1. PICK id \in EventIds : Set(a, [r EXCEPT !.at = AfterEvent(r), !.event = id])
    BY <1>5 DEF ResolveOpened
  <2> QED
    BY <1>1, <1>2, <1>5, <2>1, HeaderChosenAlone DEF ResolveOpened
<1> QED
  BY <1>3, <1>4, <1>5

(* A leg that is written joins the live ones.                               *)
LEMMA NewLiveLeg ==
  ASSUME AloneInv, NEW j, NEW id, NEW book, NEW tag, AddLeg(id, book, tag, j),
         IsSlot(j.line, book, tag), NEW m,
         m = [id |-> id, book |-> book, tag |-> tag, line |-> j.line, event |-> j.event]
  PROVE  RowsOk(legs', dropped') /\ Live' = Live \cup {m}
<1>1. legs' = legs \cup {m} /\ dropped' = dropped /\ \A l \in legs : l.id # m.id
  BY DEF AddLeg
<1>2. m.id \notin dropped
  BY <1>1 DEF AloneInv, RowsOk
<1>3. IsSlot(m.line, m.book, m.tag)
  OBVIOUS
<1>4. RowsOk(legs', dropped')
  BY <1>1, <1>3 DEF AloneInv, RowsOk, Slotted
<1>5. Live' = Live \cup {m}
  BY <1>1, <1>2 DEF Live
<1> QED
  BY <1>4, <1>5

LEMMA RecordPatrimonyAlone ==
  ASSUME Alone, IInv, AloneInv, NEW a \in Agents, RecordPatrimony(a) PROVE AloneInv'
<1> DEFINE r == job[a]
<1>1. r \in Job /\ r.at = "patrimony"
  BY DEF IInv, JobOk, RecordPatrimony, IsAt
<1>2. PICK id \in LegIds :
        /\ AddLeg(id, "patrimony", "", r)
        /\ Set(a, [r EXCEPT !.at = "financial", !.pat = id])
  BY DEF RecordPatrimony
<1>3. PICK m : m = [id |-> id, book |-> "patrimony", tag |-> "", line |-> r.line, event |-> r.event]
  OBVIOUS
<1>4. PICK q : q = [r EXCEPT !.at = "financial", !.pat = id]
  OBVIOUS
<1>5. /\ q.at = "financial" /\ q.line = r.line /\ q.event = r.event /\ q.old = r.old
      /\ q.backfill = r.backfill
  BY <1>1, <1>4 DEF Job
<1>6. m.book = "patrimony" /\ m.tag = "" /\ m.line = r.line /\ m.event = r.event
  BY <1>3
<1>7. Told(Live, aborts, r) /\ Cleared(Live, r)
  BY DEF AloneInv, AloneOk
<1>8. r.line \notin CashOnly /\ Missing(Live, aborts, r.line) /\ r.backfill = FALSE
  BY <1>1, <1>7 DEF Told
<1>9. RowsOk(legs', dropped') /\ Live' = Live \cup {m}
  BY <1>2, <1>3, <1>8, NewLiveLeg DEF IsSlot
<1>10. aborts' = aborts
  BY <1>2 DEF AddLeg
<1>11. \A l \in Live : l.line = r.line => ~Counts(l, aborts)
  BY <1>8 DEF Missing
<1>12. Single(Live', aborts')
  <2>1. Single(Live, aborts) /\ Counts(m, aborts)
    BY <1>6 DEF AloneInv, Counts
  <2>2. \A l \in Live : l.line = m.line => l.tag = "PENDING"
    BY <1>6, <1>11 DEF Counts
  <2> QED
    BY <1>6, <1>9, <1>10, <1>11, <2>1, <2>2 DEF Single
<1>13. Told(Live', aborts', q)
  BY <1>5, <1>6, <1>8, <1>9, <1>10, <1>11 DEF Told, Linking
<1>14. Cleared(Live', q)
  <2>1. r.event \in EventIds
    BY <1>1 DEF IInv, JobOk, HeaderOf, Writing
  <2>2. m.event # r.old
    BY <1>6, <1>7, <2>1, NoEventAssumption DEF Cleared
  <2> QED
    BY <1>1, <1>5, <1>7, <1>9, <2>2 DEF Cleared, Recording, Finding, Writing
<1>15. aborts' = 0 => Pairs(Live', q)
  <2>1. \A l \in Live : Paired(Live, l) => Paired(Live', l)
    BY <1>9 DEF Paired
  <2>2. aborts = 0 => \A l \in Live : Paired(Live, l)
    BY <1>1, AllPaired
  <2> QED
    BY <1>5, <1>6, <1>8, <1>9, <1>10, <2>1, <2>2 DEF Pairs, Underway
<1> QED
  BY <1>2, <1>4, <1>9, <1>12, <1>13, <1>14, <1>15, AloneStep DEF AloneOk

LEMMA RecordFinancialAlone ==
  ASSUME Alone, IInv, AloneInv, NEW a \in Agents, RecordFinancial(a) PROVE AloneInv'
<1> DEFINE r == job[a]
           at == IF r.pat = NoLeg THEN "returned" ELSE "linkPatrimony"
           tag == FinancialTag(r.line)
<1>1. r \in Job /\ r.at = "financial" /\ r.backfill \in BOOLEAN
  <2>1. r \in Job /\ r.at = "financial"
    BY DEF IInv, JobOk, RecordFinancial, IsAt
  <2> QED
    BY <2>1 DEF Job
<1>2. PICK id \in LegIds : AddLeg(id, "financial", tag, r) /\ Set(a, [r EXCEPT !.at = at, !.fin = id])
  BY DEF RecordFinancial
<1>3. PICK m : m = [id |-> id, book |-> "financial", tag |-> tag, line |-> r.line, event |-> r.event]
  OBVIOUS
<1>4. PICK q : q = [r EXCEPT !.at = at, !.fin = id]
  OBVIOUS
<1>5. q.at = at /\ q.line = r.line /\ q.event = r.event /\ q.old = r.old
  BY <1>1, <1>4 DEF Job
<1>6. m.book = "financial" /\ m.tag = tag /\ m.line = r.line /\ m.event = r.event
  BY <1>3
<1>7. Told(Live, aborts, r) /\ Cleared(Live, r)
  BY DEF AloneInv, AloneOk
<1>8. IsSlot(r.line, "financial", tag) /\ (r.line \in Deferred => tag = "PENDING")
  BY LineAssumption DEF IsSlot, FinancialTag
<1>9. RowsOk(legs', dropped') /\ Live' = Live \cup {m}
  BY <1>2, <1>3, <1>8, NewLiveLeg
<1>10. aborts' = aborts
  BY <1>2 DEF AddLeg
<1>11. Slotted(Live)
  BY LiveSlotted DEF AloneInv
(* Nobody has filled the slot, and the custody leg is there.                *)
<1>12. \A l \in Live : l.line = r.line /\ l.book = "financial" /\ l.tag = tag => ~Counts(l, aborts)
  <2>1. CASE r.backfill = TRUE
    BY <1>1, <1>7, <1>8, <2>1 DEF Told, Healing, Fills
  <2>2. CASE r.backfill = FALSE
    BY <1>1, <1>7, <2>2 DEF Told, Missing
  <2> QED
    BY <1>1, <2>1, <2>2
<1>13. r.line \notin CashOnly => \E l \in Live : l.line = r.line /\ l.book = "patrimony" /\ l.tag = ""
  BY <1>1, <1>7 DEF Told, Healing, Fills
<1>14. FilledIn(Live', r.line)
  BY <1>6, <1>8, <1>9, <1>13 DEF FilledIn, IsSlot, Fills, FinancialTag
<1>15. Single(Live', aborts')
  <2>1. Single(Live, aborts)
    BY DEF AloneInv
  <2>2. \A l \in Live : l.line = m.line /\ l.book = m.book /\ l.tag = m.tag =>
          ~Counts(l, aborts) /\ ~Counts(m, aborts)
    BY <1>6, <1>12 DEF Counts
  <2> QED
    BY <1>9, <1>10, <2>1, <2>2 DEF Single
<1>16. Told(Live', aborts', q)
  BY <1>5, <1>14 DEF Told
<1>17. Cleared(Live', q)
  <2>1. r.event \in EventIds
    BY <1>1 DEF IInv, JobOk, HeaderOf, Writing
  <2>2. m.event # r.old
    BY <1>6, <1>7, <2>1, NoEventAssumption DEF Cleared
  <2> QED
    BY <1>1, <1>5, <1>7, <1>9, <2>2 DEF Cleared, Recording, Finding, Writing
<1>18. ASSUME aborts' = 0 PROVE Pairs(Live', q)
  <2>1. Pairs(Live, r)
    BY <1>10, <1>18 DEF AloneInv, AloneOk
  <2>2. \A l \in Live : Paired(Live, l) => Paired(Live', l)
    BY <1>9 DEF Paired
  <2>3. r.backfill = FALSE
    <3>1. SUFFICES ASSUME r.backfill = TRUE PROVE FALSE
      BY <1>1
    <3>2. Healing(Live, r.line)
      BY <1>1, <1>7, <3>1 DEF Told
    <3>3. PICK l \in Live : l.line = r.line
      BY <3>2 DEF Healing, Fills
    <3>4. Paired(Live, l)
      BY <1>1, <2>1, <3>1 DEF Pairs, Underway
    <3>5. IsSlot(r.line, "financial", "PENDING")
      BY <3>2, LineAssumption DEF Healing, IsSlot
    <3> QED
      BY <3>2, <3>3, <3>4, <3>5 DEF Paired, Healing, Fills, Books, Tags
  <2>4. ASSUME NEW l \in Live', l.line = r.line, l.event = r.event PROVE Paired(Live', l)
    <3>1. \E p \in Live' : r.line \notin CashOnly =>
            p.line = r.line /\ p.event = r.event /\ p.book = "patrimony" /\ p.tag = ""
      BY <1>1, <1>7, <1>9, <2>3 DEF Told
    <3>2. m \in Live'
      BY <1>9
    <3>3. \A book, t : IsSlot(r.line, book, t) =>
            (book = "financial" /\ t = tag) \/ (r.line \notin CashOnly /\ book = "patrimony" /\ t = "")
      BY DEF IsSlot, FinancialTag
    <3> QED
      BY <1>6, <2>4, <3>1, <3>2, <3>3 DEF Paired
  <2>5. ASSUME NEW l \in Live, ~(l.line = r.line /\ l.event = r.event) PROVE Paired(Live', l)
    BY <1>1, <2>1, <2>2, <2>5 DEF Pairs, Underway
  <2> QED
    BY <1>6, <1>9, <2>4, <2>5 DEF Pairs
<1> QED
  BY <1>2, <1>4, <1>9, <1>15, <1>16, <1>17, <1>18, AloneStep DEF AloneOk

(* The links, and the return from recordOperation.                          *)
LEMMA LinkAlone ==
  ASSUME Alone, IInv, AloneInv, NEW a \in Agents, LinkPatrimony(a) \/ LinkFinancial(a)
  PROVE  AloneInv'
<1> DEFINE r == job[a]
<1>1. PICK at \in {"linkFinancial", "returned"} : Set(a, [r EXCEPT !.at = at])
  BY DEF LinkPatrimony, LinkFinancial
<1>2. r \in Job /\ r.at \in Linking
  BY DEF IInv, JobOk, LinkPatrimony, LinkFinancial, IsAt, Linking
<1>3. PICK q : q = [r EXCEPT !.at = at]
  OBVIOUS
<1>4. q.at = at /\ q.line = r.line /\ q.event = r.event /\ q.old = r.old
  BY <1>2, <1>3 DEF Job
<1>5. Told(Live, aborts, r) /\ Cleared(Live, r)
  BY DEF AloneInv, AloneOk
<1>6. Told(Live, aborts, q)
  BY <1>2, <1>4, <1>5 DEF Told
<1>7. Cleared(Live, q)
  BY <1>2, <1>4, <1>5 DEF Cleared, Recording, Finding, Writing
<1>8. aborts = 0 => Pairs(Live, q)
  BY <1>2, PairsStay DEF Linking
<1>9. UNCHANGED <<legs, dropped, aborts>>
  BY DEF LinkPatrimony, LinkFinancial
<1> QED
  BY <1>1, <1>3, <1>6, <1>7, <1>8, <1>9, SameBooks DEF AloneOk

LEMMA ReturnAlone ==
  ASSUME Alone, IInv, AloneInv, NEW a \in Agents, Return(a) PROVE AloneInv'
<1> DEFINE r == job[a]
<1>1. r \in Job /\ r.at = "returned"
  BY DEF IInv, JobOk, Return, IsAt
<1>2. UNCHANGED <<legs, dropped, aborts>>
  BY DEF Return, books
<1>3. \A q : aborts = 0 => Pairs(Live, q)
  BY <1>1, PairsStay
<1>4. Cleared(Live, r)
  BY DEF AloneInv, AloneOk
<1>5. CASE Set(a, Idle)
  <2>1. Told(Live, aborts, Idle) /\ Cleared(Live, Idle)
    BY DEF Told, Cleared, Idle, Recording, Finding, Writing, Linking
  <2> QED
    BY <1>2, <1>3, <1>5, <2>1, SameBooks DEF AloneOk
<1>6. CASE Set(a, [r EXCEPT !.at = "swept"])
  <2>1. PICK q : q = [r EXCEPT !.at = "swept"]
    OBVIOUS
  <2>2. q.at = "swept" /\ q.event = r.event /\ q.old = r.old
    BY <1>1, <2>1 DEF Job
  <2>3. Told(Live, aborts, q) /\ Cleared(Live, q)
    BY <1>1, <1>4, <2>2 DEF Told, Cleared, Recording, Finding, Linking
  <2> QED
    BY <1>2, <1>3, <1>6, <2>1, <2>3, SameBooks DEF AloneOk
<1> QED
  BY <1>5, <1>6 DEF Return

(* A request to void or amend begins; nothing is under way.                 *)
LEMMA StartChangeAlone ==
  ASSUME Alone, IInv, AloneInv, NEW a \in Agents,
         StartVoid(a) \/ StartAmend(a) \/ MarkVoided(a)
  PROVE  AloneInv'
<1>1. UNCHANGED <<legs, dropped, aborts>>
  BY DEF StartVoid, StartAmend, MarkVoided, books
<1>2. job[a].at \in {"idle", "mark"}
  BY DEF StartVoid, StartAmend, MarkVoided, Start, IsAt
<1>3. \A q : aborts = 0 => Pairs(Live, q)
  BY <1>2, PairsStay
<1>4. PICK q : /\ Set(a, q) /\ q.at \in {"mark", "revise", "list"}
               /\ q.event = NoEvent \/ q.event # q.old
  <2>1. CASE StartVoid(a)
    <3>1. PICK e \in events : Set(a, [Idle EXCEPT !.at = "mark", !.op = "void", !.old = e.id])
      BY <2>1 DEF StartVoid, Start
    <3>2. PICK q : q = [Idle EXCEPT !.at = "mark", !.op = "void", !.old = e.id]
      OBVIOUS
    <3>3. q.at = "mark" /\ q.event = NoEvent
      BY <3>2 DEF Idle
    <3> QED
      BY <3>1, <3>2, <3>3
  <2>2. CASE StartAmend(a)
    <3>1. PICK e \in events, ls \in SUBSET Lines :
            Set(a, [Idle EXCEPT !.at = "revise", !.op = "amend", !.old = e.id, !.lines = ls])
      BY <2>2 DEF StartAmend, Start
    <3>2. PICK q : q = [Idle EXCEPT !.at = "revise", !.op = "amend", !.old = e.id, !.lines = ls]
      OBVIOUS
    <3>3. q.at = "revise" /\ q.event = NoEvent
      BY <3>2 DEF Idle
    <3> QED
      BY <3>1, <3>2, <3>3
  <2>3. CASE MarkVoided(a)
    <3>1. Set(a, [job[a] EXCEPT !.at = "list"]) /\ job[a] \in Job
      BY <2>3 DEF MarkVoided, IInv, JobOk
    <3>2. PICK q : q = [job[a] EXCEPT !.at = "list"]
      OBVIOUS
    <3>3. q.at = "list" /\ q.event = job[a].event /\ q.old = job[a].old
      BY <3>1, <3>2 DEF Job
    <3> QED
      BY <3>1, <3>2, <3>3 DEF AloneInv, AloneOk, Cleared
  <2> QED
    BY <2>1, <2>2, <2>3
<1>5. Told(Live, aborts, q) /\ Cleared(Live, q)
  BY <1>4 DEF Told, Cleared, Recording, Finding, Writing, Linking
<1> QED
  BY <1>1, <1>3, <1>4, <1>5, SameBooks DEF AloneOk

(* The revision has an id of its own.                                       *)
LEMMA OpenRevisionAlone ==
  ASSUME Alone, IInv, AloneInv, NEW a \in Agents, OpenRevision(a) PROVE AloneInv'
<1> DEFINE r == job[a]
<1>1. PICK prev \in events, id \in EventIds :
        /\ prev.id = r.old /\ Revise(id, prev) /\ Set(a, [r EXCEPT !.at = "list", !.event = id])
  BY DEF OpenRevision
<1>2. r \in Job /\ r.at = "revise"
  BY DEF IInv, JobOk, OpenRevision, IsAt
<1>3. id # r.old
  BY <1>1 DEF Revise, Commit, Insertable, Ids
<1>4. PICK q : q = [r EXCEPT !.at = "list", !.event = id]
  OBVIOUS
<1>5. q.at = "list" /\ q.event = id /\ q.old = r.old
  BY <1>2, <1>4 DEF Job
<1>6. Told(Live, aborts, q) /\ Cleared(Live, q)
  BY <1>3, <1>5 DEF Told, Cleared, Recording, Finding, Writing, Linking
<1>7. aborts = 0 => Pairs(Live, q)
  BY <1>2, PairsStay
<1>8. UNCHANGED <<legs, dropped, aborts>>
  BY DEF OpenRevision, books
<1> QED
  BY <1>1, <1>4, <1>6, <1>7, <1>8, SameBooks DEF AloneOk

LEMMA ListLegsAlone ==
  ASSUME Alone, IInv, AloneInv, NEW a \in Agents, ListLegs(a) PROVE AloneInv'
<1> DEFINE r == job[a]
           found == {l.id : l \in LiveUnder(r.old)}
<1>1. r \in Job /\ r.at = "list"
  BY DEF IInv, JobOk, ListLegs, IsAt
<1>2. found = {l.id : l \in {m \in Live : m.event = r.old}}
  BY DEF LiveUnder
<1>3. Set(a, [r EXCEPT !.at = "sweep", !.sweep = found]) /\ UNCHANGED <<legs, dropped, aborts>>
  BY DEF ListLegs, books
<1> HIDE DEF found
<1>4. PICK q : q = [r EXCEPT !.at = "sweep", !.sweep = found]
  OBVIOUS
<1>5. q.at = "sweep" /\ q.event = r.event /\ q.old = r.old /\ q.sweep = found
  BY <1>1, <1>4 DEF Job
<1>6. Cleared(Live, r)
  BY DEF AloneInv, AloneOk
<1>7. Told(Live, aborts, q) /\ Cleared(Live, q)
  BY <1>2, <1>5, <1>6 DEF Told, Cleared, Recording, Finding, Writing, Linking
<1>8. aborts = 0 => Pairs(Live, q)
  BY <1>1, PairsStay
<1> QED
  BY <1>3, <1>4, <1>7, <1>8, SameBooks DEF AloneOk

(* The leg that is dropped is one of the old header; its pair goes as well. *)
LEMMA SoftDeleteAlone ==
  ASSUME Alone, IInv, AloneInv, NEW a \in Agents, SoftDelete(a) PROVE AloneInv'
<1> DEFINE r == job[a]
<1>1. PICK l \in NextToDrop(a) :
        /\ l.id \notin dropped /\ dropped' = dropped \cup {l.id}
        /\ Set(a, [r EXCEPT !.sweep = @ \ {l.id}])
  BY DEF SoftDelete
<1>2. r \in Job /\ r.at = "sweep" /\ l \in legs /\ l.id \in r.sweep
  BY DEF IInv, JobOk, SoftDelete, IsAt, NextToDrop
<1>3. legs' = legs /\ aborts' = aborts
  BY DEF SoftDelete
<1>4. PICK q : q = [r EXCEPT !.sweep = @ \ {l.id}]
  OBVIOUS
<1>5. q.at = "sweep" /\ q.event = r.event /\ q.old = r.old /\ q.sweep = r.sweep \ {l.id}
  BY <1>2, <1>4 DEF Job
<1>6. Cleared(Live, r) /\ RowsOk(legs, dropped) /\ Single(Live, aborts)
      /\ (aborts = 0 => Pairs(Live, r))
  BY DEF AloneInv, AloneOk
<1>7. Live' = Live \ {l} /\ RowsOk(legs', dropped')
  BY <1>1, <1>2, <1>3, <1>6 DEF Live, RowsOk
<1>8. l.event = r.old
  <2>1. PICK m \in Live : m.event = r.old /\ m.id = l.id
    BY <1>2, <1>6 DEF Cleared
  <2>2. m = l
    BY <1>2, <1>6, <2>1 DEF RowsOk, Live
  <2> QED
    BY <2>1, <2>2
<1>9. Single(Live', aborts')
  BY <1>3, <1>6, <1>7 DEF Single
<1>10. Told(Live', aborts', q)
  BY <1>5 DEF Told, Linking
<1>11. q.sweep = {m.id : m \in {k \in Live' : k.event = q.old}}
  <2>1. r.sweep = {m.id : m \in {k \in Live : k.event = r.old}}
    BY <1>2, <1>6 DEF Cleared
  <2>2. \A m \in Live : m.id = l.id <=> m = l
    BY <1>2, <1>6 DEF RowsOk, Live
  <2>3. ASSUME NEW id PROVE id \in q.sweep <=> \E m \in Live' : m.event = q.old /\ m.id = id
    BY <1>5, <1>7, <2>1, <2>2
  <2> QED
    BY <2>3
<1>12. Cleared(Live', q)
  BY <1>5, <1>6, <1>11 DEF Cleared, Recording, Finding, Writing, Linking
<1>13. ASSUME aborts' = 0, NEW m \in Live' PROVE Paired(Live', m) \/ Underway(q, m)
  <2>1. CASE m.event = r.old
    BY <1>5, <2>1 DEF Underway
  <2>2. CASE m.event # r.old
    <3>1. Paired(Live, m)
      BY <1>2, <1>3, <1>6, <1>7, <1>13, <2>2 DEF Pairs, Underway
    <3> QED
      BY <1>7, <1>8, <2>2, <3>1 DEF Paired
  <2> QED
    BY <2>1, <2>2
<1> QED
  BY <1>1, <1>4, <1>7, <1>9, <1>10, <1>12, <1>13, AloneStep DEF AloneOk, Pairs

LEMMA SweptAlone ==
  ASSUME Alone, IInv, AloneInv, NEW a \in Agents, Swept(a) PROVE AloneInv'
<1> DEFINE r == job[a]
<1>1. r \in Job /\ r.at = "sweep" /\ r.sweep = {}
  BY DEF IInv, JobOk, Swept, IsAt
<1>2. PICK q : q = [r EXCEPT !.at = "swept"]
  OBVIOUS
<1>3. q.at = "swept" /\ q.event = r.event /\ q.old = r.old
  BY <1>1, <1>2 DEF Job
<1>4. Cleared(Live, r) /\ (aborts = 0 => Pairs(Live, r))
  BY DEF AloneInv, AloneOk
<1>5. \A l \in Live : l.event # r.old
  BY <1>1, <1>4 DEF Cleared
<1>6. Told(Live, aborts, q) /\ Cleared(Live, q)
  BY <1>3, <1>4, <1>5 DEF Told, Cleared, Linking, Finding
<1>7. aborts = 0 => Pairs(Live, q)
  BY <1>1, <1>4, <1>5 DEF Pairs, Underway
<1>8. Set(a, q) /\ UNCHANGED <<legs, dropped, aborts>>
  BY <1>2 DEF Swept, books
<1> QED
  BY <1>6, <1>7, <1>8, SameBooks DEF AloneOk

LEMMA ApplyNextLineAlone ==
  ASSUME Alone, IInv, AloneInv, NEW a \in Agents, ApplyNextLine(a) PROVE AloneInv'
<1> DEFINE r == job[a]
<1>1. PICK l \in r.lines :
        Set(a, [r EXCEPT !.at = "lookup", !.line = l, !.lines = @ \ {l},
                         !.backfill = FALSE, !.pat = NoLeg, !.fin = NoLeg])
  BY DEF ApplyNextLine
<1>2. r \in Job /\ r.at = "swept" /\ r.event # NoEvent
  <2>1. JobOk(events, legs, r) /\ r.at = "swept"
    BY DEF IInv, ApplyNextLine, IsAt
  <2> QED
    BY <1>1, <2>1 DEF JobOk, HeaderOf
<1>3. PICK q : q = [r EXCEPT !.at = "lookup", !.line = l, !.lines = @ \ {l},
                             !.backfill = FALSE, !.pat = NoLeg, !.fin = NoLeg]
  OBVIOUS
<1>4. q.at = "lookup" /\ q.backfill = FALSE /\ q.event = r.event /\ q.old = r.old
  BY <1>2, <1>3 DEF Job
<1>5. Cleared(Live, r)
  BY DEF AloneInv, AloneOk
<1>6. Told(Live, aborts, q) /\ Cleared(Live, q)
  BY <1>2, <1>4, <1>5 DEF Told, Cleared, Recording, Linking
<1>7. aborts = 0 => Pairs(Live, q)
  BY <1>2, PairsStay
<1>8. UNCHANGED <<legs, dropped, aborts>>
  BY DEF ApplyNextLine, books
<1> QED
  BY <1>1, <1>3, <1>6, <1>7, <1>8, SameBooks DEF AloneOk

(* The ways a request ends.  A lone request never finds its leg gone.       *)
LEMMA EndAlone ==
  ASSUME Alone, IInv, AloneInv, NEW a \in Agents,
         RevisionCollides(a) \/ SoftDeleteFails(a) \/ EndOfChange(a)
  PROVE  AloneInv'
<1>1. ASSUME SoftDeleteFails(a) PROVE FALSE
  <2>1. PICK l \in legs : l.id \in job[a].sweep /\ l.id \in dropped
    BY <1>1 DEF SoftDeleteFails, NextToDrop
  <2>2. PICK m \in Live : m.id = l.id
    BY <1>1, <2>1 DEF SoftDeleteFails, IsAt, AloneInv, AloneOk, Cleared
  <2> QED
    BY <2>1, <2>2 DEF Live
<1>2. job[a].at \in {"revise", "swept"}
  BY <1>1 DEF RevisionCollides, EndOfChange, IsAt
<1>3. Set(a, Idle) /\ UNCHANGED <<legs, dropped, aborts>>
  BY <1>1 DEF RevisionCollides, EndOfChange, books
<1>4. Told(Live, aborts, Idle) /\ Cleared(Live, Idle)
  BY DEF Told, Cleared, Idle, Recording, Finding, Writing, Linking
<1>5. aborts = 0 => Pairs(Live, Idle)
  BY <1>2, PairsStay
<1> QED
  BY <1>3, <1>4, <1>5, SameBooks DEF AloneOk

LEMMA AbortAlone ==
  ASSUME Alone, IInv, AloneInv, Remainder, NEW a \in Agents, Abort(a) PROVE AloneInv'
<1>1. Set(a, Idle) /\ legs' = legs /\ dropped' = dropped /\ aborts' = aborts + 1 /\ Live' = Live
  BY DEF Abort, books, Live
<1>2. aborts' # 0
  BY <1>1, BoundAssumption DEF Remainder
<1>3. RowsOk(legs', dropped') /\ Single(Live', aborts')
  BY <1>1, <1>2 DEF AloneInv, Single, Counts
<1>4. Told(Live', aborts', Idle) /\ Cleared(Live', Idle)
  BY DEF Told, Cleared, Idle, Recording, Finding, Writing, Linking
<1> QED
  BY <1>1, <1>2, <1>3, <1>4, AloneStep DEF AloneOk

LEMMA AloneNext == ASSUME Alone, IInv, AloneInv, Remainder, [Next]_vars PROVE AloneInv'
<1>1. CASE UNCHANGED vars
  BY <1>1 DEF vars, AloneInv, Live
<1> QED
  BY <1>1, StartImportAlone, LookupHitAlone, LookupMissAlone, CheckPendingAlone, ResolveAlone,
     RecordPatrimonyAlone, RecordFinancialAlone, LinkAlone, ReturnAlone, StartChangeAlone,
     OpenRevisionAlone, ListLegsAlone, SoftDeleteAlone, SweptAlone, ApplyNextLineAlone,
     EndAlone, AbortAlone DEF Next, Quiet

LEMMA AloneInvariant == ASSUME Alone PROVE Spec => [](IInv /\ AloneInv)
<1>1. Init => Remainder
  BY BoundAssumption DEF Init, BookInit, Remainder
<1>2. Init => AloneInv
  <2>1. ASSUME Init PROVE Live = {} /\ aborts = 0 /\ \A a \in Agents : job[a] = Idle
    BY <2>1 DEF Init, Live
  <2>2. Told({}, 0, Idle) /\ Cleared({}, Idle) /\ Pairs({}, Idle)
    BY DEF Told, Cleared, Pairs, Idle, Recording, Finding, Writing, Linking
  <2> QED
    BY <2>1, <2>2 DEF Init, AloneInv, AloneOk, RowsOk, Slotted, Single
<1>3. IInv /\ Remainder /\ [Next]_vars => Remainder'
  BY RemainderStep
<1>4. IInv /\ AloneInv /\ Remainder /\ [Next]_vars => AloneInv'
  BY AloneNext
<1> QED
  BY <1>1, <1>2, <1>3, <1>4, InvariantHolds, PTL DEF Spec

(* With one request at a time a line fills a slot hasExistingByRef asks for *)
(* once, however often it is imported, voided, amended or stopped.          *)
THEOREM LinesAreRecordedOnce == ASSUME Alone PROVE Spec => []OneLegPerSlot
<1>1. AloneInv => OneLegPerSlot
  BY DEF AloneInv, Single, Counts, OneLegPerSlot
<1> QED
  BY <1>1, AloneInvariant, PTL

(* recordOperation heals what an earlier import left of a deferred trade or *)
(* a dividend; any line is whole when it returns as long as nothing stopped.*)
THEOREM ReturnedLinesAreComplete == ASSUME Alone PROVE Spec => []ReturnedIsComplete
<1>1. AloneInv => ReturnedIsComplete
  BY FilledSlots DEF AloneInv, AloneOk, Told, ReturnedIsComplete, IsAt
<1> QED
  BY <1>1, AloneInvariant, PTL

(* invalidateLegs leaves nothing under the old header, and what amendEvent  *)
(* records afterwards hangs from the new one.                               *)
THEOREM SweepsAreComplete == ASSUME Alone PROVE Spec => []SweepIsComplete
<1>1. AloneInv => SweepIsComplete
  BY DEF AloneInv, AloneOk, Cleared, Recording, SweepIsComplete, IsAt, LiveUnder
<1> QED
  BY <1>1, AloneInvariant, PTL
=============================================================================
