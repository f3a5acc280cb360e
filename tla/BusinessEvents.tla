--------------------------- MODULE BusinessEvents ---------------------------
(***************************************************************************)
(* BusinessEventRegistry, call by call.  Several requests run at once and  *)
(* every "await this.gateway..." is a round trip to the database, so each  *)
(* call is split where the code awaits.  Each gateway call is its own      *)
(* transaction; nothing is locked between the read and the insert.  A call *)
(* that throws before it writes (amend of an unknown id) changes nothing   *)
(* and is not an action.                                                   *)
(***************************************************************************)
EXTENDS EventBook

CONSTANT Callers   (* requests that use the registry at the same time      *)

VARIABLE call      (* per caller: the registry method it is inside of      *)

vars == <<events, voided, answers, call>>

Ops == {"create", "ensure", "amend"}

Idle == [at |-> "idle"]

\* Inside create(): the payload about to be inserted, or just inserted.
Busy == [at : {"insert", "readBack", "returned", "rejected"}, op : Ops, row : Header]

TypeOK == BookTypeOK /\ call \in [Callers -> Busy \cup {Idle}]

Init == BookInit /\ call = [c \in Callers |-> Idle]

IsAt(c, point) == call[c].at = point

Goto(c, point, op, row) ==
  call' = [call EXCEPT ![c] = [at |-> point, op |-> op, row |-> row]]

\* randomUUID(): an id no row has and no other call has drawn.
Fresh(id) ==
  /\ id \notin Ids
  /\ \A c \in Callers : IsAt(c, "insert") => call[c].row.id # id

FirstRow(id, ref) == [id |-> id, ref |-> ref, rev |-> 1, supersedes |-> NoEvent]

\* The amended row repeats the reference of the previous one (the default of
\* amendEvent) and adds one to its revision_no.
AmendedRow_NoLink(id, prev) ==
  [id |-> id, ref |-> prev.ref, rev |-> prev.rev + 1, supersedes |-> NoEvent]

AmendedRow(id, prev) ==
  [id |-> id, ref |-> prev.ref, rev |-> prev.rev + 1, supersedes |-> prev.id]

\* create() builds the payload and goes straight to the insert; ensureByRef
\* does the same when the input has no sourceRef.
StartCreate(c) ==
  /\ IsAt(c, "idle")
  /\ \E id \in EventIds : Fresh(id) /\ Goto(c, "insert", "create", FirstRow(id, NoRef))
  /\ UNCHANGED bookVars

\* ensureByRef: SELECT ... revision_no = 1 LIMIT 1.  The row is taken as it
\* is: whether it was voided or superseded since is not asked.
EnsureFinds(c) ==
  /\ IsAt(c, "idle")
  /\ \E e \in events :
       /\ e.ref # NoRef /\ e.rev = 1
       /\ Goto(c, "returned", "ensure", e)
       /\ answers' = answers \cup {[ref |-> e.ref, event |-> e.id]}
  /\ UNCHANGED <<events, voided>>

EnsureMisses(c) ==
  /\ IsAt(c, "idle")
  /\ \E r \in Refs, id \in EventIds :
       /\ ~Taken(r, 1)
       /\ Fresh(id)
       /\ Goto(c, "insert", "ensure", FirstRow(id, r))
  /\ UNCHANGED bookVars

\* amend: findById(previousEventId), then create() with the next revision.
AmendReads(c) ==
  /\ IsAt(c, "idle")
  /\ \E prev \in events, id \in EventIds :
       Fresh(id) /\ Goto(c, "insert", "amend", AmendedRow(id, prev))
  /\ UNCHANGED bookVars

\* gateway.insert: the keys are checked by the database, inside the insert.
Insert(c) ==
  /\ IsAt(c, "insert")
  /\ Insertable(call[c].row)
  /\ events' = events \cup {call[c].row}
  /\ Goto(c, "readBack", call[c].op, call[c].row)
  /\ UNCHANGED <<voided, answers>>

\* ER_DUP_ENTRY: the gateway rolls back and rethrows, nobody catches it.
InsertCollides(c) ==
  /\ IsAt(c, "insert")
  /\ Taken(call[c].row.ref, call[c].row.rev)
  /\ Goto(c, "rejected", call[c].op, call[c].row)
  /\ UNCHANGED bookVars

\* ensureByRef answers a reference; create and amend promise nothing about it.
AnswersWith_Everything(op, row) == answers \cup {[ref |-> row.ref, event |-> row.id]}

AnswersWith(op, row) ==
  IF op = "ensure" THEN answers \cup {[ref |-> row.ref, event |-> row.id]} ELSE answers

\* create() reads its row back and hands it to whoever called.
ReadBack(c) ==
  /\ IsAt(c, "readBack")
  /\ call[c].row.id \in Ids
  /\ Goto(c, "returned", call[c].op, call[c].row)
  /\ answers' = AnswersWith(call[c].op, call[c].row)
  /\ UNCHANGED <<events, voided>>

\* voidEvent: one UPDATE, whatever voided_at was.
VoidEvent(c) ==
  /\ IsAt(c, "idle")
  /\ \E e \in events : voided' = voided \cup {e.id}
  /\ UNCHANGED <<events, answers, call>>

\* The request ends; the process serves the next one.
Finish(c) ==
  /\ call[c].at \in {"returned", "rejected"}
  /\ call' = [call EXCEPT ![c] = Idle]
  /\ UNCHANGED bookVars

Next ==
  \E c \in Callers :
    \/ StartCreate(c) \/ EnsureFinds(c) \/ EnsureMisses(c) \/ AmendReads(c)
    \/ Insert(c) \/ InsertCollides(c) \/ ReadBack(c)
    \/ VoidEvent(c) \/ Finish(c)

Spec == Init /\ [][Next]_vars

(***************************************************************************)
(* Reading a chain of revisions.                                           *)
(***************************************************************************)

\* listRevisions: every revision of a reference, voided ones included.
Revisions(ref) == {e \in events : e.ref = ref}

\* findHead: the last of listRevisions once sorted by revision_no.
FindHead(ref) ==
  CHOOSE e \in Revisions(ref) : \A f \in Revisions(ref) : f.rev <= e.rev

(***************************************************************************)
(* Properties.                                                             *)
(***************************************************************************)

\* What a caller carries from its read to its insert is still true when the
\* insert runs: the header an amendment builds on is committed and is the one
\* right before it.
PendingInsertGrounded ==
  \A c \in Callers :
    IsAt(c, "insert") =>
      LET row == call[c].row IN
      IF row.rev = 1 THEN row.supersedes = NoEvent
      ELSE \E prev \in events : /\ row.supersedes = prev.id
                                /\ row.ref = prev.ref
                                /\ row.rev = prev.rev + 1

\* The registry implements the book: every step of a caller is one operation
\* of EventBook or leaves the book as it was.
ImplementsBook == BookSpec

\* The comment of ensureByRef promises that parallel calls with one reference
\* are given the same header, as long as the UNIQUE key exists.
ParallelEnsureNeverRejected ==
  \A c \in Callers : IsAt(c, "rejected") => call[c].op # "ensure"

\* The comment of findHead promises the last revision that is still alive.
HeadIsAlive ==
  \A r \in Refs :
    (\E e \in Revisions(r) : e.id \notin voided) => FindHead(r).id \notin voided
=============================================================================
