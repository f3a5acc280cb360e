----------------------- MODULE BusinessEvents_proofs -----------------------
(***************************************************************************)
(* What the registry guarantees for any number of callers, references and  *)
(* ids.  The properties are not inductive by themselves: the key makes     *)
(* (ref, rev) unique, but the chain of revisions also needs ids that are   *)
(* drawn once and calls that carry rows grounded in committed ones.        *)
(***************************************************************************)
EXTENDS BusinessEvents, TLAPS

\* One row per id (the primary key).
UniqueIds == \A e, f \in events : e.id = f.id => e = f

\* An answer names a committed first revision of the reference asked for.
AnswersGrounded ==
  \A a \in answers : \E e \in events : e.id = a.event /\ e.ref = a.ref /\ e.rev = 1

\* Between insert and read-back the row is in the table.
ReadBackGrounded ==
  \A c \in Callers : IsAt(c, "readBack") => call[c].row \in events

\* ensureByRef only ever inserts first revisions of a reference.
EnsureShape ==
  \A c \in Callers :
    (IsAt(c, "insert") \/ IsAt(c, "readBack")) /\ call[c].op = "ensure" =>
      call[c].row.ref # NoRef /\ call[c].row.rev = 1

IInv == /\ TypeOK
        /\ UniqueIds
        /\ UniqueRevisions
        /\ RevisionChain
        /\ PendingInsertGrounded
        /\ AnswersGrounded
        /\ ReadBackGrounded
        /\ EnsureShape

-----------------------------------------------------------------------------
\* Moving one caller leaves the others where they were.
LEMMA GotoMoves ==
  ASSUME TypeOK, NEW c \in Callers, NEW point \in {"insert", "readBack", "returned", "rejected"},
         NEW op \in Ops, NEW row \in Header, Goto(c, point, op, row)
  PROVE  /\ call' \in [Callers -> Busy \cup {Idle}]
         /\ call'[c] = [at |-> point, op |-> op, row |-> row]
         /\ \A d \in Callers : d # c => call'[d] = call[d]
BY DEF Goto, TypeOK, Busy

\* A caller that is inside a call carries a well-typed row.
LEMMA BusyTyped ==
  ASSUME TypeOK, NEW c \in Callers, call[c].at # "idle"
  PROVE  call[c].op \in Ops /\ call[c].row \in Header
BY DEF TypeOK, Busy, Idle

\* The rows the code builds are headers.
LEMMA RowsTyped ==
  ASSUME NEW id \in EventIds
  PROVE  /\ \A r \in Refs \cup {NoRef} : FirstRow(id, r) \in Header
         /\ \A prev \in Header : AmendedRow(id, prev) \in Header
<1>1. \A r \in Refs \cup {NoRef} : FirstRow(id, r) \in Header
  BY DEF FirstRow, Header
<1>2. ASSUME NEW prev \in Header PROVE AmendedRow(id, prev) \in Header
  <2>1. prev.rev + 1 \in Nat \ {0} /\ prev.ref \in Refs \cup {NoRef} /\ prev.id \in EventIds
    BY DEF Header
  <2> QED
    BY <2>1 DEF AmendedRow, Header
<1> QED
  BY <1>1, <1>2

-----------------------------------------------------------------------------
LEMMA InitIInv == Init => IInv
<1> SUFFICES ASSUME Init PROVE IInv
  OBVIOUS
<1>1. TypeOK
  BY DEF Init, BookInit, TypeOK, BookTypeOK
<1>2. \A c \in Callers : call[c] = Idle
  BY DEF Init
<1> QED
  BY <1>1, <1>2 DEF Init, BookInit, IInv, UniqueIds, UniqueRevisions, RevisionChain,
     PendingInsertGrounded, AnswersGrounded, ReadBackGrounded, EnsureShape, IsAt, Idle

\* A call that starts by drawing a row: the book does not change and the new
\* row is grounded.
LEMMA StartPreserves ==
  ASSUME IInv, NEW c \in Callers, NEW op \in Ops, NEW row \in Header,
         Goto(c, "insert", op, row), UNCHANGED bookVars,
         op = "ensure" => row.ref # NoRef /\ row.rev = 1,
         IF row.rev = 1 THEN row.supersedes = NoEvent
         ELSE \E prev \in events : /\ row.supersedes = prev.id
                                   /\ row.ref = prev.ref
                                   /\ row.rev = prev.rev + 1
  PROVE  IInv'
<1>1. /\ call' \in [Callers -> Busy \cup {Idle}]
      /\ call'[c] = [at |-> "insert", op |-> op, row |-> row]
      /\ \A d \in Callers : d # c => call'[d] = call[d]
  BY GotoMoves DEF IInv
<1>2. events' = events /\ voided' = voided /\ answers' = answers
  BY DEF bookVars
<1>3. TypeOK'
  BY <1>1, <1>2 DEF IInv, TypeOK, BookTypeOK
<1>4. PendingInsertGrounded'
  BY <1>1, <1>2 DEF IInv, PendingInsertGrounded, IsAt
<1>5. ReadBackGrounded' /\ EnsureShape'
  BY <1>1, <1>2 DEF IInv, ReadBackGrounded, EnsureShape, IsAt
<1> QED
  BY <1>2, <1>3, <1>4, <1>5
     DEF IInv, UniqueIds, UniqueRevisions, RevisionChain, AnswersGrounded

\* A row enters the table: the two keys and the row's grounds carry over.
LEMMA InsertPreserves ==
  ASSUME IInv, NEW c \in Callers, Insert(c)
  PROVE  IInv'
<1> DEFINE row == call[c].row
<1>1. row \in Header /\ call[c].op \in Ops
  BY BusyTyped DEF IInv, Insert, IsAt
<1>2. /\ call' \in [Callers -> Busy \cup {Idle}]
      /\ call'[c] = [at |-> "readBack", op |-> call[c].op, row |-> row]
      /\ \A d \in Callers : d # c => call'[d] = call[d]
  BY <1>1, GotoMoves DEF IInv, Insert
<1>3. /\ events' = events \cup {row} /\ voided' = voided /\ answers' = answers
      /\ row.id \notin Ids /\ ~Taken(row.ref, row.rev)
      /\ IsAt(c, "insert")
  BY DEF Insert, Insertable
<1>4. TypeOK'
  BY <1>1, <1>2, <1>3 DEF IInv, TypeOK, BookTypeOK
<1>5. UniqueIds'
  BY <1>3 DEF IInv, UniqueIds, Ids
<1>6. UniqueRevisions'
  BY <1>3 DEF IInv, UniqueRevisions, Taken
<1>7. RevisionChain'
  <2>1. IF row.rev = 1 THEN row.supersedes = NoEvent
        ELSE \E prev \in events : /\ prev.id = row.supersedes
                                  /\ prev.ref = row.ref
                                  /\ row.rev = prev.rev + 1
    BY <1>3 DEF IInv, PendingInsertGrounded
  <2> QED
    BY <1>3, <2>1 DEF IInv, RevisionChain
<1>8. PendingInsertGrounded'
  BY <1>2, <1>3 DEF IInv, PendingInsertGrounded, IsAt
<1>9. AnswersGrounded'
  BY <1>3 DEF IInv, AnswersGrounded
<1>10. ReadBackGrounded'
  BY <1>2, <1>3 DEF IInv, ReadBackGrounded, IsAt
<1>11. EnsureShape'
  BY <1>2, <1>3 DEF IInv, EnsureShape, IsAt
<1> QED
  BY <1>4, <1>5, <1>6, <1>7, <1>8, <1>9, <1>10, <1>11 DEF IInv

\* A call ends, with or without an answer: the table does not change, and a new
\* answer names a committed first revision.
LEMMA EndPreserves ==
  ASSUME IInv, NEW c \in Callers, UNCHANGED <<events, voided>>,
         \/ call' = [call EXCEPT ![c] = Idle]
         \/ \E point \in {"returned", "rejected"}, op \in Ops, row \in Header :
              Goto(c, point, op, row),
         \/ answers' = answers
         \/ \E e \in events : /\ e.ref # NoRef /\ e.rev = 1
                             /\ answers' = answers \cup {[ref |-> e.ref, event |-> e.id]}
  PROVE  IInv'
<1>1. /\ call' \in [Callers -> Busy \cup {Idle}]
      /\ call'[c].at \in {"idle", "returned", "rejected"}
      /\ \A d \in Callers : d # c => call'[d] = call[d]
  <2>1. CASE call' = [call EXCEPT ![c] = Idle]
    BY <2>1 DEF IInv, TypeOK, Idle
  <2>2. CASE \E point \in {"returned", "rejected"}, op \in Ops, row \in Header :
               Goto(c, point, op, row)
    <3>1. PICK point \in {"returned", "rejected"}, op \in Ops, row \in Header :
            Goto(c, point, op, row)
      BY <2>2
    <3>2. point \in {"insert", "readBack", "returned", "rejected"} /\ TypeOK
      BY DEF IInv
    <3>3. /\ call' \in [Callers -> Busy \cup {Idle}]
          /\ call'[c] = [at |-> point, op |-> op, row |-> row]
          /\ \A d \in Callers : d # c => call'[d] = call[d]
      BY <3>1, <3>2, GotoMoves
    <3> QED
      BY <3>3
  <2> QED
    BY <2>1, <2>2
<1>2. answers' \subseteq Answer
  BY DEF IInv, TypeOK, BookTypeOK, Header, Answer
<1>3. TypeOK'
  BY <1>1, <1>2 DEF IInv, TypeOK, BookTypeOK
<1>4. AnswersGrounded'
  <2>1. CASE answers' = answers
    BY <2>1 DEF IInv, AnswersGrounded
  <2>2. ASSUME NEW e \in events, e.ref # NoRef, e.rev = 1,
               answers' = answers \cup {[ref |-> e.ref, event |-> e.id]}
        PROVE  AnswersGrounded'
    BY <2>2 DEF IInv, AnswersGrounded
  <2> QED
    BY <2>1, <2>2
<1>5. PendingInsertGrounded' /\ ReadBackGrounded' /\ EnsureShape'
  BY <1>1 DEF IInv, PendingInsertGrounded, ReadBackGrounded, EnsureShape, IsAt
<1> QED
  BY <1>3, <1>4, <1>5 DEF IInv, UniqueIds, UniqueRevisions, RevisionChain

\* Every step preserves the invariant, one action at a time.
LEMMA NextIInv == IInv /\ [Next]_vars => IInv'
<1> SUFFICES ASSUME IInv, [Next]_vars PROVE IInv'
  OBVIOUS
<1>0. events \subseteq Header
  BY DEF IInv, TypeOK, BookTypeOK
<1>1. ASSUME NEW c \in Callers, StartCreate(c) PROVE IInv'
  <2>1. PICK id \in EventIds : Goto(c, "insert", "create", FirstRow(id, NoRef))
    BY <1>1 DEF StartCreate
  <2>2. FirstRow(id, NoRef) \in Header
    BY RowsTyped
  <2> QED
    BY <1>1, <2>1, <2>2, StartPreserves DEF StartCreate, FirstRow, Ops
<1>2. ASSUME NEW c \in Callers, EnsureFinds(c) PROVE IInv'
  <2>1. PICK e \in events : /\ e.ref # NoRef /\ e.rev = 1
                            /\ Goto(c, "returned", "ensure", e)
                            /\ answers' = answers \cup {[ref |-> e.ref, event |-> e.id]}
    BY <1>2 DEF EnsureFinds
  <2> QED
    BY <1>0, <1>2, <2>1, EndPreserves DEF EnsureFinds, Ops
<1>3. ASSUME NEW c \in Callers, EnsureMisses(c) PROVE IInv'
  <2>1. PICK r \in Refs, id \in EventIds :
          Goto(c, "insert", "ensure", FirstRow(id, r))
    BY <1>3 DEF EnsureMisses
  <2>2. FirstRow(id, r) \in Header
    BY RowsTyped
  <2> QED
    BY <1>3, <2>1, <2>2, StartPreserves, NoRefAssumption DEF EnsureMisses, FirstRow, Ops
<1>4. ASSUME NEW c \in Callers, AmendReads(c) PROVE IInv'
  <2>1. PICK prev \in events, id \in EventIds :
          Goto(c, "insert", "amend", AmendedRow(id, prev))
    BY <1>4 DEF AmendReads
  <2>2. AmendedRow(id, prev) \in Header
    BY <1>0, RowsTyped
  <2>3. prev.rev + 1 # 1
    BY <1>0 DEF Header
  <2> QED
    BY <1>4, <2>1, <2>2, <2>3, StartPreserves DEF AmendReads, AmendedRow, Ops
<1>5. ASSUME NEW c \in Callers, Insert(c) PROVE IInv'
  BY <1>5, InsertPreserves
<1>6. ASSUME NEW c \in Callers, InsertCollides(c) PROVE IInv'
  <2>1. call[c].op \in Ops /\ call[c].row \in Header
    BY <1>6, BusyTyped DEF InsertCollides, IsAt, IInv
  <2> QED
    BY <1>6, <2>1, EndPreserves DEF InsertCollides, bookVars
<1>7. ASSUME NEW c \in Callers, ReadBack(c) PROVE IInv'
  <2>1. call[c].op \in Ops /\ call[c].row \in Header /\ call[c].row \in events
    BY <1>7, BusyTyped DEF ReadBack, IsAt, IInv, ReadBackGrounded
  <2>2. CASE call[c].op = "ensure"
    <3>1. call[c].row.ref # NoRef /\ call[c].row.rev = 1
      BY <1>7, <2>2 DEF ReadBack, IInv, EnsureShape
    <3> QED
      BY <1>7, <2>1, <2>2, <3>1, EndPreserves DEF ReadBack, AnswersWith
  <2>3. CASE call[c].op # "ensure"
    BY <1>7, <2>1, <2>3, EndPreserves DEF ReadBack, AnswersWith
  <2> QED
    BY <2>2, <2>3
<1>8. ASSUME NEW c \in Callers, VoidEvent(c) PROVE IInv'
  <2>1. voided' \subseteq EventIds /\ UNCHANGED <<events, answers, call>>
    BY <1>0, <1>8 DEF VoidEvent, IInv, TypeOK, BookTypeOK, Header
  <2> QED
    BY <2>1 DEF IInv, TypeOK, BookTypeOK, UniqueIds, UniqueRevisions, RevisionChain,
       PendingInsertGrounded, AnswersGrounded, ReadBackGrounded, EnsureShape, IsAt
<1>9. ASSUME NEW c \in Callers, Finish(c) PROVE IInv'
  BY <1>9, EndPreserves DEF Finish, bookVars
<1>10. CASE UNCHANGED vars
  BY <1>10 DEF vars, IInv, TypeOK, BookTypeOK, UniqueIds, UniqueRevisions, RevisionChain,
     PendingInsertGrounded, AnswersGrounded, ReadBackGrounded, EnsureShape, IsAt
<1> QED
  BY <1>1, <1>2, <1>3, <1>4, <1>5, <1>6, <1>7, <1>8, <1>9, <1>10 DEF Next

LEMMA Invariance == Spec => []IInv
BY InitIInv, NextIInv, PTL DEF Spec

-----------------------------------------------------------------------------
\* Type correctness of the registry's state, for every set of callers.
THEOREM TypeCorrect == Spec => []TypeOK
<1>1. IInv => TypeOK
  BY DEF IInv
<1> QED
  BY <1>1, Invariance, PTL

\* BusinessEventRegistry never leaves two headers with one reference and one
\* revision number.
THEOREM RevisionsAreUnique == Spec => []UniqueRevisions
<1>1. IInv => UniqueRevisions
  BY DEF IInv
<1> QED
  BY <1>1, Invariance, PTL

\* Every revision links to the committed one right before it.
THEOREM RevisionsAreChained == Spec => []RevisionChain
<1>1. IInv => RevisionChain
  BY DEF IInv
<1> QED
  BY <1>1, Invariance, PTL

\* Callers of ensureByRef who were answered agree on the header.
THEOREM EnsureAgrees == Spec => []EnsureAgreement
<1>1. IInv => EnsureAgreement
  <2> SUFFICES ASSUME IInv, NEW a \in answers, NEW b \in answers, a.ref = b.ref
               PROVE  a.event = b.event
    BY DEF EnsureAgreement
  <2>1. PICK e \in events : e.id = a.event /\ e.ref = a.ref /\ e.rev = 1
    BY DEF IInv, AnswersGrounded
  <2>2. PICK f \in events : f.id = b.event /\ f.ref = b.ref /\ f.rev = 1
    BY DEF IInv, AnswersGrounded
  <2>3. a.ref # NoRef
    BY NoRefAssumption DEF IInv, TypeOK, BookTypeOK, Answer
  <2> QED
    BY <2>1, <2>2, <2>3 DEF IInv, UniqueRevisions
<1> QED
  BY <1>1, Invariance, PTL

\* A header with a reference is superseded at most once.
THEOREM NoRivals == Spec => []NoRivalRevisions
<1>1. IInv => NoRivalRevisions
  <2> SUFFICES ASSUME IInv, NEW e \in events, NEW f \in events,
                      e.supersedes = f.supersedes, e.supersedes # NoEvent, e.ref # NoRef
               PROVE  e = f
    BY DEF NoRivalRevisions
  <2>1. PICK p \in events : p.id = e.supersedes /\ p.ref = e.ref /\ e.rev = p.rev + 1
    BY DEF IInv, RevisionChain
  <2>2. PICK q \in events : q.id = f.supersedes /\ q.ref = f.ref /\ f.rev = q.rev + 1
    BY DEF IInv, RevisionChain
  <2>3. p = q
    BY <2>1, <2>2 DEF IInv, UniqueIds
  <2> QED
    BY <2>1, <2>2, <2>3 DEF IInv, UniqueRevisions
<1> QED
  BY <1>1, Invariance, PTL

\* The registry implements the book: every call, however interleaved, is one
\* operation of the book or none.
THEOREM RegistryImplementsBook == Spec => ImplementsBook
<1>1. Init => BookInit
  BY DEF Init
<1>2. IInv /\ [Next]_vars => [BookNext]_bookVars
  <2> SUFFICES ASSUME IInv, [Next]_vars PROVE [BookNext]_bookVars
    OBVIOUS
  <2>1. ASSUME NEW c \in Callers,
               StartCreate(c) \/ EnsureMisses(c) \/ AmendReads(c)
                 \/ InsertCollides(c) \/ Finish(c)
        PROVE  UNCHANGED bookVars
    BY <2>1 DEF StartCreate, EnsureMisses, AmendReads, InsertCollides, Finish
  <2>2. ASSUME NEW c \in Callers, EnsureFinds(c) PROVE BookNext
    BY <2>2 DEF EnsureFinds, BookNext, Tell
  <2>3. ASSUME NEW c \in Callers, Insert(c) PROVE BookNext
    <3> DEFINE row == call[c].row
    <3>1. row \in Header /\ Commit(row) /\ IsAt(c, "insert")
      BY <2>3, BusyTyped DEF Insert, Commit, IsAt, IInv
    <3>2. CASE row.rev = 1
      <4>1. row.supersedes = NoEvent
        BY <3>1, <3>2 DEF IInv, PendingInsertGrounded
      <4>2. row = [id |-> row.id, ref |-> row.ref, rev |-> 1, supersedes |-> NoEvent]
        BY <3>1, <3>2, <4>1 DEF Header
      <4>3. row.id \in EventIds /\ row.ref \in Refs \cup {NoRef} /\ Open(row.id, row.ref)
        BY <3>1, <4>2 DEF Open, Header
      <4> QED
        BY <4>3 DEF BookNext
    <3>3. CASE row.rev # 1
      <4>1. PICK prev \in events : /\ row.supersedes = prev.id
                                  /\ row.ref = prev.ref
                                  /\ row.rev = prev.rev + 1
        BY <3>1, <3>3 DEF IInv, PendingInsertGrounded
      <4>2. row = [id |-> row.id, ref |-> prev.ref, rev |-> prev.rev + 1,
                   supersedes |-> prev.id]
        BY <3>1, <4>1 DEF Header
      <4>3. row.id \in EventIds /\ Revise(row.id, prev)
        BY <3>1, <4>2 DEF Revise, Header
      <4> QED
        BY <4>3 DEF BookNext
    <3> QED
      BY <3>2, <3>3
  <2>4. ASSUME NEW c \in Callers, ReadBack(c) PROVE [BookNext]_bookVars
    <3>1. call[c].row \in events
      BY <2>4 DEF ReadBack, IInv, ReadBackGrounded
    <3>2. CASE call[c].op = "ensure"
      <4>1. Tell(call[c].row)
        BY <2>4, <3>2 DEF ReadBack, AnswersWith, Tell, IInv, EnsureShape
      <4> QED
        BY <3>1, <4>1 DEF BookNext
    <3>3. CASE call[c].op # "ensure"
      BY <2>4, <3>3 DEF ReadBack, AnswersWith, bookVars
    <3> QED
      BY <3>2, <3>3
  <2>5. ASSUME NEW c \in Callers, VoidEvent(c) PROVE BookNext
    BY <2>5 DEF VoidEvent, BookNext, Annul
  <2>6. CASE UNCHANGED vars
    BY <2>6 DEF vars, bookVars
  <2> QED
    BY <2>1, <2>2, <2>3, <2>4, <2>5, <2>6 DEF Next
<1> QED
  BY <1>1, <1>2, Invariance, PTL DEF Spec, ImplementsBook, BookSpec
=============================================================================
