----------------------- MODULE ReconcileSession_proofs -----------------------
(***************************************************************************)
(* For any sessions, calendar, lines and requests: what the books say of a *)
(* day that is written down as closed, and what the log says of the books; *)
(* and, one request after the other, what a close leaves of the days       *)
(* closed before and of the daily patrimony.                               *)
(***************************************************************************)
EXTENDS ReconcileSession, TLAPS

(* A request in the middle of its work has the fields of its point.         *)
Shape(r) ==
  \/ r = Idle
  \/ /\ r.at \in {"materialize", "read", "logClose"} /\ r.session \in Sessions /\ r.day \in Days
     /\ r = [at |-> r.at, session |-> r.session, day |-> r.day]
  \/ /\ r.at = "write" /\ r.session \in Sessions /\ r.day \in Days
     /\ r = [at |-> "write", session |-> r.session, day |-> r.day, seen |-> r.seen]
  \/ /\ r.at = "decide" /\ r.session \in Sessions /\ r.day \in Days
     /\ r = [at |-> "decide", session |-> r.session, day |-> r.day, map |-> r.map]
  \/ /\ r.at \in Applying \ {"look"} /\ r.session \in Sessions /\ r.day \in Days
     /\ r = [at |-> r.at, session |-> r.session, day |-> r.day, map |-> r.map,
             answer |-> r.answer]
  \/ /\ r.at = "look" /\ r.session \in Sessions /\ r.day \in Days
     /\ r = [at |-> "look", session |-> r.session, day |-> r.day, map |-> r.map,
             answer |-> r.answer, index |-> r.index]
  \/ /\ r.at = "answered" /\ r.session \in Sessions /\ r.day \in Days
     /\ r = [at |-> "answered", session |-> r.session, day |-> r.day, reply |-> r.reply]

(* What is asked to be entered is a trade of the notes, what is asked to be *)
(* voided as a trade is a leg.                                              *)
Asked(answer) ==
  /\ answer.action = "insert" => \E l \in FileLines : answer = Inserting(l)
  /\ answer.action = "void" /\ answer.on.kind = "ledger_only" =>
       \E k \in Leg : answer = Voiding(k)

RequestOk(r) ==
  /\ Shape(r)
  /\ r.at \in Applying => Asked(r.answer)
  /\ r.at \in {"look", "book", "expect"} => r.answer.action = "insert"

SpentOk(s) ==
  /\ s = [answers |-> s.answers, edits |-> s.edits, failures |-> s.failures,
          restarts |-> s.restarts]
  /\ s.answers \in Nat /\ s.edits \in Nat /\ s.failures \in Nat /\ s.restarts \in Nat

BooksOk ==
  /\ book \subseteq Leg /\ issued \in [Lines -> Nat]
  /\ flaws \subseteq Flaws \cup [kind : HalfKinds, on : Lines]

RowsOk ==
  /\ row = [s \in Sessions |-> row[s]]
  /\ \A s \in Sessions : row[s] = [status |-> row[s].status, horizon |-> row[s].horizon,
                                   closed |-> row[s].closed]

Forms ==
  /\ BooksOk /\ alive \subseteq Sessions /\ RowsOk
  /\ req = [a \in Agents |-> req[a]]
  /\ \A a \in Agents : RequestOk(req[a])
  /\ SpentOk(spent)
-----------------------------------------------------------------------------
LEMMA SetForms ==
  ASSUME Forms, NEW a \in Agents, NEW r, Set(a, r)
  PROVE  req' = [b \in Agents |-> IF b = a THEN r ELSE req[b]]
BY DEF Forms, Set

(* A step of one request: where it goes, what it keeps, and that the others *)
(* stay.                                                                    *)
Moves(a, from, to) ==
  /\ req[a].at \in from /\ req'[a].at \in to
  /\ req' = [b \in Agents |-> IF b = a THEN req'[a] ELSE req[b]]
  /\ RequestOk(req'[a])
  /\ req[a].at \in Applying /\ req'[a].at \in Applying => req'[a].answer = req[a].answer

LEMMA MovesBySet ==
  ASSUME Forms, NEW a \in Agents, NEW r, Set(a, r), RequestOk(r), NEW from, NEW to,
         req[a].at \in from, r.at \in to,
         req[a].at \in Applying /\ r.at \in Applying => r.answer = req[a].answer
  PROVE  Moves(a, from, to) /\ req'[a] = r
<1>1. req' = [b \in Agents |-> IF b = a THEN r ELSE req[b]]
  BY SetForms
<1>2. req'[a] = r
  BY <1>1
<1> QED
  BY <1>1, <1>2 DEF Moves

LEMMA MovesByReply ==
  ASSUME Forms, NEW a \in Agents, NEW s \in Sessions, NEW d \in Days, NEW reply,
         Reply(a, s, d, reply), NEW from, req[a].at \in from
  PROVE  Moves(a, from, {"answered"})
<1> DEFINE r == [at |-> "answered", session |-> s, day |-> d, reply |-> reply]
<1>1. RequestOk(r) /\ r.at = "answered" /\ Set(a, r)
  BY DEF RequestOk, Shape, Idle, Reply, Applying
<1> HIDE DEF r
<1> QED
  BY <1>1, MovesBySet DEF Applying

LEMMA FieldsOfRequest ==
  ASSUME Forms, NEW a \in Agents, req[a].at # "idle"
  PROVE  req[a].session \in Sessions /\ req[a].day \in Days
BY DEF Forms, RequestOk, Shape, Idle

(* A request that goes on with its answer.                                  *)
LEMMA MovesOn ==
  ASSUME Forms, NEW a \in Agents, NEW point \in {"book", "expect", "mark"}, Set(a, At(a, point)),
         NEW from, req[a].at \in from, req[a].at \in Applying,
         point \in {"book", "expect"} => req[a].answer.action = "insert"
  PROVE  Moves(a, from, {point})
<1> DEFINE r == At(a, point)
<1>1. req[a].session \in Sessions /\ req[a].day \in Days
  BY FieldsOfRequest DEF Applying
<1>2. r.at = point /\ r.answer = req[a].answer /\ Asked(req[a].answer)
  BY DEF At, Forms, RequestOk
<1>3. Shape(r)
  BY <1>1 DEF Shape, At, Applying, Idle
<1>4. RequestOk(r)
  BY <1>2, <1>3 DEF RequestOk, Applying
<1> HIDE DEF r
<1>5. Set(a, r)
  BY DEF r
<1> QED
  BY <1>2, <1>4, <1>5, MovesBySet

(* What a request may be asked to do is what the day showed.                *)
LEMMA AskedIsShown ==
  ASSUME Forms, NEW s \in Sessions, NEW d \in Days, NEW decision \in Pending(s, d),
         NEW action \in Allowed(decision)
  PROVE  /\ Asked([on |-> decision, action |-> action])
         /\ decision.kind \in {"file_only", "ledger_only"} => decision \in Preview(d)
<1>1. CASE decision \in Preview(d)
  <2>1. CASE \E l \in FileLines : decision = [kind |-> "file_only", on |-> l]
    BY <1>1, <2>1 DEF Allowed, Asked, Inserting
  <2>2. CASE \E k \in Leg : decision = LeftOver(k)
    <3>1. decision.kind = "ledger_only"
      BY <2>2 DEF LeftOver
    <3>2. action \in {"void", "pair", "defer"}
      BY <3>1 DEF Allowed, HalfKinds
    <3> QED
      BY <1>1, <2>2, <3>2 DEF Asked, Voiding
  <2>3. Surplus \subseteq Leg
    BY DEF Surplus, Forms, BooksOk
  <2> QED
    BY <1>1, <2>1, <2>2, <2>3 DEF Preview, On
<1>2. CASE decision \in Audit(s, d)
  <2>1. decision.kind \in FlawKinds \cup HalfKinds \cup {"duplicate", "custody", "gap"}
    BY <1>2, FlawAssumption DEF Audit, Forms, BooksOk
  <2> QED
    BY <2>1 DEF Allowed, Asked, FlawKinds, HalfKinds
<1> QED
  BY <1>1, <1>2 DEF Pending

-----------------------------------------------------------------------------
(* The moves of a request, action by action.                                *)
LEMMA MoveBeginClose ==
  ASSUME Forms, NEW a \in Agents, BeginClose(a)
  PROVE  /\ Moves(a, {"idle"}, {"answered", "materialize"})
         /\ req'[a].at = "materialize" => Preview(req'[a].day) = {}
<1>1. PICK s \in Sessions, d \in Days, q \in {"error", "blocked"} :
        \/ Reply(a, s, d, q)
        \/ Set(a, [at |-> "materialize", session |-> s, day |-> d]) /\ Preview(d) = {}
  BY DEF BeginClose, CanClose
<1>2. req[a].at = "idle"
  BY DEF BeginClose, IsAt
<1>3. CASE Reply(a, s, d, q)
  BY <1>2, <1>3, MovesByReply DEF Moves
<1>4. CASE Set(a, [at |-> "materialize", session |-> s, day |-> d]) /\ Preview(d) = {}
  <2> DEFINE r == [at |-> "materialize", session |-> s, day |-> d]
  <2>1. RequestOk(r) /\ r.at = "materialize" /\ r.day = d
    BY DEF RequestOk, Shape, Idle, Applying
  <2> HIDE DEF r
  <2>2. Set(a, r)
    BY <1>4 DEF r
  <2>3. Moves(a, {"idle"}, {"materialize"}) /\ req'[a] = r
    BY <1>2, <2>1, <2>2, MovesBySet DEF Applying
  <2> QED
    BY <1>4, <2>1, <2>3 DEF Moves
<1> QED
  BY <1>1, <1>3, <1>4

LEMMA MoveClose ==
  ASSUME Forms, NEW a \in Agents
  PROVE  /\ Materialize(a) => Moves(a, {"materialize"}, {"read"}) /\ req'[a].day = req[a].day
         /\ MaterializeFails(a) => Moves(a, {"materialize"}, {"answered"})
         /\ ReadProgress(a) =>
              /\ Moves(a, {"read"}, {"write"}) /\ req'[a].day = req[a].day
              /\ req'[a].session = req[a].session /\ req'[a].seen = row[req[a].session].closed
         /\ WriteProgress(a) => Moves(a, {"write"}, {"logClose"})
         /\ LogClose(a) => Moves(a, {"logClose"}, {"answered"})
<1>1. ASSUME Materialize(a)
      PROVE  Moves(a, {"materialize"}, {"read"}) /\ req'[a].day = req[a].day
  <2> DEFINE r == [req[a] EXCEPT !.at = "read"]
  <2>1. r.at = "read" /\ r.day = req[a].day /\ RequestOk(r) /\ req[a].at = "materialize"
    BY <1>1 DEF Materialize, IsAt, Forms, RequestOk, Shape, Idle, Applying
  <2> HIDE DEF r
  <2>2. Set(a, r)
    BY <1>1 DEF Materialize, r
  <2> QED
    BY <2>1, <2>2, MovesBySet DEF Applying
<1>2. ASSUME MaterializeFails(a) PROVE Moves(a, {"materialize"}, {"answered"})
  <2>1. req[a].at = "materialize" /\ Reply(a, req[a].session, req[a].day, "error")
    BY <1>2 DEF MaterializeFails, IsAt
  <2> QED
    BY <2>1, MovesByReply, FieldsOfRequest
<1>3. ASSUME ReadProgress(a)
      PROVE  /\ Moves(a, {"read"}, {"write"}) /\ req'[a].day = req[a].day
             /\ req'[a].session = req[a].session /\ req'[a].seen = row[req[a].session].closed
  <2> DEFINE r == [at |-> "write", session |-> req[a].session, day |-> req[a].day,
                   seen |-> row[req[a].session].closed]
  <2>1. /\ r.at = "write" /\ r.day = req[a].day /\ r.session = req[a].session
        /\ r.seen = row[req[a].session].closed /\ req[a].at = "read"
    BY <1>3 DEF ReadProgress, IsAt
  <2>2. RequestOk(r)
    BY <2>1, FieldsOfRequest DEF RequestOk, Shape, Idle, Applying
  <2> HIDE DEF r
  <2>3. Set(a, r)
    BY <1>3 DEF ReadProgress, r
  <2> QED
    BY <2>1, <2>2, <2>3, MovesBySet DEF Applying
<1>4. ASSUME WriteProgress(a) PROVE Moves(a, {"write"}, {"logClose"})
  <2> DEFINE r == [at |-> "logClose", session |-> req[a].session, day |-> req[a].day]
  <2>1. r.at = "logClose" /\ req[a].at = "write"
    BY <1>4 DEF WriteProgress, IsAt
  <2>2. RequestOk(r)
    BY <2>1, FieldsOfRequest DEF RequestOk, Shape, Idle, Applying
  <2> HIDE DEF r
  <2>3. Set(a, r)
    BY <1>4 DEF WriteProgress, r
  <2> QED
    BY <2>1, <2>2, <2>3, MovesBySet DEF Applying
<1>5. ASSUME LogClose(a) PROVE Moves(a, {"logClose"}, {"answered"})
  <2>1. req[a].at = "logClose" /\ Reply(a, req[a].session, req[a].day, "closed")
    BY <1>5 DEF LogClose, IsAt
  <2> QED
    BY <2>1, MovesByReply, FieldsOfRequest
<1> QED
  BY <1>1, <1>2, <1>3, <1>4, <1>5

LEMMA MoveBeginResolve ==
  ASSUME Forms, NEW a \in Agents, BeginResolve(a) PROVE Moves(a, {"idle"}, {"decide"})
<1>1. PICK s, d, map :
        s \in alive /\ d \in Days /\ Set(a, [at |-> "decide", session |-> s, day |-> d, map |-> map])
  BY DEF BeginResolve
<1> DEFINE r == [at |-> "decide", session |-> s, day |-> d, map |-> map]
<1>2. r.at = "decide" /\ req[a].at = "idle"
  BY DEF BeginResolve, IsAt
<1>3. RequestOk(r)
  BY <1>1 DEF RequestOk, Shape, Idle, Applying, Forms
<1> HIDE DEF r
<1>4. Set(a, r)
  BY <1>1 DEF r
<1> QED
  BY <1>2, <1>3, <1>4, MovesBySet DEF Applying

(* An answer that is taken up was shown: a line without a trade, a leg left *)
(* over.                                                                    *)
TakenUp(a, answer) ==
  /\ answer.action = "insert" => answer.on.on \notin Booked
  /\ \A k \in Leg : answer = Voiding(k) => k \in Surplus

LEMMA MoveDecide ==
  ASSUME Forms, NEW a \in Agents, Decide(a)
  PROVE  \/ Moves(a, {"decide"}, {"answered"}) /\ overlapped' = overlapped
         \/ /\ Moves(a, {"decide"}, {"apply"}) /\ TakenUp(a, req'[a].answer)
            /\ overlapped' = overlapped \cup {l \in InHand(a) : req'[a].answer = Inserting(l)}
<1>1. req[a].at = "decide" /\ req[a].session \in Sessions /\ req[a].day \in Days
  BY FieldsOfRequest DEF Decide, IsAt
<1>2. CASE \E q : Reply(a, req[a].session, req[a].day, q) /\ overlapped' = overlapped
  BY <1>1, <1>2, MovesByReply
<1>3. CASE ~ \E q : Reply(a, req[a].session, req[a].day, q) /\ overlapped' = overlapped
  <2>1. PICK decision \in Pending(req[a].session, req[a].day) : \E action \in Allowed(decision) :
          /\ Set(a, [at |-> "apply", session |-> req[a].session, day |-> req[a].day,
                     map |-> req[a].map, answer |-> [on |-> decision, action |-> action]])
          /\ overlapped' = overlapped \cup
               {l \in InHand(a) : [on |-> decision, action |-> action] = Inserting(l)}
    BY <1>3 DEF Decide
  <2>2. PICK action \in Allowed(decision) :
          /\ Set(a, [at |-> "apply", session |-> req[a].session, day |-> req[a].day,
                     map |-> req[a].map, answer |-> [on |-> decision, action |-> action]])
          /\ overlapped' = overlapped \cup
               {l \in InHand(a) : [on |-> decision, action |-> action] = Inserting(l)}
    BY <2>1
  <2> DEFINE answer == [on |-> decision, action |-> action]
             r == [at |-> "apply", session |-> req[a].session, day |-> req[a].day,
                   map |-> req[a].map, answer |-> answer]
  <2>3. Asked(answer) /\ (decision.kind \in {"file_only", "ledger_only"} =>
                             decision \in Preview(req[a].day))
    BY <1>1, AskedIsShown
  <2>4. TakenUp(a, answer)
    <3>1. ASSUME answer.action = "insert" PROVE answer.on.on \notin Booked
      <4>1. PICK l \in FileLines : answer = Inserting(l)
        BY <2>3, <3>1 DEF Asked
      <4>2. decision = [kind |-> "file_only", on |-> l]
        BY <4>1 DEF Inserting
      <4>3. decision \in Preview(req[a].day)
        BY <2>3, <4>2
      <4> QED
        BY <4>2, <4>3 DEF Preview, On, LeftOver
    <3>2. ASSUME NEW k \in Leg, answer = Voiding(k) PROVE k \in Surplus
      <4>1. decision = LeftOver(k) /\ decision.kind = "ledger_only"
        BY <3>2 DEF Voiding, LeftOver
      <4>2. decision \in Preview(req[a].day)
        BY <2>3, <4>1
      <4>3. PICK j \in Surplus : decision = LeftOver(j)
        BY <4>1, <4>2 DEF Preview
      <4>4. j \in Leg
        BY <4>3 DEF Surplus, Forms, BooksOk
      <4> QED
        BY <4>1, <4>3, <4>4 DEF LeftOver, Leg
    <3> QED
      BY <3>1, <3>2 DEF TakenUp
  <2>5. RequestOk(r) /\ r.at = "apply" /\ r.answer = answer
    BY <1>1, <2>3 DEF RequestOk, Shape, Idle, Applying
  <2>6. overlapped' = overlapped \cup {l \in InHand(a) : answer = Inserting(l)}
    BY <2>2
  <2>7. Set(a, r)
    BY <2>2
  <2> HIDE DEF answer, r
  <2>8. Moves(a, {"decide"}, {"apply"}) /\ req'[a] = r
    BY <1>1, <2>5, <2>7, MovesBySet DEF Applying
  <2> QED
    BY <2>4, <2>5, <2>6, <2>8
<1> QED
  BY <1>2, <1>3

LEMMA MoveInsert ==
  ASSUME Forms, NEW a \in Agents
  PROVE  /\ ReadIndex(a) => Moves(a, {"apply"}, {"look"})
         /\ Skip(a) => Moves(a, {"look"}, {"mark"})
         /\ LookUp(a) => Moves(a, {"look"}, {"book"})
         /\ Book(a) => Moves(a, {"book"}, {"expect"})
         /\ FinishInsert(a) => Moves(a, {"expect"}, {"mark"})
<1>1. ASSUME ReadIndex(a) PROVE Moves(a, {"apply"}, {"look"})
  <2> DEFINE r == [at |-> "look", session |-> req[a].session, day |-> req[a].day,
                   map |-> req[a].map, answer |-> req[a].answer, index |-> Booked]
  <2>1. /\ r.at = "look" /\ r.answer = req[a].answer
        /\ req[a].at = "apply" /\ req[a].answer.action = "insert"
    BY <1>1 DEF ReadIndex, IsAt
  <2>2. RequestOk(r)
    BY <2>1, FieldsOfRequest DEF RequestOk, Shape, Idle, Applying, Forms
  <2> HIDE DEF r
  <2>3. Set(a, r)
    BY <1>1 DEF ReadIndex, r
  <2> QED
    BY <2>1, <2>2, <2>3, MovesBySet DEF Applying
<1>2. ASSUME Skip(a) PROVE Moves(a, {"look"}, {"mark"})
  BY <1>2, MovesOn DEF Skip, IsAt, Applying
<1>3. ASSUME LookUp(a) PROVE Moves(a, {"look"}, {"book"})
  BY <1>3, MovesOn DEF LookUp, IsAt, Applying, Forms, RequestOk
<1>4. ASSUME Book(a) PROVE Moves(a, {"book"}, {"expect"})
  BY <1>4, MovesOn DEF Book, IsAt, Applying, Forms, RequestOk
<1>5. ASSUME FinishInsert(a) PROVE Moves(a, {"expect"}, {"mark"})
  BY <1>5, MovesOn DEF FinishInsert, IsAt, Applying
<1> QED
  BY <1>1, <1>2, <1>3, <1>4, <1>5

LEMMA MoveVoid ==
  ASSUME Forms, NEW a \in Agents
  PROVE  /\ VoidTrade(a) \/ VoidOrphan(a) \/ ApplyNothing(a) => Moves(a, {"apply"}, {"mark"})
         /\ VoidFails(a) => Moves(a, {"apply"}, {"answered"})
<1>1. ASSUME VoidTrade(a) \/ VoidOrphan(a) \/ ApplyNothing(a) PROVE Moves(a, {"apply"}, {"mark"})
  <2>1. req[a].at = "apply" /\ Set(a, At(a, "mark"))
    BY <1>1 DEF VoidTrade, VoidOrphan, ApplyNothing, IsAt
  <2> QED
    BY <2>1, MovesOn DEF Applying
<1>2. ASSUME VoidFails(a) PROVE Moves(a, {"apply"}, {"answered"})
  <2>1. req[a].at = "apply" /\ Reply(a, req[a].session, req[a].day, "error")
    BY <1>2 DEF VoidFails, IsAt
  <2> QED
    BY <2>1, MovesByReply, FieldsOfRequest
<1> QED
  BY <1>1, <1>2

LEMMA MoveEnd ==
  ASSUME Forms, NEW a \in Agents
  PROVE  /\ MarkAndLog(a) => Moves(a, {"mark"}, {"answered"})
         /\ Throws(a) => Moves(a, {"read", "write", "logClose"} \cup Applying, {"answered"})
         /\ Respond(a) => Moves(a, {"answered"}, {"idle"})
<1>1. ASSUME MarkAndLog(a) PROVE Moves(a, {"mark"}, {"answered"})
  <2>1. req[a].at = "mark" /\ Reply(a, req[a].session, req[a].day, "resolved")
    BY <1>1 DEF MarkAndLog, IsAt
  <2> QED
    BY <2>1, MovesByReply, FieldsOfRequest
<1>2. ASSUME Throws(a)
      PROVE  Moves(a, {"read", "write", "logClose"} \cup Applying, {"answered"})
  <2>1. /\ req[a].at \in {"read", "write", "logClose"} \cup Applying
        /\ Reply(a, req[a].session, req[a].day, "error")
    BY <1>2 DEF Throws
  <2>2. req[a].at # "idle"
    BY <2>1 DEF Applying
  <2> QED
    BY <2>1, <2>2, MovesByReply, FieldsOfRequest
<1>3. ASSUME Respond(a) PROVE Moves(a, {"answered"}, {"idle"})
  <2>1. RequestOk(Idle) /\ Idle.at = "idle"
    BY DEF RequestOk, Shape, Idle, Applying
  <2> QED
    BY <1>3, <2>1, MovesBySet DEF Respond, IsAt, Applying
<1> QED
  BY <1>1, <1>2, <1>3

-----------------------------------------------------------------------------
(* Which parts of the state a step leaves alone.                            *)
Quiet(a) ==
  \/ BeginClose(a) \/ Materialize(a) \/ MaterializeFails(a) \/ ReadProgress(a)
  \/ WriteProgress(a) \/ LogClose(a) \/ BeginResolve(a) \/ Decide(a)
  \/ ReadIndex(a) \/ Skip(a) \/ LookUp(a) \/ VoidFails(a) \/ ApplyNothing(a)
  \/ MarkAndLog(a) \/ Respond(a)

Writes(a) == Book(a) \/ FinishInsert(a) \/ VoidTrade(a) \/ VoidOrphan(a) \/ Throws(a)

LEMMA Steps ==
  ASSUME [Next]_vars
  PROVE  \/ \E s \in Sessions : StartSession(s) \/ CompletePhase(s)
         \/ \E a \in Agents : Quiet(a) \/ Writes(a)
         \/ Edit \/ Restart \/ UNCHANGED vars
BY DEF Next, Quiet, Writes

LEMMA QuietBooks == ASSUME NEW a, Quiet(a) PROVE UNCHANGED books
BY DEF Quiet, BeginClose, Materialize, MaterializeFails, ReadProgress, WriteProgress, LogClose,
   BeginResolve, Decide, ReadIndex, Skip, LookUp, VoidFails, ApplyNothing, MarkAndLog, Respond

LEMMA AgentMoves ==
  ASSUME Forms, NEW a \in Agents, Quiet(a) \/ Writes(a)
  PROVE  \E from, to : Moves(a, from, to)
BY MoveBeginClose, MoveClose, MoveBeginResolve, MoveDecide, MoveInsert, MoveVoid, MoveEnd
   DEF Quiet, Writes

(* What is in hand to be entered is a line of the notes.                    *)
LEMMA InsertTarget ==
  ASSUME Forms, NEW a \in Agents, req[a].at \in {"look", "book", "expect"}
  PROVE  Target(a) \in FileLines /\ req[a].answer = Inserting(Target(a))
<1>1. PICK l \in FileLines : req[a].answer = Inserting(l)
  BY DEF Forms, RequestOk, Asked, Applying
<1> QED
  BY <1>1 DEF Target, Inserting

LEMMA VoidTarget ==
  ASSUME Forms, NEW a \in Agents, VoidTrade(a)
  PROVE  \E k \in Leg : /\ req[a].answer = Voiding(k) /\ k \in book
                        /\ book' = book \ {k} /\ UNCHANGED issued
<1>1. PICK k \in Leg : req[a].answer = Voiding(k)
  BY DEF VoidTrade, IsAt, Forms, RequestOk, Asked, Applying
<1>2. <<Target(a), req[a].answer.on.leg>> = k
  BY <1>1 DEF Target, Voiding, LeftOver, Leg
<1> QED
  BY <1>1, <1>2 DEF VoidTrade, CustodyRowOf, Target

LEMMA BreakOffBooks ==
  ASSUME Forms, NEW agents \in SUBSET Agents, BreakOff(agents) PROVE BooksOk'
<1>1. ASSUME NEW a \in agents PROVE Half(a) \subseteq [kind : HalfKinds, on : Lines]
  <2>1. CASE req[a].at = "book"
    BY <2>1, InsertTarget DEF Half, IsAt, HalfKinds, Lines
  <2>2. CASE req[a].at = "expect"
    BY <2>2, InsertTarget DEF Half, IsAt, HalfKinds, Lines
  <2>3. CASE req[a].at \notin {"book", "expect"}
    BY <2>3 DEF Half, IsAt
  <2> QED
    BY <2>1, <2>2, <2>3
<1>2. flaws' \subseteq flaws \cup UNION {Half(a) : a \in agents} /\ UNCHANGED <<book, issued>>
  BY DEF BreakOff
<1> QED
  BY <1>1, <1>2 DEF Forms, BooksOk

LEMMA BooksStep == ASSUME Forms, [Next]_vars PROVE BooksOk'
<1>1. CASE UNCHANGED books
  BY <1>1 DEF books, Forms, BooksOk
<1>2. ASSUME NEW a \in Agents, Writes(a) PROVE BooksOk'
  <2>1. CASE Book(a)
    <3>1. Target(a) \in Lines
      BY <2>1, InsertTarget DEF Book, IsAt, Lines
    <3>2. NextLeg(Target(a)) \in Leg /\ issued' \in [Lines -> Nat]
      BY <2>1, <3>1 DEF Book, NextLeg, Leg, Forms, BooksOk
    <3> QED
      BY <2>1, <3>2 DEF Book, Forms, BooksOk
  <2>2. CASE FinishInsert(a)
    BY <2>2 DEF FinishInsert, Forms, BooksOk
  <2>3. CASE VoidTrade(a)
    BY <2>3 DEF VoidTrade, Forms, BooksOk
  <2>4. CASE VoidOrphan(a)
    BY <2>4 DEF VoidOrphan, Forms, BooksOk
  <2>5. CASE Throws(a)
    BY <2>5, BreakOffBooks DEF Throws
  <2> QED
    BY <1>2, <2>1, <2>2, <2>3, <2>4, <2>5 DEF Writes
<1>3. CASE Edit
  <2>1. CASE \E l \in Lines \ Booked :
               book' = book \cup {NextLeg(l)} /\ issued' = [issued EXCEPT ![l] = @ + 1]
    <3>1. PICK l \in Lines : book' = book \cup {NextLeg(l)} /\ issued' = [issued EXCEPT ![l] = @ + 1]
      BY <2>1
    <3>2. NextLeg(l) \in Leg /\ issued' \in [Lines -> Nat] /\ UNCHANGED flaws
      BY <1>3, <3>1 DEF Edit, NextLeg, Leg, Forms, BooksOk
    <3> QED
      BY <3>1, <3>2 DEF Forms, BooksOk
  <2>2. CASE \E k \in book : book' = book \ {k} /\ UNCHANGED issued
    BY <1>3, <2>2 DEF Edit, Forms, BooksOk
  <2> QED
    BY <1>3, <2>1, <2>2 DEF Edit
<1>4. CASE Restart
  BY <1>4, BreakOffBooks DEF Restart
<1>5. ASSUME NEW s \in Sessions, StartSession(s) \/ CompletePhase(s) PROVE UNCHANGED books
  BY <1>5 DEF StartSession, CompletePhase
<1> QED
  BY <1>1, <1>2, <1>3, <1>4, <1>5, Steps, QuietBooks DEF vars

LEMMA SpendOk ==
  ASSUME Forms, NEW what \in {"answers", "edits", "failures", "restarts"}, NEW max, Spend(what, max)
  PROVE  SpentOk(spent') /\ spent'[what] > 0 /\ spent.edits <= spent'.edits
<1>1. PICK n \in Nat, e \in Nat, f \in Nat, g \in Nat :
        spent = [answers |-> n, edits |-> e, failures |-> f, restarts |-> g]
  BY DEF Forms, SpentOk
<1>2. spent' = [spent EXCEPT ![what] = @ + 1]
  BY DEF Spend
<1>3. CASE what = "answers"
  <2>1. spent' = [answers |-> n + 1, edits |-> e, failures |-> f, restarts |-> g]
    BY <1>1, <1>2, <1>3
  <2> QED
    BY <1>1, <1>3, <2>1 DEF SpentOk
<1>4. CASE what = "edits"
  <2>1. spent' = [answers |-> n, edits |-> e + 1, failures |-> f, restarts |-> g]
    BY <1>1, <1>2, <1>4
  <2> QED
    BY <1>1, <1>4, <2>1 DEF SpentOk
<1>5. CASE what = "failures"
  <2>1. spent' = [answers |-> n, edits |-> e, failures |-> f + 1, restarts |-> g]
    BY <1>1, <1>2, <1>5
  <2> QED
    BY <1>1, <1>5, <2>1 DEF SpentOk
<1>6. CASE what = "restarts"
  <2>1. spent' = [answers |-> n, edits |-> e, failures |-> f, restarts |-> g + 1]
    BY <1>1, <1>2, <1>6
  <2> QED
    BY <1>1, <1>6, <2>1 DEF SpentOk
<1> QED
  BY <1>3, <1>4, <1>5, <1>6

LEMMA SpentStep == ASSUME Forms, [Next]_vars PROVE SpentOk(spent') /\ spent.edits <= spent'.edits
<1>1. CASE UNCHANGED spent
  BY <1>1 DEF Forms, SpentOk
<1>2. CASE \E what \in {"answers", "edits", "failures", "restarts"} : \E max : Spend(what, max)
  BY <1>2, SpendOk
<1>3. ASSUME NEW a \in Agents, Quiet(a) \/ Writes(a)
      PROVE  UNCHANGED spent \/ \E what \in {"answers", "failures"} : \E max : Spend(what, max)
  BY <1>3 DEF Quiet, Writes, BeginClose, Materialize, MaterializeFails, ReadProgress, WriteProgress,
     LogClose, BeginResolve, Decide, ReadIndex, Skip, LookUp, Book, FinishInsert, VoidTrade,
     VoidOrphan, VoidFails, ApplyNothing, MarkAndLog, Throws, Respond
<1>4. ASSUME NEW s \in Sessions, StartSession(s) \/ CompletePhase(s) PROVE UNCHANGED spent
  BY <1>4 DEF StartSession, CompletePhase
<1> QED
  BY <1>1, <1>2, <1>3, <1>4, Steps DEF Edit, Restart, vars

(* The days and the horizon of a row are written by the end of a close.     *)
LEMMA WrittenByClose ==
  ASSUME Forms, [Next]_vars,
         \E s \in Sessions : row'[s].closed # row[s].closed \/ row'[s].horizon # row[s].horizon
  PROVE  \E a \in Agents : WriteProgress(a)
<1>1. ASSUME NEW t \in Sessions, StartSession(t) \/ CompletePhase(t)
      PROVE  \A s \in Sessions : row'[s].closed = row[s].closed /\ row'[s].horizon = row[s].horizon
  BY <1>1 DEF StartSession, CompletePhase, Forms, RowsOk
<1>2. CASE UNCHANGED row
  BY <1>2
<1>3. ASSUME NEW a \in Agents, Quiet(a) \/ Writes(a) PROVE UNCHANGED row \/ WriteProgress(a)
  BY <1>3 DEF Quiet, Writes, BeginClose, Materialize, MaterializeFails, ReadProgress,
     LogClose, BeginResolve, Decide, ReadIndex, Skip, LookUp, Book, FinishInsert, VoidTrade,
     VoidOrphan, VoidFails, ApplyNothing, MarkAndLog, Throws, Respond
<1> QED
  BY <1>1, <1>2, <1>3, Steps DEF Edit, Restart, vars

LEMMA RowsStep == ASSUME Forms, [Next]_vars PROVE RowsOk' /\ alive' \subseteq Sessions
<1>1. ASSUME UNCHANGED row PROVE RowsOk'
  BY <1>1 DEF Forms, RowsOk
<1>2. ASSUME NEW s \in Sessions, StartSession(s) \/ CompletePhase(s) PROVE RowsOk'
  <2>1. row' \in {[row EXCEPT ![s].status = "in_progress"], [row EXCEPT ![s].status = "notes_complete"]}
    BY <1>2 DEF StartSession, CompletePhase
  <2>2. row' = [t \in Sessions |-> row'[t]]
    BY <2>1 DEF Forms, RowsOk
  <2>3. ASSUME NEW t \in Sessions
        PROVE  row'[t] = [status |-> row'[t].status, horizon |-> row'[t].horizon,
                          closed |-> row'[t].closed]
    <3>1. row[t] = [status |-> row[t].status, horizon |-> row[t].horizon, closed |-> row[t].closed]
      BY DEF Forms, RowsOk
    <3> QED
      BY <2>1, <3>1 DEF Forms, RowsOk
  <2> QED
    BY <2>2, <2>3 DEF RowsOk
<1>3. ASSUME NEW a \in Agents, WriteProgress(a) PROVE RowsOk'
  <2>1. row' = [row EXCEPT ![req[a].session].horizon = req[a].day,
                           ![req[a].session].closed = req[a].seen \cup {req[a].day}]
    BY <1>3 DEF WriteProgress
  <2>2. row' = [t \in Sessions |-> row'[t]]
    BY <2>1 DEF Forms, RowsOk
  <2>3. ASSUME NEW t \in Sessions
        PROVE  row'[t] = [status |-> row'[t].status, horizon |-> row'[t].horizon,
                          closed |-> row'[t].closed]
    <3>1. row[t] = [status |-> row[t].status, horizon |-> row[t].horizon, closed |-> row[t].closed]
      BY DEF Forms, RowsOk
    <3>2. CASE t # req[a].session
      BY <2>1, <3>1, <3>2 DEF Forms, RowsOk
    <3>3. CASE t = req[a].session
      <4>1. row'[t] = [status |-> row[t].status, horizon |-> req[a].day,
                       closed |-> req[a].seen \cup {req[a].day}]
        BY <2>1, <3>1, <3>3 DEF Forms, RowsOk
      <4> QED
        BY <4>1
    <3> QED
      BY <3>2, <3>3
  <2> QED
    BY <2>2, <2>3 DEF RowsOk
<1>4. ASSUME NEW a \in Agents, Quiet(a) \/ Writes(a)
      PROVE  (UNCHANGED row \/ WriteProgress(a)) /\ UNCHANGED alive
  BY <1>4 DEF Quiet, Writes, BeginClose, Materialize, MaterializeFails, ReadProgress, WriteProgress,
     LogClose, BeginResolve, Decide, ReadIndex, Skip, LookUp, Book, FinishInsert, VoidTrade,
     VoidOrphan, VoidFails, ApplyNothing, MarkAndLog, Throws, Respond, memory
<1>5. alive' \subseteq Sessions
  BY <1>4, Steps DEF StartSession, CompletePhase, Edit, Restart, vars, memory, Forms
<1>6. ASSUME NEW a \in Agents, Quiet(a) \/ Writes(a) PROVE RowsOk'
  BY <1>1, <1>3, <1>4, <1>6
<1>7. ASSUME Edit \/ Restart \/ UNCHANGED vars PROVE RowsOk'
  BY <1>1, <1>7 DEF Edit, Restart, vars
<1>8. RowsOk'
  BY <1>2, <1>6, <1>7, Steps
<1> QED
  BY <1>5, <1>8

LEMMA FormsStep == ASSUME Forms, [Next]_vars PROVE Forms'
<1>1. /\ req' = [b \in Agents |-> req'[b]]
      /\ \A b \in Agents : RequestOk(req'[b])
  <2>1. CASE UNCHANGED req
    BY <2>1 DEF Forms
  <2>2. ASSUME NEW a \in Agents, Quiet(a) \/ Writes(a)
        PROVE  req' = [b \in Agents |-> req'[b]] /\ \A b \in Agents : RequestOk(req'[b])
    BY <2>2, AgentMoves DEF Moves, Forms
  <2>3. CASE Restart
    BY <2>3 DEF Restart, RequestOk, Shape, Idle, Applying
  <2> QED
    BY <2>1, <2>2, <2>3, Steps DEF StartSession, CompletePhase, Edit, vars
<1> QED
  BY <1>1, BooksStep, RowsStep, SpentStep DEF Forms

LEMMA FormsHold == Spec => []Forms
<1>1. Init => Forms
  <2> SUFFICES ASSUME Init PROVE Forms
    OBVIOUS
  <2>1. BooksOk
    BY DEF Init, BooksOk, Leg, Lines
  <2>2. RowsOk /\ SpentOk(spent) /\ alive \subseteq Sessions
    BY DEF Init, RowsOk, SpentOk
  <2>3. req = [a \in Agents |-> req[a]] /\ \A a \in Agents : RequestOk(req[a])
    BY DEF Init, RequestOk, Shape, Idle, Applying
  <2> QED
    BY <2>1, <2>2, <2>3 DEF Forms
<1>2. Forms /\ [Next]_vars => Forms'
  BY FormsStep
<1> QED
  BY <1>1, <1>2, PTL DEF Spec

-----------------------------------------------------------------------------
(* The lines a request has in hand to insert, one by one: unless two have   *)
(* had it at once, it has one leg at most, and none while it is in hand.    *)
HasInHand(a, l) == req[a].at \in {"apply", "look", "book"} /\ req[a].answer = Inserting(l)

SoleInv ==
  \A l \in FileLines \ overlapped :
    /\ \A a, b \in Agents : HasInHand(a, l) /\ HasInHand(b, l) => a = b
    /\ \A a \in Agents : HasInHand(a, l) => l \notin Booked
    /\ \A j, k \in book : j[1] = l /\ k[1] = l => j = k

(* A leg of a line of the notes is only voided while an earlier one stays.  *)
VoidInv ==
  \A a \in Agents : \A l \in FileLines : \A n \in Nat :
    req[a].at = "apply" /\ req[a].answer = Voiding(<<l, n>>) =>
      \E m \in Nat : m < n /\ <<l, m>> \in book

(* Nothing enters or leaves the book but by the steps that say so.          *)
LEMMA BookMoves ==
  ASSUME Forms, [Next]_vars, MaxEdits = 0
  PROVE  \/ UNCHANGED <<book, issued>>
         \/ \E a \in Agents : Book(a) \/ VoidTrade(a)
<1>1. ASSUME NEW a \in Agents, Quiet(a) \/ Writes(a)
      PROVE  UNCHANGED <<book, issued>> \/ Book(a) \/ VoidTrade(a)
  <2>1. CASE Quiet(a)
    BY <2>1, QuietBooks DEF books
  <2>2. CASE Writes(a)
    BY <2>2 DEF Writes, FinishInsert, VoidOrphan, Throws, BreakOff
  <2> QED
    BY <1>1, <2>1, <2>2
<1>2. ~Edit
  BY DEF Edit, Spend, Forms, SpentOk
<1>3. CASE Restart \/ UNCHANGED vars \/ \E s \in Sessions : StartSession(s) \/ CompletePhase(s)
  BY <1>3 DEF Restart, BreakOff, vars, books, StartSession, CompletePhase
<1> QED
  BY <1>1, <1>2, <1>3, Steps

LEMMA BookedLeg ==
  ASSUME Forms, NEW a \in Agents, Book(a)
  PROVE  \E l \in FileLines :
           /\ HasInHand(a, l) /\ book' = book \cup {NextLeg(l)} /\ NextLeg(l) \in Leg
           /\ issued' = [issued EXCEPT ![l] = @ + 1]
<1>1. Target(a) \in FileLines /\ req[a].answer = Inserting(Target(a))
  BY InsertTarget DEF Book, IsAt
<1>2. NextLeg(Target(a)) \in Leg
  BY <1>1 DEF NextLeg, Leg, Lines, Forms, BooksOk
<1> QED
  BY <1>1, <1>2 DEF Book, IsAt, HasInHand

(* A step that is not a decision to insert leaves in hand what was.         *)
LEMMA HandMoves ==
  ASSUME Forms, [Next]_vars, NEW b \in Agents, NEW l \in FileLines, HasInHand(b, l)'
  PROVE  /\ HasInHand(b, l) \/
              /\ Decide(b) /\ l \notin Booked /\ UNCHANGED <<book, issued>>
              /\ \A a \in Agents \ {b} : HasInHand(a, l) => l \in overlapped'
              /\ \A a \in Agents \ {b} : HasInHand(a, l)' => HasInHand(a, l)
         /\ ~Book(b)
<1>1. CASE UNCHANGED req
  <2>1. HasInHand(b, l)
    BY <1>1 DEF HasInHand
  <2>2. ~Book(b)
    <3> SUFFICES ASSUME Book(b) PROVE FALSE
      OBVIOUS
    <3>1. Moves(b, {"book"}, {"expect"})
      BY MoveInsert
    <3> QED
      BY <1>1, <3>1 DEF Moves
  <2> QED
    BY <2>1, <2>2
<1>2. CASE Restart
  BY <1>2 DEF Restart, HasInHand, Idle
<1>3. ASSUME NEW a \in Agents, Quiet(a) \/ Writes(a), a # b
      PROVE  HasInHand(b, l) /\ ~Book(b)
  <2>1. PICK from, to : Moves(a, from, to)
    BY <1>3, AgentMoves
  <2>2. req'[b] = req[b]
    BY <1>3, <2>1 DEF Moves
  <2>3. ~Book(b)
    <3> SUFFICES ASSUME Book(b) PROVE FALSE
      OBVIOUS
    <3>1. Moves(b, {"book"}, {"expect"})
      BY MoveInsert
    <3> QED
      BY <2>2, <3>1 DEF Moves
  <2> QED
    BY <2>2, <2>3 DEF HasInHand
<1>4. ASSUME Quiet(b) \/ Writes(b), ~Decide(b) PROVE HasInHand(b, l) /\ ~Book(b)
  <2>1. PICK from, to : /\ Moves(b, from, to)
                        /\ \/ from \subseteq {"apply", "look"} /\ to \subseteq {"look", "book"}
                           \/ to \cap {"apply", "look", "book"} = {}
    BY <1>4, MoveBeginClose, MoveClose, MoveBeginResolve, MoveInsert, MoveVoid, MoveEnd
       DEF Quiet, Writes, Applying
  <2>2. /\ req'[b].at \in {"look", "book"} /\ req[b].at \in {"apply", "look"}
        /\ req'[b].answer = req[b].answer
    BY <2>1 DEF Moves, HasInHand, Applying
  <2> QED
    BY <2>2 DEF HasInHand, Book, IsAt
<1>5. ASSUME Decide(b)
      PROVE  /\ l \notin Booked /\ UNCHANGED <<book, issued>>
             /\ \A a \in Agents \ {b} : HasInHand(a, l) => l \in overlapped'
             /\ \A a \in Agents \ {b} : HasInHand(a, l)' => HasInHand(a, l)
             /\ ~Book(b)
  <2>1. /\ Moves(b, {"decide"}, {"apply"}) /\ TakenUp(b, req'[b].answer)
        /\ overlapped' = overlapped \cup {k \in InHand(b) : req'[b].answer = Inserting(k)}
    BY <1>5, MoveDecide DEF Moves, HasInHand
  <2>2. req'[b].answer = Inserting(l)
    BY DEF HasInHand
  <2>3. l \notin Booked
    BY <2>1, <2>2 DEF TakenUp, Inserting
  <2>4. ASSUME NEW a \in Agents \ {b}, HasInHand(a, l) PROVE l \in overlapped'
    <3>1. l \in InHand(b)
      BY <2>4 DEF InHand, HasInHand, Inserting
    <3> QED
      BY <2>1, <2>2, <3>1
  <2>5. \A a \in Agents \ {b} : req'[a] = req[a]
    BY <2>1 DEF Moves
  <2>6. UNCHANGED <<book, issued>>
    BY <1>5 DEF Decide, books
  <2>7. ~Book(b)
    BY <1>5 DEF Decide, Book, IsAt
  <2> QED
    BY <2>3, <2>4, <2>5, <2>6, <2>7 DEF HasInHand
<1> QED
  BY <1>1, <1>2, <1>3, <1>4, <1>5, Steps DEF StartSession, CompletePhase, Edit, vars

LEMMA HistoriesGrow ==
  ASSUME Forms, [Next]_vars
  PROVE  overlapped \subseteq overlapped' /\ broken \subseteq broken' /\ log \subseteq log'
<1>1. ASSUME NEW a \in Agents, Quiet(a), ~Decide(a)
      PROVE  overlapped' = overlapped /\ broken' = broken /\ log \subseteq log'
  BY <1>1 DEF Quiet, BeginClose, Materialize, MaterializeFails, ReadProgress, WriteProgress,
     LogClose, BeginResolve, ReadIndex, Skip, LookUp, VoidFails, ApplyNothing, MarkAndLog, Respond,
     history
<1>2. ASSUME NEW a \in Agents, Decide(a)
      PROVE  overlapped \subseteq overlapped' /\ broken' = broken /\ log' = log
  BY <1>2, MoveDecide DEF Decide
<1>3. ASSUME NEW a \in Agents, Writes(a)
      PROVE  overlapped' = overlapped /\ broken \subseteq broken' /\ log' = log
  BY <1>3 DEF Writes, Book, FinishInsert, VoidTrade, VoidOrphan, Throws, BreakOff, history
<1>4. CASE \/ Edit \/ Restart \/ UNCHANGED vars
           \/ \E s \in Sessions : StartSession(s) \/ CompletePhase(s)
  BY <1>4 DEF Edit, Restart, BreakOff, StartSession, CompletePhase, vars, history
<1> QED
  BY <1>1, <1>2, <1>3, <1>4, Steps

LEMMA SoleStep == ASSUME Forms, SoleInv, [Next]_vars, MaxEdits = 0 PROVE SoleInv'
<1> SUFFICES ASSUME NEW l \in FileLines, l \notin overlapped'
             PROVE  /\ \A a, b \in Agents : HasInHand(a, l)' /\ HasInHand(b, l)' => a = b
                    /\ \A a \in Agents : HasInHand(a, l)' => l \notin Booked'
                    /\ \A j, k \in book' : j[1] = l /\ k[1] = l => j = k
  BY DEF SoleInv
<1>1. l \notin overlapped
  BY HistoriesGrow
<1>2. ASSUME NEW a \in Agents, NEW b \in Agents, HasInHand(a, l)', HasInHand(b, l)' PROVE a = b
  BY <1>1, <1>2, HandMoves DEF SoleInv
<1>3. ASSUME NEW a \in Agents, HasInHand(a, l)' PROVE l \notin Booked'
  <2>1. CASE UNCHANGED <<book, issued>>
    BY <1>1, <1>3, <2>1, HandMoves DEF SoleInv, Booked
  <2>2. ASSUME NEW c \in Agents, Book(c) PROVE l \notin Booked'
    <3>1. PICK m \in FileLines : HasInHand(c, m) /\ book' = book \cup {NextLeg(m)}
      BY <2>2, BookedLeg
    <3>2. m # l /\ l \notin Booked
      BY <1>1, <1>3, <2>2, <3>1, HandMoves DEF SoleInv
    <3> QED
      BY <3>1, <3>2 DEF Booked, NextLeg
  <2>3. ASSUME NEW c \in Agents, VoidTrade(c) PROVE l \notin Booked'
    <3>1. book' \subseteq book
      BY <2>3, VoidTarget
    <3>2. l \notin Booked
      BY <1>1, <1>3, HandMoves DEF SoleInv
    <3> QED
      BY <3>1, <3>2 DEF Booked
  <2> QED
    BY <2>1, <2>2, <2>3, BookMoves
<1>4. ASSUME NEW j \in book', NEW k \in book', j[1] = l, k[1] = l PROVE j = k
  <2>1. CASE book' \subseteq book
    BY <1>1, <1>4, <2>1 DEF SoleInv
  <2>2. ASSUME NEW c \in Agents, Book(c) PROVE j = k
    <3>1. PICK m \in FileLines : HasInHand(c, m) /\ book' = book \cup {NextLeg(m)}
      BY <2>2, BookedLeg
    <3>2. CASE m = l
      <4>1. l \notin Booked
        BY <1>1, <3>1, <3>2 DEF SoleInv
      <4> QED
        BY <1>4, <3>1, <3>2, <4>1 DEF Booked
    <3>3. CASE m # l
      BY <1>1, <1>4, <3>1, <3>3 DEF SoleInv, NextLeg
    <3> QED
      BY <3>2, <3>3
  <2> QED
    BY <2>1, <2>2, BookMoves, VoidTarget
<1> QED
  BY <1>2, <1>3, <1>4

(* What is to be voided as a trade was in hand before, or was just shown.   *)
LEMMA ApplyMoves ==
  ASSUME Forms, [Next]_vars, NEW b \in Agents, req'[b].at = "apply"
  PROVE  \/ req[b].at = "apply" /\ req'[b].answer = req[b].answer
         \/ Decide(b) /\ TakenUp(b, req'[b].answer) /\ UNCHANGED <<book, issued>>
<1>1. CASE UNCHANGED req
  BY <1>1
<1>2. CASE Restart
  BY <1>2 DEF Restart, Idle
<1>3. ASSUME NEW a \in Agents, Quiet(a) \/ Writes(a), a # b PROVE req'[b] = req[b]
  BY <1>3, AgentMoves DEF Moves
<1>4. ASSUME Quiet(b) \/ Writes(b), ~Decide(b) PROVE FALSE
  <2>1. PICK from, to : Moves(b, from, to) /\ "apply" \notin to
    BY <1>4, MoveBeginClose, MoveClose, MoveBeginResolve, MoveInsert, MoveVoid, MoveEnd
       DEF Quiet, Writes
  <2> QED
    BY <2>1 DEF Moves
<1>5. CASE Decide(b)
  BY <1>5, MoveDecide DEF Moves, Decide, books
<1> QED
  BY <1>1, <1>2, <1>3, <1>4, <1>5, Steps DEF StartSession, CompletePhase, Edit, vars

LEMMA VoidStep == ASSUME Forms, VoidInv, [Next]_vars, MaxEdits = 0 PROVE VoidInv'
<1> SUFFICES ASSUME NEW a \in Agents, NEW l \in FileLines, NEW n \in Nat,
                    req'[a].at = "apply", req'[a].answer = Voiding(<<l, n>>)
             PROVE  \E m \in Nat : m < n /\ <<l, m>> \in book'
  BY DEF VoidInv
<1>1. PICK m \in Nat : m < n /\ <<l, m>> \in book
  <2>1. CASE req[a].at = "apply" /\ req'[a].answer = req[a].answer
    BY <2>1 DEF VoidInv
  <2>2. CASE TakenUp(a, req'[a].answer)
    <3>1. <<l, n>> \in Surplus
      BY <2>2 DEF TakenUp, Leg, Lines
    <3>2. PICK j \in book : j[1] = l /\ j[2] < n
      BY <3>1 DEF Surplus
    <3>3. j = <<l, j[2]>> /\ j[2] \in Nat
      BY <3>2 DEF Forms, BooksOk, Leg
    <3> QED
      BY <3>2, <3>3
  <2> QED
    BY <2>1, <2>2, ApplyMoves
<1>2. CASE UNCHANGED book
  BY <1>1, <1>2
<1>3. ASSUME NEW c \in Agents, Book(c) PROVE book \subseteq book'
  BY <1>3 DEF Book
<1>4. ASSUME NEW c \in Agents, VoidTrade(c), <<l, m>> \notin book'
      PROVE  \E i \in Nat : i < n /\ <<l, i>> \in book'
  <2>1. PICK k \in Leg : req[c].answer = Voiding(k) /\ book' = book \ {k}
    BY <1>4, VoidTarget
  <2>2. k = <<l, m>> /\ req[c].at = "apply"
    BY <1>1, <1>4, <2>1 DEF VoidTrade, IsAt
  <2>3. PICK i \in Nat : i < m /\ <<l, i>> \in book
    BY <2>1, <2>2 DEF VoidInv
  <2>4. i < n /\ <<l, i>> # <<l, m>>
    BY <1>1, <2>3
  <2> QED
    BY <2>1, <2>2, <2>3, <2>4
<1> QED
  BY <1>1, <1>2, <1>3, <1>4, BookMoves
-----------------------------------------------------------------------------
(* A day that is tidy stays so: a line of the notes keeps a leg, and what   *)
(* is entered anew is left over only of lines that were in hand twice.      *)
LEMMA BookedStays ==
  ASSUME Forms, VoidInv, [Next]_vars, MaxEdits = 0, NEW l \in FileLines, l \in Booked
  PROVE  l \in Booked'
<1>1. PICK j \in book : j[1] = l
  BY DEF Booked
<1>2. CASE book \subseteq book'
  BY <1>1, <1>2 DEF Booked
<1>3. ASSUME NEW c \in Agents, VoidTrade(c) PROVE l \in Booked'
  <2>1. PICK k \in Leg : req[c].answer = Voiding(k) /\ book' = book \ {k}
    BY <1>3, VoidTarget
  <2>2. CASE j # k
    BY <1>1, <2>1, <2>2 DEF Booked
  <2>3. CASE j = k
    <3>1. k = <<l, k[2]>> /\ k[2] \in Nat /\ req[c].at = "apply"
      BY <1>1, <1>3, <2>3 DEF Leg, VoidTrade, IsAt
    <3>2. PICK m \in Nat : m < k[2] /\ <<l, m>> \in book
      BY <2>1, <3>1 DEF VoidInv
    <3>3. <<l, m>> \in book' /\ <<l, m>>[1] = l
      BY <2>1, <3>1, <3>2
    <3> QED
      BY <3>3 DEF Booked
  <2> QED
    BY <2>2, <2>3
<1> QED
  BY <1>2, <1>3, BookMoves DEF Book

LEMMA SurplusStep ==
  ASSUME Forms, SoleInv', [Next]_vars, MaxEdits = 0, NEW j \in Surplus'
  PROVE  j \in Surplus \/ j[1] \in overlapped'
<1>1. j \in book'
  BY DEF Surplus
<1>2. CASE j[1] \in FileLines
  <2>1. PICK i \in book' : i[1] = j[1] /\ i[2] < j[2]
    BY <1>2 DEF Surplus
  <2>2. BooksOk'
    BY BooksStep
  <2>3. j[2] \in Nat /\ i # j
    BY <1>1, <2>1, <2>2 DEF BooksOk, Leg
  <2> QED
    BY <1>1, <1>2, <2>1, <2>3 DEF SoleInv
<1>3. CASE j[1] \notin FileLines
  <2>1. j \in book
    <3>1. ASSUME NEW c \in Agents, Book(c) PROVE j \in book
      <4>1. PICK l \in FileLines : book' = book \cup {NextLeg(l)}
        BY <3>1, BookedLeg
      <4> QED
        BY <1>1, <1>3, <4>1 DEF NextLeg
    <3> QED
      BY <1>1, <3>1, BookMoves, VoidTarget
  <2> QED
    BY <1>3, <2>1 DEF Surplus
<1> QED
  BY <1>2, <1>3

LEMMA TidyStays ==
  ASSUME Forms, VoidInv, SoleInv', [Next]_vars, MaxEdits = 0, NEW d, Tidy(d)
  PROVE  Tidy(d)'
<1>1. ASSUME NEW l \in FileLines, DayOf[l] = d PROVE l \in Booked'
  <2>1. CASE l \in Booked
    BY <2>1, BookedStays
  <2>2. CASE l \notin Booked
    <3>1. [kind |-> "file_only", on |-> l] \in Preview(d)
      BY <1>1, <2>2 DEF Preview, On
    <3> QED
      BY <3>1 DEF Tidy
  <2> QED
    BY <2>1, <2>2
<1>2. ASSUME NEW j \in Surplus', DayOf[j[1]] = d PROVE j[1] \in overlapped'
  <2>1. CASE j \in Surplus
    <3>1. LeftOver(j) \in Preview(d)
      BY <1>2, <2>1 DEF Preview
    <3>2. LeftOver(j).on \in overlapped
      BY <3>1 DEF Tidy
    <3> QED
      BY <3>2, HistoriesGrow DEF LeftOver
  <2> QED
    BY <2>1, SurplusStep
<1>3. ASSUME NEW x \in Preview(d)' PROVE x.kind = "ledger_only" /\ x.on \in overlapped'
  <2>1. PICK j \in Surplus' : DayOf[j[1]] = d /\ x = LeftOver(j)
    BY <1>1, <1>3 DEF Preview, On
  <2> QED
    BY <1>2, <2>1 DEF LeftOver
<1> QED
  BY <1>3 DEF Tidy

(* What a close goes through has been found tidy.                           *)
CleanInv ==
  /\ \A s \in Sessions : \A d \in row[s].closed : Tidy(d)
  /\ \A a \in Agents : \A d \in {req[a].day} :
       req[a].at \in {"materialize", "read", "write"} => Tidy(d)
  /\ \A a \in Agents : req[a].at = "write" => \A d \in req[a].seen : Tidy(d)

LEMMA CloseMoves ==
  ASSUME Forms, [Next]_vars, NEW b \in Agents, req'[b].at \in {"materialize", "read", "write"}
  PROVE  \/ req'[b] = req[b]
         \/ req'[b].at = "materialize" /\ Preview(req'[b].day) = {}
         \/ /\ Materialize(b) /\ req[b].at = "materialize" /\ req'[b].at = "read"
            /\ req'[b].day = req[b].day
         \/ /\ ReadProgress(b) /\ req[b].at = "read" /\ req'[b].at = "write"
            /\ req'[b].day = req[b].day /\ req'[b].session = req[b].session
            /\ req'[b].seen = row[req[b].session].closed
<1>1. CASE UNCHANGED req
  BY <1>1
<1>2. CASE Restart
  BY <1>2 DEF Restart, Idle
<1>3. ASSUME NEW a \in Agents, Quiet(a) \/ Writes(a), a # b PROVE req'[b] = req[b]
  BY <1>3, AgentMoves DEF Moves
<1>4. CASE BeginClose(b)
  BY <1>4, MoveBeginClose DEF Moves
<1>5. CASE Materialize(b) \/ ReadProgress(b)
  BY <1>5, MoveClose DEF Moves
<1>6. ASSUME Quiet(b) \/ Writes(b), ~BeginClose(b), ~Materialize(b), ~ReadProgress(b) PROVE FALSE
  <2>1. PICK from, to : Moves(b, from, to) /\ to \cap {"materialize", "read", "write"} = {}
    BY <1>6, MoveClose, MoveBeginResolve, MoveDecide, MoveInsert, MoveVoid, MoveEnd
       DEF Quiet, Writes
  <2> QED
    BY <2>1 DEF Moves
<1> QED
  BY <1>1, <1>2, <1>3, <1>4, <1>5, <1>6, Steps DEF StartSession, CompletePhase, Edit, vars

LEMMA CleanStep ==
  ASSUME Forms, CleanInv, VoidInv, SoleInv', [Next]_vars, MaxEdits = 0
  PROVE  CleanInv'
<1>1. \A d : Tidy(d) => Tidy(d)'
  BY TidyStays
<1>2. ASSUME NEW a \in Agents, req'[a].at \in {"materialize", "read", "write"}
      PROVE  Tidy(req'[a].day)
  <2>1. Preview(req'[a].day) = {} => Tidy(req'[a].day)
    BY DEF Tidy
  <2> QED
    BY <1>2, <2>1, CloseMoves DEF CleanInv
<1>3. ASSUME NEW a \in Agents, req'[a].at = "write", NEW d \in req'[a].seen PROVE Tidy(d)
  <2>1. \/ req'[a] = req[a]
        \/ req[a].at = "read" /\ req'[a].seen = row[req[a].session].closed
    BY <1>3, CloseMoves
  <2>2. req[a].at = "read" => req[a].session \in Sessions
    BY FieldsOfRequest
  <2> QED
    BY <1>3, <2>1, <2>2 DEF CleanInv
<1>4. ASSUME NEW s \in Sessions, NEW d \in row'[s].closed PROVE Tidy(d)
  <2>1. CASE row'[s].closed = row[s].closed
    BY <1>4, <2>1 DEF CleanInv
  <2>2. ASSUME NEW a \in Agents, WriteProgress(a) PROVE Tidy(d)
    <3>1. req[a].at = "write" /\ (d \in row[s].closed \/ d \in req[a].seen \cup {req[a].day})
      BY <1>4, <2>2 DEF WriteProgress, IsAt, Forms, RowsOk
    <3> QED
      BY <3>1 DEF CleanInv
  <2> QED
    BY <2>1, <2>2, WrittenByClose
<1> QED
  BY <1>1, <1>2, <1>3, <1>4 DEF CleanInv

(* As long as nobody enters or removes trades behind the session, a day is  *)
(* written down as closed only while its notes and its trades match, but    *)
(* for second legs of lines that two requests had in hand at once: whatever *)
(* is skipped as a duplicate, however many requests work on the session,    *)
(* throw between two legs or are lost in a restart.                         *)
THEOREM ClosedDaysAreClean == ASSUME MaxEdits = 0 PROVE Spec => ClosedDayWasClean
<1> DEFINE Inv == SoleInv /\ VoidInv /\ CleanInv
<1>1. Init => Inv
  <2> SUFFICES ASSUME Init PROVE Inv
    OBVIOUS
  <2>1. CleanInv
    BY DEF Init, CleanInv, Idle
  <2>2. VoidInv
    BY DEF Init, VoidInv, Idle
  <2>3. SoleInv
    BY DEF Init, SoleInv, HasInHand, Idle
  <2> QED
    BY <2>1, <2>2, <2>3
<1>2. Forms /\ Inv /\ [Next]_vars => Inv'
  BY SoleStep, VoidStep, CleanStep
<1>3. Forms /\ Inv /\ [Next]_vars =>
        \A s \in Sessions : \A d \in NewlyClosed(s) : Tidy(d)
  <2> SUFFICES ASSUME Forms, Inv, [Next]_vars, NEW s \in Sessions, NEW d \in NewlyClosed(s)
               PROVE  Tidy(d)
    OBVIOUS
  <2>1. PICK a \in Agents : WriteProgress(a)
    BY WrittenByClose DEF NewlyClosed
  <2>2. d \in req[a].seen \cup {req[a].day}
    BY <2>1 DEF WriteProgress, NewlyClosed, Forms, RowsOk
  <2> QED
    BY <2>1, <2>2 DEF WriteProgress, IsAt, CleanInv
<1> HIDE DEF Inv
<1> QED
  BY <1>1, <1>2, <1>3, FormsHold, PTL DEF Spec, ClosedDayWasClean
-----------------------------------------------------------------------------
(* A change of the book is in the log, or its request broke off, or the     *)
(* request that made it is on its way to write it there.                    *)
Recorded(answer) ==
  \/ InLog(answer) \/ answer \in broken
  \/ \E a \in Agents : Unlogged(a) /\ req[a].answer = answer

LogInv ==
  \A l \in Lines :
    /\ EnteredHere(l) => Recorded(Inserting(l))
    /\ \A n \in GoneFrom(l) : Recorded(Voiding(<<l, n>>))

(* An answer that has changed the books goes on until it is in the log, or  *)
(* breaks off.                                                              *)
LEMMA UnloggedMoves ==
  ASSUME Forms, [Next]_vars, NEW b \in Agents, Unlogged(b)
  PROVE  \/ Unlogged(b)' /\ req'[b].answer = req[b].answer
         \/ req[b].answer \in broken'
         \/ \E e \in log' : e.action = req[b].answer
<1>1. CASE UNCHANGED req
  BY <1>1 DEF Unlogged
<1>2. CASE Restart
  BY <1>2 DEF Restart, BreakOff
<1>3. ASSUME NEW a \in Agents, Quiet(a) \/ Writes(a), a # b PROVE req'[b] = req[b]
  BY <1>3, AgentMoves DEF Moves
<1>4. CASE FinishInsert(b)
  BY <1>4, MoveInsert DEF Moves, Unlogged, Applying
<1>5. CASE Throws(b)
  BY <1>5 DEF Throws, BreakOff
<1>6. CASE MarkAndLog(b)
  <2> DEFINE e == [session |-> req[b].session, day |-> req[b].day, action |-> req[b].answer]
  <2>1. e \in log' /\ e.action = req[b].answer
    BY <1>6 DEF MarkAndLog
  <2> QED
    BY <2>1
<1>7. ASSUME Quiet(b) \/ Writes(b), ~FinishInsert(b), ~Throws(b), ~MarkAndLog(b) PROVE FALSE
  <2>1. PICK from, to : Moves(b, from, to) /\ from \cap {"expect", "mark"} = {}
    BY <1>7, MoveBeginClose, MoveClose, MoveBeginResolve, MoveDecide, MoveInsert, MoveVoid, MoveEnd
       DEF Quiet, Writes
  <2> QED
    BY <2>1 DEF Moves, Unlogged
<1>8. Unlogged(b)' <=> req'[b].at \in {"expect", "mark"}
  BY DEF Unlogged
<1> QED
  BY <1>1, <1>2, <1>3, <1>4, <1>5, <1>6, <1>7, <1>8, Steps
     DEF StartSession, CompletePhase, Edit, vars, Unlogged

LEMMA RecordedStays ==
  ASSUME Forms, [Next]_vars, NEW answer, Recorded(answer) PROVE Recorded(answer)'
<1>1. CASE InLog(answer) \/ answer \in broken
  BY <1>1, HistoriesGrow DEF Recorded, InLog
<1>2. ASSUME NEW b \in Agents, Unlogged(b), req[b].answer = answer PROVE Recorded(answer)'
  BY <1>2, UnloggedMoves DEF Recorded, InLog
<1> QED
  BY <1>1, <1>2 DEF Recorded

LEMMA LogStep == ASSUME Forms, LogInv, [Next]_vars, MaxEdits = 0 PROVE LogInv'
<1>1. \A answer : Recorded(answer) => Recorded(answer)'
  BY RecordedStays
<1>2. CASE UNCHANGED <<book, issued>>
  BY <1>1, <1>2 DEF LogInv, EnteredHere, GoneFrom
<1>3. ASSUME NEW a \in Agents, NEW answer, req[a].answer = answer,
             Moves(a, {"book"}, {"expect"}) \/ Moves(a, {"apply"}, {"mark"})
      PROVE  Recorded(answer)'
  <2>1. req'[a].at \in {"expect", "mark"} /\ req'[a].answer = answer
    BY <1>3 DEF Moves, Applying
  <2> QED
    BY <2>1 DEF Recorded, Unlogged
<1>4. ASSUME NEW a \in Agents, Book(a) PROVE LogInv'
  <2>1. PICK l \in FileLines :
          /\ HasInHand(a, l) /\ book' = book \cup {NextLeg(l)}
          /\ issued' = [issued EXCEPT ![l] = @ + 1]
    BY <1>4, BookedLeg
  <2> DEFINE answer == Inserting(l)
  <2>2. req[a].answer = answer
    BY <2>1 DEF HasInHand
  <2>3. Moves(a, {"book"}, {"expect"})
    BY <1>4, MoveInsert
  <2> HIDE DEF answer
  <2>4. Recorded(answer)'
    BY <1>3, <2>2, <2>3
  <2>5. l \in Lines /\ issued \in [Lines -> Nat]
    BY DEF Lines, Forms, BooksOk
  <2>6. ASSUME NEW k \in Lines, EnteredHere(k)' PROVE Recorded(Inserting(k))'
    <3>1. CASE k = l
      BY <2>4, <3>1 DEF answer
    <3>2. CASE k # l
      BY <1>1, <2>1, <2>5, <2>6, <3>2 DEF LogInv, EnteredHere
    <3> QED
      BY <3>1, <3>2
  <2>7. ASSUME NEW k \in Lines, NEW n \in GoneFrom(k)' PROVE n \in GoneFrom(k)
    BY <2>1, <2>5, <2>7 DEF GoneFrom, NextLeg
  <2> QED
    BY <1>1, <2>6, <2>7 DEF LogInv
<1>5. ASSUME NEW a \in Agents, VoidTrade(a) PROVE LogInv'
  <2>1. PICK k \in Leg : req[a].answer = Voiding(k) /\ book' = book \ {k} /\ UNCHANGED issued
    BY <1>5, VoidTarget
  <2> DEFINE answer == Voiding(k)
  <2>2. req[a].answer = answer
    BY <2>1
  <2>3. Moves(a, {"apply"}, {"mark"})
    BY <1>5, MoveVoid
  <2> HIDE DEF answer
  <2>4. Recorded(answer)'
    BY <1>3, <2>2, <2>3
  <2>5. ASSUME NEW l \in Lines, NEW n \in GoneFrom(l)' PROVE n \in GoneFrom(l) \/ <<l, n>> = k
    BY <2>1, <2>5 DEF GoneFrom
  <2>6. ASSUME NEW l \in Lines, NEW n \in GoneFrom(l)' PROVE Recorded(Voiding(<<l, n>>))'
    <3>1. CASE <<l, n>> = k
      BY <2>4, <3>1 DEF answer
    <3>2. CASE n \in GoneFrom(l)
      BY <1>1, <3>2 DEF LogInv
    <3> QED
      BY <2>5, <2>6, <3>1, <3>2
  <2>7. ASSUME NEW l \in Lines, EnteredHere(l)' PROVE Recorded(Inserting(l))'
    BY <1>1, <2>1, <2>7 DEF LogInv, EnteredHere
  <2> QED
    BY <2>6, <2>7 DEF LogInv
<1> QED
  BY <1>2, <1>4, <1>5, BookMoves

(* For any number of requests, exceptions and restarts: once all requests   *)
(* have returned, every trade the session entered or voided has its answer  *)
(* in the log, or its request broke off on the way there.  An edit on       *)
(* another screen writes no log and may not happen.                         *)
THEOREM FinishedChangesLogged ==
  ASSUME MaxEdits = 0 PROVE Spec => []FinishedChangesAreLogged
<1>1. Init => LogInv
  BY DEF Init, LogInv, EnteredHere, GoneFrom
<1>2. Forms /\ LogInv /\ [Next]_vars => LogInv'
  BY LogStep
<1>3. LogInv => FinishedChangesAreLogged
  BY DEF LogInv, FinishedChangesAreLogged, Recorded, AllIdle, IsAt, Unlogged
<1> QED
  BY <1>1, <1>2, <1>3, FormsHold, PTL DEF Spec
-----------------------------------------------------------------------------
(* One request after the other.                                             *)
Alone == \A a, b \in Agents : a = b

(* What a close has read, and the day it has materialised, are still so     *)
(* when it writes, unless a trade was entered elsewhere.                    *)
CloseInv ==
  \A a \in Agents :
    /\ req[a].at = "write" => req[a].seen = row[req[a].session].closed
    /\ req[a].at \in {"read", "write"} /\ spent.edits = 0 => req[a].day \in daily

LEMMA CloseStep == ASSUME Forms, CloseInv, [Next]_vars, Alone PROVE CloseInv'
<1>1. CASE UNCHANGED <<req, row, daily, spent>>
  BY <1>1 DEF CloseInv
<1>2. ASSUME NEW a \in Agents, Quiet(a) \/ Writes(a) PROVE CloseInv'
  <2> SUFFICES ASSUME req'[a].at \in {"read", "write"}
               PROVE  /\ req'[a].at = "write" => req'[a].seen = row'[req'[a].session].closed
                      /\ spent'.edits = 0 => req'[a].day \in daily'
    BY DEF CloseInv, Alone
  <2>1. CASE Materialize(a)
    BY <2>1, MoveClose DEF Materialize, Moves
  <2>2. CASE ReadProgress(a)
    BY <2>2, MoveClose DEF ReadProgress, Moves, IsAt, CloseInv
  <2>3. ASSUME ~Materialize(a), ~ReadProgress(a) PROVE FALSE
    <3>1. PICK from, to : Moves(a, from, to) /\ to \cap {"read", "write"} = {}
      BY <1>2, <2>3, MoveBeginClose, MoveClose, MoveBeginResolve, MoveDecide, MoveInsert, MoveVoid,
         MoveEnd DEF Quiet, Writes
    <3> QED
      BY <3>1 DEF Moves
  <2> QED
    BY <2>1, <2>2, <2>3
<1>3. ASSUME NEW s \in Sessions, StartSession(s) \/ CompletePhase(s) PROVE CloseInv'
  <2>1. UNCHANGED <<req, daily, spent>> /\ \A t \in Sessions : row'[t].closed = row[t].closed
    BY <1>3 DEF StartSession, CompletePhase, Forms, RowsOk
  <2>2. \A a \in Agents : req[a].at = "write" => req[a].session \in Sessions
    BY FieldsOfRequest
  <2> QED
    BY <2>1, <2>2 DEF CloseInv
<1>4. CASE Edit
  <2>1. UNCHANGED <<req, row>> /\ spent'.edits > 0
    BY <1>4, SpendOk DEF Edit
  <2> QED
    BY <2>1 DEF CloseInv
<1>5. CASE Restart
  BY <1>5 DEF Restart, CloseInv, Idle
<1> QED
  BY <1>1, <1>2, <1>3, <1>4, <1>5, Steps DEF vars

LEMMA CloseInvHolds == ASSUME Alone PROVE Spec => [](Forms /\ CloseInv)
<1>1. Init => CloseInv
  BY DEF Init, CloseInv, Idle
<1>2. Forms /\ CloseInv /\ [Next]_vars => CloseInv'
  BY CloseStep
<1> QED
  BY <1>1, <1>2, FormsHold, PTL DEF Spec

(* With one request at a time no close drops a day that an earlier close of *)
(* the session wrote down, whatever fails, is edited or restarted between.  *)
THEOREM ClosedDaysStay == ASSUME Alone PROVE Spec => ClosedStaysClosed
<1>1. Forms /\ CloseInv /\ [Next]_vars => \A s \in Sessions : row[s].closed \subseteq row'[s].closed
  <2> SUFFICES ASSUME Forms, CloseInv, [Next]_vars, NEW s \in Sessions
               PROVE  row[s].closed \subseteq row'[s].closed
    OBVIOUS
  <2>1. CASE row'[s].closed = row[s].closed
    BY <2>1
  <2>2. ASSUME NEW a \in Agents, WriteProgress(a) PROVE row[s].closed \subseteq row'[s].closed
    BY <2>2 DEF WriteProgress, IsAt, CloseInv, Forms, RowsOk
  <2> QED
    BY <2>1, <2>2, WrittenByClose
<1> QED
  BY <1>1, CloseInvHolds, PTL DEF Spec, ClosedStaysClosed

(* With one request at a time, and no trade entered elsewhere so far, the   *)
(* horizon moves to a day only when that day has its row of patrimony,      *)
(* whatever failed or restarted between.                                    *)
THEOREM HorizonIsMaterialised == ASSUME Alone PROVE Spec => CloseFollowsMaterialise
<1>1. Forms /\ CloseInv /\ [Next]_vars =>
        \A s \in Sessions :
          row'[s].horizon # row[s].horizon /\ spent.edits = 0 => row'[s].horizon \in daily
  <2> SUFFICES ASSUME Forms, CloseInv, [Next]_vars, NEW s \in Sessions,
                      row'[s].horizon # row[s].horizon, spent.edits = 0
               PROVE  row'[s].horizon \in daily
    OBVIOUS
  <2>1. PICK a \in Agents : WriteProgress(a)
    BY WrittenByClose
  <2> QED
    BY <2>1 DEF WriteProgress, IsAt, CloseInv, Forms, RowsOk
<1> QED
  BY <1>1, CloseInvHolds, PTL DEF Spec, CloseFollowsMaterialise
=============================================================================
