-------------------------- MODULE NoteImport_proofs --------------------------
(***************************************************************************)
(* For any lines, uploads and agents: what a file that was imported to its *)
(* end leaves behind; and how often a trade is booked and its cash         *)
(* expected while uploads do not overlap.                                  *)
(***************************************************************************)
EXTENDS NoteImport, TLAPS

Importing(a) == ~At(a, "idle") /\ job[a].files # <<>>

(* The book only grows, and the cash of the history has its custody rows.   *)
BookInv ==
  /\ custody \in [Lines -> Nat] /\ expected \in [Lines -> Nat]
  /\ cash \subseteq Lines /\ \A l \in cash : custody[l] > 0
  /\ finished \subseteq Lines
  /\ job = [a \in Agents |-> job[a]]

(* A job is idle or has its fields; an import is at a file, a backfill past *)
(* all of them.                                                             *)
ShapeOf(a) ==
  \/ job[a] = Idle
  \/ /\ job[a].at \in {"readCustody", "readCash", "look", "book", "expect", "check", "fill",
                       "backfill"}
     /\ job[a] = [at |-> job[a].at, files |-> job[a].files, rest |-> job[a].rest,
                  index |-> job[a].index, read |-> job[a].read, later |-> job[a].later]
     /\ job[a].at \in {"readCustody", "readCash", "look", "book", "expect"} => job[a].files # <<>>
     /\ job[a].at = "backfill" => job[a].files = <<>>

FilesOf(a) ==
  Importing(a) =>
    /\ job[a].files \in Seq(Seq(Lines)) /\ job[a].rest \in Seq(Lines)
    /\ job[a].at \in {"readCustody", "readCash"} => job[a].rest = File(a)
    /\ job[a].at \in {"book", "expect", "check", "fill"} => job[a].rest # <<>>

(* The index knows no more than the book, and of notes and cash no more     *)
(* than when it was built.                                                  *)
IndexOf(a) ==
  Importing(a) =>
    /\ job[a].index = [refs |-> job[a].index.refs, notes |-> job[a].index.notes,
                       nets |-> job[a].index.nets, prints |-> job[a].index.prints]
    /\ job[a].index.refs \subseteq Booked
    /\ job[a].index.prints \subseteq {Line[l].print : l \in Booked}
    /\ job[a].at \notin {"readCustody", "readCash"} =>
         job[a].index.notes = job[a].read.notes /\ job[a].index.nets = job[a].read.nets

(* Of the file under way, each line is still to come or has its pending row *)
(* and is accounted for; so is the line that is being skipped.              *)
LinesOf(a) ==
  Importing(a) =>
    /\ \A l \in ToSet(File(a)) : l \in ToSet(job[a].rest) \/ (expected[l] > 0 /\ AccountedFor(a, l))
    /\ job[a].at = "expect" => custody[Head(job[a].rest)] > 0
    /\ job[a].at \in {"check", "fill"} => AccountedFor(a, Head(job[a].rest))

JobInv(a) == ShapeOf(a) /\ FilesOf(a) /\ IndexOf(a) /\ LinesOf(a)

IInv == BookInv /\ FinishedIsExpected /\ \A a \in Agents : JobInv(a)

-----------------------------------------------------------------------------
(* The head of a sequence and its tail are all its elements.                *)
LEMMA HeadAndTail ==
  ASSUME NEW S, NEW s \in Seq(S), s # <<>>
  PROVE  Head(s) \in S /\ Tail(s) \in Seq(S) /\ ToSet(s) = {Head(s)} \cup ToSet(Tail(s))
<1>1. Len(s) \in Nat \ {0} /\ DOMAIN s = 1..Len(s)
  OBVIOUS
<1>2. Head(s) = s[1] /\ Head(s) \in S /\ Tail(s) \in Seq(S)
  OBVIOUS
<1>3. DOMAIN Tail(s) = 1..(Len(s) - 1) /\ \A i \in 1..(Len(s) - 1) : Tail(s)[i] = s[i + 1]
  OBVIOUS
<1>4. ASSUME NEW x \in ToSet(s) PROVE x \in {Head(s)} \cup ToSet(Tail(s))
  <2>1. PICK i \in 1..Len(s) : x = s[i]
    BY <1>1 DEF ToSet
  <2>2. CASE i = 1
    BY <2>1, <2>2, <1>2
  <2>3. CASE i # 1
    <3>1. i - 1 \in 1..(Len(s) - 1) /\ Tail(s)[i - 1] = s[i]
      BY <2>3, <1>1, <1>3
    <3> QED BY <3>1, <2>1, <1>3 DEF ToSet
  <2> QED BY <2>2, <2>3
<1>5. ASSUME NEW x \in ToSet(Tail(s)) PROVE x \in ToSet(s)
  <2>1. PICK i \in 1..(Len(s) - 1) : x = Tail(s)[i]
    BY <1>3 DEF ToSet
  <2>2. i + 1 \in 1..Len(s) /\ x = s[i + 1]
    BY <2>1, <1>1, <1>3
  <2> QED BY <2>2, <1>1 DEF ToSet
<1>6. Head(s) \in ToSet(s)
  BY <1>1, <1>2 DEF ToSet
<1> QED BY <1>2, <1>4, <1>5, <1>6

LEMMA Elements ==
  ASSUME NEW S, NEW s \in Seq(S)
  PROVE  ToSet(s) \subseteq S
<1>1. DOMAIN s = 1..Len(s) /\ \A i \in 1..Len(s) : s[i] \in S
  OBVIOUS
<1> QED BY <1>1 DEF ToSet

(* The lines of the file under way are lines.                               *)
LEMMA FileLines ==
  ASSUME NEW a \in Agents, Importing(a), FilesOf(a)
  PROVE  /\ File(a) \in Seq(Lines) /\ ToSet(File(a)) \subseteq Lines
         /\ Tail(job[a].files) \in Seq(Seq(Lines))
         /\ job[a].rest # <<>> => /\ Head(job[a].rest) \in Lines /\ Tail(job[a].rest) \in Seq(Lines)
                                  /\ ToSet(job[a].rest) = {Head(job[a].rest)} \cup ToSet(Tail(job[a].rest))
<1>1. job[a].files \in Seq(Seq(Lines)) /\ job[a].files # <<>> /\ job[a].rest \in Seq(Lines)
  BY DEF FilesOf, Importing
<1>2. File(a) \in Seq(Lines) /\ Tail(job[a].files) \in Seq(Seq(Lines))
  BY <1>1, HeadAndTail DEF File
<1>3. ToSet(File(a)) \subseteq Lines
  BY <1>2, Elements
<1> QED BY <1>1, <1>2, <1>3, HeadAndTail

Grows == \A l \in Lines : custody'[l] >= custody[l] /\ expected'[l] >= expected[l]

(* While the book grows, what is accounted for stays so.                    *)
LEMMA StaysAccountedFor ==
  ASSUME BookInv, BookInv', Grows, NEW b \in Agents, NEW l \in Lines,
         job'[b].read = job[b].read, AccountedFor(b, l)
  PROVE  AccountedFor(b, l)'
<1>1. Booked \subseteq Booked'
  BY DEF BookInv, Grows, Booked
<1>2. custody[l] > 0 => custody'[l] > 0
  BY DEF BookInv, Grows
<1> QED BY <1>1, <1>2 DEF AccountedFor

(* A step that another agent takes.                                         *)
LEMMA Undisturbed ==
  ASSUME BookInv, BookInv', Grows, NEW b \in Agents, JobInv(b), job'[b] = job[b]
  PROVE  JobInv(b)'
<1>1. ShapeOf(b)' /\ FilesOf(b)'
  BY DEF JobInv, ShapeOf, FilesOf, Importing, At, File
<1>2. IndexOf(b)'
  <2>1. Booked \subseteq Booked'
    BY DEF BookInv, Grows, Booked
  <2> QED BY <2>1 DEF JobInv, IndexOf, Importing, At
<1>3. LinesOf(b)'
  <2>1. SUFFICES ASSUME Importing(b) PROVE LinesOf(b)'
    BY DEF LinesOf, Importing, At
  <2>2. ToSet(File(b)) \subseteq Lines /\ (job[b].rest # <<>> => Head(job[b].rest) \in Lines)
    BY <2>1, FileLines DEF JobInv
  <2>3. \A l \in Lines : AccountedFor(b, l) => AccountedFor(b, l)'
    BY StaysAccountedFor
  <2>4. \A l \in Lines : /\ expected[l] > 0 => expected'[l] > 0
                         /\ custody[l] > 0 => custody'[l] > 0
    BY DEF BookInv, Grows
  <2>5. File(b)' = File(b)
    BY DEF File
  <2>6. job[b].at \in {"expect", "check", "fill"} => job[b].rest # <<>>
    BY <2>1 DEF JobInv, FilesOf
  <2>7. \A l \in ToSet(File(b)') :
          l \in ToSet(job'[b].rest) \/ (expected'[l] > 0 /\ AccountedFor(b, l)')
    BY <2>1, <2>2, <2>3, <2>4, <2>5 DEF JobInv, LinesOf
  <2>8. job'[b].at = "expect" => custody'[Head(job'[b].rest)] > 0
    BY <2>1, <2>2, <2>4, <2>6 DEF JobInv, LinesOf
  <2>9. job'[b].at \in {"check", "fill"} => AccountedFor(b, Head(job[b].rest))'
    <3>1. job[b].at \in {"check", "fill"} => AccountedFor(b, Head(job[b].rest))
      BY <2>1 DEF JobInv, LinesOf
    <3>2. job[b].at \in {"check", "fill"} => Head(job[b].rest) \in Lines
      BY <2>2, <2>6
    <3>3. ASSUME job[b].at \in {"check", "fill"} PROVE AccountedFor(b, Head(job[b].rest))'
      <4>1. PICK l \in Lines : l = Head(job[b].rest)
        BY <3>2, <3>3
      <4>2. AccountedFor(b, l)'
        BY <4>1, <3>1, <3>3, <2>3
      <4> QED BY <4>1, <4>2 DEF AccountedFor
    <3> QED BY <3>3
  <2>10. Importing(b)'
    BY <2>1 DEF Importing, At
  <2> QED BY <2>7, <2>8, <2>9 DEF LinesOf, File
<1> QED BY <1>1, <1>2, <1>3 DEF JobInv

(* What is left to show of a step that one agent takes.                     *)
LEMMA OneAgent ==
  ASSUME IInv, NEW a \in Agents, NEW j, job' = [job EXCEPT ![a] = j],
         custody' \in [Lines -> Nat], expected' \in [Lines -> Nat], Grows, cash' = cash,
         finished' \subseteq Lines, FinishedIsExpected', BookInv' => JobInv(a)'
  PROVE  IInv'
<1>1. BookInv'
  BY DEF IInv, BookInv, Grows
<1>2. \A b \in Agents \ {a} : job'[b] = job[b]
  BY DEF IInv, BookInv
<1>3. \A b \in Agents : JobInv(b)'
  BY <1>1, <1>2, Undisturbed DEF IInv
<1> QED BY <1>1, <1>3 DEF IInv

(* The same of a step that leaves the book alone.                           *)
LEMMA OneReader ==
  ASSUME IInv, NEW a \in Agents, NEW j, job' = [job EXCEPT ![a] = j],
         UNCHANGED <<book, finished>>, BookInv' => JobInv(a)'
  PROVE  IInv'
<1>1. custody' \in [Lines -> Nat] /\ expected' \in [Lines -> Nat] /\ Grows /\ cash' = cash
  BY DEF IInv, BookInv, book, Grows
<1>2. finished' \subseteq Lines /\ FinishedIsExpected'
  BY DEF IInv, BookInv, book, FinishedIsExpected
<1> QED BY <1>1, <1>2, OneAgent

LEMMA InitIInv ==
  ASSUME Init
  PROVE  IInv
<1>1. BookInv
  BY OldAssumption DEF Init, BookInv
<1>2. FinishedIsExpected
  BY DEF Init, FinishedIsExpected
<1>3. \A a \in Agents : JobInv(a)
  BY DEF Init, JobInv, ShapeOf, FilesOf, IndexOf, LinesOf, Importing, At, Idle
<1> QED BY <1>1, <1>2, <1>3 DEF IInv

JobAt(p, f, r, i, d, w) ==
  [at |-> p, files |-> f, rest |-> r, index |-> i, read |-> d, later |-> w]

(* JobInv field by field.                                                   *)
Good(a, p, f, r, i, d) ==
  /\ p \in {"readCustody", "readCash", "look", "book", "expect", "check", "fill", "backfill"}
  /\ p \in {"readCustody", "readCash", "look", "book", "expect"} => f # <<>>
  /\ p = "backfill" => f = <<>>
  /\ f # <<>> =>
       /\ f \in Seq(Seq(Lines)) /\ r \in Seq(Lines)
       /\ p \in {"readCustody", "readCash"} => r = Head(f)
       /\ p \in {"book", "expect", "check", "fill"} => r # <<>>
       /\ i = [refs |-> i.refs, notes |-> i.notes, nets |-> i.nets, prints |-> i.prints]
       /\ i.refs \subseteq Booked /\ i.prints \subseteq {Line[l].print : l \in Booked}
       /\ p \notin {"readCustody", "readCash"} => i.notes = d.notes /\ i.nets = d.nets
       /\ \A l \in ToSet(Head(f)) : l \in ToSet(r) \/ (expected[l] > 0 /\ AccountedFor(a, l))
       /\ p = "expect" => custody[Head(r)] > 0
       /\ p \in {"check", "fill"} => AccountedFor(a, Head(r))

LEMMA NewJob ==
  ASSUME NEW a \in Agents, NEW p, NEW f, NEW r, NEW i, NEW d, NEW w,
         job'[a] = JobAt(p, f, r, i, d, w), Good(a, p, f, r, i, d)'
  PROVE  JobInv(a)'
<1>1. /\ job'[a].at = p /\ job'[a].files = f /\ job'[a].rest = r /\ job'[a].index = i
      /\ job'[a].read = d /\ job'[a] # Idle /\ p # "idle"
  BY DEF JobAt, Idle, Good
<1>2. Importing(a)' <=> f # <<>>
  BY <1>1 DEF Importing, At
<1>3. ShapeOf(a)'
  BY <1>1 DEF ShapeOf, JobAt, Good
<1>4. FilesOf(a)'
  BY <1>1, <1>2 DEF FilesOf, File, Good
<1>5. IndexOf(a)'
  BY <1>1, <1>2 DEF IndexOf, Good
<1>6. LinesOf(a)'
  <2> SUFFICES ASSUME f # <<>> PROVE LinesOf(a)'
    BY <1>2 DEF LinesOf
  <2>1. p \in {"check", "fill"} => AccountedFor(a, Head(job[a].rest))'
    BY <1>1 DEF AccountedFor, Good
  <2> QED BY <1>1, <1>2, <2>1 DEF LinesOf, File, Good
<1> QED BY <1>3, <1>4, <1>5, <1>6 DEF JobInv

(* The other way round.                                                     *)
LEMMA OldJob ==
  ASSUME IInv, NEW a \in Agents, ~At(a, "idle")
  PROVE  /\ DOMAIN job = Agents
         /\ \E f, r, i, d, w : /\ job[a] = JobAt(job[a].at, f, r, i, d, w)
                               /\ Good(a, job[a].at, f, r, i, d)
<1> DEFINE p == job[a].at
           f == job[a].files
           r == job[a].rest
           i == job[a].index
           d == job[a].read
<1>1. DOMAIN job = Agents /\ JobInv(a)
  BY DEF IInv, BookInv
<1>2. job[a] # Idle /\ job[a] = JobAt(p, f, r, i, d, job[a].later)
  BY <1>1 DEF JobInv, ShapeOf, At, Idle, JobAt
<1>3. Importing(a) <=> f # <<>>
  BY DEF Importing
<1>4. Good(a, p, f, r, i, d)
  BY <1>1, <1>2, <1>3 DEF JobInv, ShapeOf, FilesOf, IndexOf, LinesOf, File, Good
<1> QED BY <1>1, <1>2, <1>4

(* A step that leaves the book alone, with the job it makes.                *)
LEMMA ReaderStep ==
  ASSUME IInv, NEW a \in Agents, UNCHANGED <<book, finished>>,
         NEW p, NEW f, NEW r, NEW i, NEW d, NEW w,
         job' = [job EXCEPT ![a] = JobAt(p, f, r, i, d, w)], Good(a, p, f, r, i, d)'
  PROVE  IInv'
<1>1. job'[a] = JobAt(p, f, r, i, d, w)
  BY Zenon DEF IInv, BookInv
<1>2. JobInv(a)'
  BY <1>1, NewJob, Zenon
<1> QED BY <1>2, OneReader, Zenon

LEMMA IdleStep ==
  ASSUME IInv, NEW a \in Agents, UNCHANGED <<book, finished>>, job' = [job EXCEPT ![a] = Idle]
  PROVE  IInv'
<1>1. job'[a] = Idle
  BY Zenon DEF IInv, BookInv
<1>2. JobInv(a)'
  BY <1>1 DEF JobInv, ShapeOf, FilesOf, IndexOf, LinesOf, Importing, At, Idle
<1> QED BY <1>2, OneReader, Zenon

(* What an agent has accounted for, it still has when the book is as it was *)
(* and the index it was built with too.                                     *)
LEMMA SameAccount ==
  ASSUME NEW a \in Agents, custody' = custody, job'[a].read = job[a].read, NEW l
  PROVE  AccountedFor(a, l) => AccountedFor(a, l)'
BY DEF AccountedFor, Booked

LEMMA StartUploadIInv ==
  ASSUME IInv, NEW a \in Agents, NEW u \in Uploads, StartUpload(a, u)
  PROVE  IInv'
<1> DEFINE w == IF u.month THEN FlattenSeq(u.files) ELSE <<>>
<1>1. job' = [job EXCEPT ![a] = JobAt("readCustody", u.files, Head(u.files), NoIndex, NoIndex, w)]
      /\ UNCHANGED <<book, finished>>
  BY Zenon DEF StartUpload, JobAt
<1>2. u.files \in Seq(Seq(Lines)) /\ u.files # <<>> /\ Head(u.files) \in Seq(Lines)
  <2>1. u.files \in Seq(Seq(Lines \ Old)) /\ u.files # <<>>
    BY UploadAssumption
  <2>2. Seq(Lines \ Old) \subseteq Seq(Lines)
    OBVIOUS
  <2>3. u.files \in Seq(Seq(Lines))
    BY <2>1, <2>2
  <2> QED BY <2>1, <2>3
<1>3. Good(a, "readCustody", u.files, Head(u.files), NoIndex, NoIndex)'
  BY <1>2 DEF Good, NoIndex
<1> HIDE DEF w
<1> QED BY <1>1, <1>3, ReaderStep, Zenon

LEMMA ReadCustodyIInv ==
  ASSUME IInv, NEW a \in Agents, ReadCustody(a)
  PROVE  IInv'
<1>1. DOMAIN job = Agents /\ job[a].at = "readCustody" /\ UNCHANGED <<book, finished>>
  BY OldJob DEF ReadCustody, At
<1>2. PICK f, r, i, d, w : /\ job[a] = JobAt("readCustody", f, r, i, d, w)
                           /\ Good(a, "readCustody", f, r, i, d)
  BY <1>1, OldJob DEF At
<1>3. job' = [job EXCEPT ![a] = JobAt("readCash", f, r, CustodyIndex, d, w)]
  <2>1. job' = [job EXCEPT ![a] = [JobAt("readCustody", f, r, i, d, w) EXCEPT
                                     !.at = "readCash", !.index = CustodyIndex]]
    BY <1>2, Zenon DEF ReadCustody
  <2>2. [JobAt("readCustody", f, r, i, d, w) EXCEPT !.at = "readCash"] = JobAt("readCash", f, r, i, d, w)
    BY DEF JobAt
  <2>3. [JobAt("readCash", f, r, i, d, w) EXCEPT !.index = CustodyIndex]
           = JobAt("readCash", f, r, CustodyIndex, d, w)
    BY DEF JobAt
  <2> QED BY <2>1, <2>2, <2>3, Zenon
<1>4. PICK k : k = CustodyIndex
  OBVIOUS
<1>5. Booked' = Booked
  BY <1>1 DEF book, Booked
<1>6. /\ k = [refs |-> k.refs, notes |-> k.notes, nets |-> k.nets, prints |-> k.prints]
      /\ k.refs \subseteq Booked /\ k.prints \subseteq {Line[l].print : l \in Booked}
  BY <1>4 DEF CustodyIndex
<1>7. Good(a, "readCash", f, r, k, d)'
  BY <1>2, <1>5, <1>6 DEF Good
<1> QED BY <1>1, <1>3, <1>4, <1>7, ReaderStep, Zenon

LEMMA ReadCashIInv ==
  ASSUME IInv, NEW a \in Agents, ReadCash(a)
  PROVE  IInv'
<1>1. DOMAIN job = Agents /\ job[a].at = "readCash" /\ UNCHANGED <<book, finished>>
  BY OldJob DEF ReadCash, At
<1>2. PICK f, r, i, d, w : /\ job[a] = JobAt("readCash", f, r, i, d, w)
                           /\ Good(a, "readCash", f, r, i, d)
  BY <1>1, OldJob DEF At
<1>3. PICK k : k = [i EXCEPT !.nets = CashIndex]
  OBVIOUS
<1>4. /\ k = [refs |-> k.refs, notes |-> k.notes, nets |-> k.nets, prints |-> k.prints]
      /\ k.refs = i.refs /\ k.prints = i.prints
  BY <1>2, <1>3 DEF Good
<1>5. job' = [job EXCEPT ![a] = JobAt("look", f, r, k, k, w)]
  <2>1. job[a].index = i
    BY <1>2 DEF JobAt
  <2>2. job' = [job EXCEPT ![a] = [JobAt("readCash", f, r, i, d, w) EXCEPT
                                     !.at = "look", !.index = k, !.read = k]]
    BY <1>2, <1>3, <2>1, Zenon DEF ReadCash
  <2>3. [JobAt("readCash", f, r, i, d, w) EXCEPT !.at = "look"] = JobAt("look", f, r, i, d, w)
    BY DEF JobAt
  <2>4. [JobAt("look", f, r, i, d, w) EXCEPT !.index = k] = JobAt("look", f, r, k, d, w)
    BY DEF JobAt
  <2>5. [JobAt("look", f, r, k, d, w) EXCEPT !.read = k] = JobAt("look", f, r, k, k, w)
    BY DEF JobAt
  <2> QED BY <2>2, <2>3, <2>4, <2>5, Zenon
<1>6. Booked' = Booked
  BY <1>1 DEF book, Booked
<1>7. Good(a, "look", f, r, k, k)'
  BY <1>2, <1>4, <1>6 DEF Good
<1> QED BY <1>1, <1>5, <1>7, ReaderStep, Zenon

(* What the book or the index knows of a line accounts for it.              *)
LEMMA KnownIsAccountedFor ==
  ASSUME BookInv, NEW a \in Agents, NEW i, NEW l \in Lines, Known(l) \/ Duplicate(i, l),
         i.refs \subseteq Booked, i.prints \subseteq {Line[k].print : k \in Booked},
         i.notes = job[a].read.notes, i.nets = job[a].read.nets
  PROVE  AccountedFor(a, l)
<1>1. CASE l \in Booked \/ l \in cash \/ l \in i.refs
  BY <1>1 DEF BookInv, Booked, AccountedFor
<1>2. CASE Line[l].note \in i.notes \/ Line[l].net \in i.nets
  BY <1>2 DEF AccountedFor
<1>3. CASE Line[l].print \in i.prints
  <2>1. PICK k \in Booked : Line[k].print = Line[l].print
    BY <1>3
  <2> QED BY <2>1 DEF Booked, AccountedFor
<1> QED BY <1>1, <1>2, <1>3 DEF Known, Duplicate

LEMMA LookIInv ==
  ASSUME IInv, NEW a \in Agents, Look(a)
  PROVE  IInv'
<1>1. DOMAIN job = Agents /\ job[a].at = "look" /\ job[a].rest # <<>> /\ UNCHANGED <<book, finished>>
  BY OldJob DEF Look, At
<1>2. PICK f, r, i, d, w : /\ job[a] = JobAt("look", f, r, i, d, w)
                           /\ Good(a, "look", f, r, i, d)
  BY <1>1, OldJob DEF At
<1> DEFINE l == Head(r)
           known == Known(l) \/ Duplicate(i, l)
<1>a. PICK p : p = IF known THEN "check" ELSE "book"
  OBVIOUS
<1>3. job[a].rest = r /\ job[a].index = i /\ job[a].read = d /\ r # <<>>
  BY <1>1, <1>2 DEF JobAt
<1>4. job' = [job EXCEPT ![a] = JobAt(p, f, r, i, d, w)]
  <2>1. job' = [job EXCEPT ![a] = [JobAt("look", f, r, i, d, w) EXCEPT !.at = p]]
    BY <1>a, <1>2, <1>3, Zenon DEF Look, Go
  <2>2. [JobAt("look", f, r, i, d, w) EXCEPT !.at = p] = JobAt(p, f, r, i, d, w)
    BY DEF JobAt
  <2> QED BY <2>1, <2>2, Zenon
<1>5. job'[a].read = job[a].read /\ custody' = custody /\ expected' = expected /\ Booked' = Booked
  BY <1>1, <1>3, <1>4 DEF JobAt, book, Booked
<1>6. l \in Lines
  BY <1>2, <1>3 DEF Good
<1>7. known => AccountedFor(a, l)
  BY <1>2, <1>3, <1>6, KnownIsAccountedFor DEF Good, IInv
<1>8. \A k : AccountedFor(a, k) => AccountedFor(a, k)'
  BY <1>5, SameAccount
<1>9. p \in {"check", "book"} /\ (p = "check" => known)
  BY <1>a
<1>10. p = "check" => AccountedFor(a, Head(r))'
  BY <1>7, <1>8, <1>9
<1>11. Good(a, p, f, r, i, d)'
  BY <1>2, <1>3, <1>5, <1>8, <1>9, <1>10 DEF Good
<1> QED BY <1>1, <1>4, <1>11, ReaderStep, Zenon

(* A step that adds to the book, with the job it makes.                     *)
LEMMA WriterStep ==
  ASSUME IInv, NEW a \in Agents, custody' \in [Lines -> Nat], expected' \in [Lines -> Nat],
         Grows, cash' = cash, finished' = finished,
         NEW p, NEW f, NEW r, NEW i, NEW d, NEW w,
         job' = [job EXCEPT ![a] = JobAt(p, f, r, i, d, w)], Good(a, p, f, r, i, d)'
  PROVE  IInv'
<1>1. job'[a] = JobAt(p, f, r, i, d, w)
  BY Zenon DEF IInv, BookInv
<1>2. JobInv(a)'
  BY <1>1, NewJob, Zenon
<1>3. finished' \subseteq Lines /\ FinishedIsExpected'
  BY DEF IInv, BookInv, FinishedIsExpected, Grows
<1> QED BY <1>2, <1>3, OneAgent, Zenon

(* While the book grows, what an agent has accounted for stays so.          *)
LEMMA GrownAccount ==
  ASSUME BookInv, NEW a \in Agents, Grows, custody' \in [Lines -> Nat],
         job'[a].read = job[a].read, NEW l \in Lines, AccountedFor(a, l)
  PROVE  AccountedFor(a, l)'
<1>1. Booked \subseteq Booked'
  BY DEF BookInv, Grows, Booked
<1>2. custody[l] > 0 => custody'[l] > 0
  BY DEF BookInv, Grows
<1> QED BY <1>1, <1>2 DEF AccountedFor

LEMMA BookIInv ==
  ASSUME IInv, NEW a \in Agents, Book(a)
  PROVE  IInv'
<1>1. DOMAIN job = Agents /\ job[a].at = "book" /\ BookInv
      /\ expected' = expected /\ cash' = cash /\ finished' = finished
  BY OldJob DEF Book, At, IInv
<1>2. PICK f, r, i, d, w : /\ job[a] = JobAt("book", f, r, i, d, w)
                           /\ Good(a, "book", f, r, i, d)
  BY <1>1, OldJob DEF At
<1>3. PICK l : l = Head(r)
  OBVIOUS
<1>4. job[a].rest = r /\ job[a].read = d
  BY <1>2 DEF JobAt
<1>5. /\ f # <<>> /\ r # <<>> /\ r \in Seq(Lines) /\ f \in Seq(Seq(Lines))
      /\ l \in Lines /\ ToSet(Head(f)) \subseteq Lines
  BY <1>2, <1>3, HeadAndTail, Elements DEF Good
<1>6. custody' = [custody EXCEPT ![l] = @ + 1]
  BY <1>3, <1>4 DEF Book
<1>7. custody' \in [Lines -> Nat] /\ expected' \in [Lines -> Nat] /\ Grows /\ custody'[l] > 0
  BY <1>1, <1>5, <1>6 DEF BookInv, Grows
<1>8. job' = [job EXCEPT ![a] = JobAt("expect", f, r, i, d, w)]
  <2>1. job' = [job EXCEPT ![a] = [JobAt("book", f, r, i, d, w) EXCEPT !.at = "expect"]]
    BY <1>2, Zenon DEF Book, Go
  <2>2. [JobAt("book", f, r, i, d, w) EXCEPT !.at = "expect"] = JobAt("expect", f, r, i, d, w)
    BY DEF JobAt
  <2> QED BY <2>1, <2>2, Zenon
<1>9. job'[a].read = job[a].read
  BY <1>1, <1>4, <1>8 DEF JobAt
<1>10. Booked \subseteq Booked'
  BY <1>1, <1>7 DEF BookInv, Grows, Booked
<1>11. \A k \in Lines : AccountedFor(a, k) => AccountedFor(a, k)'
  BY <1>1, <1>7, <1>9, GrownAccount
<1>12. Good(a, "expect", f, r, i, d)'
  BY <1>1, <1>2, <1>3, <1>5, <1>7, <1>10, <1>11 DEF Good
<1> QED BY <1>1, <1>7, <1>8, <1>12, WriterStep, Zenon

LEMMA ExpectIInv ==
  ASSUME IInv, NEW a \in Agents, Expect(a)
  PROVE  IInv'
<1>1. DOMAIN job = Agents /\ job[a].at = "expect" /\ BookInv
      /\ custody' = custody /\ cash' = cash /\ finished' = finished
  BY OldJob DEF Expect, At, IInv
<1>2. PICK f, r, i, d, w : /\ job[a] = JobAt("expect", f, r, i, d, w)
                           /\ Good(a, "expect", f, r, i, d)
  BY <1>1, OldJob DEF At
<1>3. PICK l : l = Head(r)
  OBVIOUS
<1>4. PICK k, s : k = Registered(i, l) /\ s = Tail(r)
  OBVIOUS
<1>5. job[a].rest = r /\ job[a].read = d /\ job[a].index = i
  BY <1>2 DEF JobAt
<1>6. /\ f # <<>> /\ r # <<>> /\ r \in Seq(Lines) /\ f \in Seq(Seq(Lines)) /\ Head(f) \in Seq(Lines)
      /\ l \in Lines /\ ToSet(Head(f)) \subseteq Lines
      /\ Tail(r) \in Seq(Lines) /\ ToSet(r) = {l} \cup ToSet(Tail(r))
  BY <1>2, <1>3, HeadAndTail, Elements DEF Good
<1>7. expected' = [expected EXCEPT ![l] = @ + 1]
  BY <1>3, <1>5 DEF Expect
<1>8. custody' \in [Lines -> Nat] /\ expected' \in [Lines -> Nat] /\ Grows /\ expected'[l] > 0
  BY <1>1, <1>6, <1>7 DEF BookInv, Grows
<1>9. job' = [job EXCEPT ![a] = JobAt("look", f, s, k, d, w)]
  <2>1. job' = [job EXCEPT ![a] = [JobAt("expect", f, r, i, d, w) EXCEPT
                                     !.at = "look", !.rest = s, !.index = k]]
    BY <1>2, <1>3, <1>4, <1>5, Zenon DEF Expect
  <2>2. [JobAt("expect", f, r, i, d, w) EXCEPT !.at = "look"] = JobAt("look", f, r, i, d, w)
    BY DEF JobAt
  <2>3. [JobAt("look", f, r, i, d, w) EXCEPT !.rest = s] = JobAt("look", f, s, i, d, w)
    BY DEF JobAt
  <2>4. [JobAt("look", f, s, i, d, w) EXCEPT !.index = k] = JobAt("look", f, s, k, d, w)
    BY DEF JobAt
  <2> QED BY <2>1, <2>2, <2>3, <2>4, Zenon
<1>10. job'[a].read = job[a].read
  BY <1>1, <1>5, <1>9 DEF JobAt
<1>11. Booked' = Booked /\ custody[l] > 0 /\ l \in Booked
  BY <1>1, <1>2, <1>3, <1>6 DEF Booked, Good
<1>12. \A m \in Lines : AccountedFor(a, m) => AccountedFor(a, m)'
  BY <1>1, <1>8, <1>10, GrownAccount
<1>13. AccountedFor(a, l)'
  BY <1>1, <1>11 DEF AccountedFor
<1>14. /\ k = [refs |-> k.refs, notes |-> k.notes, nets |-> k.nets, prints |-> k.prints]
       /\ k.notes = i.notes /\ k.nets = i.nets /\ k.refs = i.refs \cup {l}
       /\ k.prints = i.prints \cup {Line[l].print}
  <2>1. i = [refs |-> i.refs, notes |-> i.notes, nets |-> i.nets, prints |-> i.prints]
    BY <1>2, <1>6 DEF Good
  <2>2. PICK y : y = [i EXCEPT !.refs = i.refs \cup {l}]
    OBVIOUS
  <2>3. y = [refs |-> i.refs \cup {l}, notes |-> i.notes, nets |-> i.nets, prints |-> i.prints]
    BY <2>1, <2>2
  <2>4. k = [y EXCEPT !.prints = i.prints \cup {Line[l].print}]
    BY <1>4, <2>2, Zenon DEF Registered
  <2> QED BY <2>3, <2>4
<1>15. k.refs \subseteq Booked /\ k.prints \subseteq {Line[m].print : m \in Booked}
  BY <1>2, <1>6, <1>11, <1>14 DEF Good
<1>16. \A m \in ToSet(Head(f)) :
         m \in ToSet(Tail(r)) \/ (expected'[m] > 0 /\ AccountedFor(a, m)')
  <2> SUFFICES ASSUME NEW m \in ToSet(Head(f)), m \notin ToSet(Tail(r))
               PROVE  expected'[m] > 0 /\ AccountedFor(a, m)'
    OBVIOUS
  <2>1. m = l \/ (expected[m] > 0 /\ AccountedFor(a, m))
    BY <1>2, <1>6 DEF Good
  <2>2. m \in Lines
    BY <1>6
  <2>3. expected[m] > 0 => expected'[m] > 0
    BY <1>1, <1>8, <2>2 DEF Grows, BookInv
  <2> QED BY <1>8, <1>12, <1>13, <2>1, <2>2, <2>3
<1>17. Good(a, "look", f, s, k, d)'
  BY <1>2, <1>4, <1>6, <1>11, <1>14, <1>15, <1>16 DEF Good
<1> QED BY <1>1, <1>8, <1>9, <1>17, WriterStep, Zenon

(* The job of a line that is known, once its cash is expected.              *)
LEMMA OnwardIInv ==
  ASSUME IInv, NEW a \in Agents, NEW x \in {"check", "fill"}, job[a].at = x, Onward(a),
         expected' \in [Lines -> Nat], Grows, custody' = custody, cash' = cash, finished' = finished,
         job[a].files # <<>> => expected'[Head(job[a].rest)] > 0
  PROVE  IInv'
<1>1. DOMAIN job = Agents /\ BookInv
  BY OldJob DEF At, IInv
<1>2. PICK f, r, i, d, w : /\ job[a] = JobAt(x, f, r, i, d, w)
                           /\ Good(a, x, f, r, i, d)
  BY OldJob DEF At
<1>3. PICK q, s : q = (IF f = <<>> THEN "backfill" ELSE "look") /\ s = Tail(r)
  OBVIOUS
<1>4. job[a].rest = r /\ job[a].read = d /\ job[a].files = f
  BY <1>2 DEF JobAt
<1>5. job' = [job EXCEPT ![a] = JobAt(q, f, s, i, d, w)]
  <2>1. job' = [job EXCEPT ![a] = [JobAt(x, f, r, i, d, w) EXCEPT !.rest = s, !.at = q]]
    BY <1>2, <1>3, <1>4, Zenon DEF Onward
  <2>2. [JobAt(x, f, r, i, d, w) EXCEPT !.rest = s] = JobAt(x, f, s, i, d, w)
    BY DEF JobAt
  <2>3. [JobAt(x, f, s, i, d, w) EXCEPT !.at = q] = JobAt(q, f, s, i, d, w)
    BY DEF JobAt
  <2> QED BY <2>1, <2>2, <2>3, Zenon
<1>6. job'[a].read = job[a].read
  BY <1>1, <1>4, <1>5 DEF JobAt
<1>7. Booked' = Booked /\ custody' \in [Lines -> Nat]
  BY <1>1 DEF Booked, BookInv
<1>8. Good(a, q, f, s, i, d)'
  <2>1. CASE f = <<>>
    BY <1>3, <2>1 DEF Good
  <2>2. CASE f # <<>>
    <3>1. PICK l : l = Head(r)
      OBVIOUS
    <3>2. /\ r # <<>> /\ r \in Seq(Lines) /\ f \in Seq(Seq(Lines)) /\ Head(f) \in Seq(Lines)
          /\ l \in Lines /\ ToSet(Head(f)) \subseteq Lines
          /\ Tail(r) \in Seq(Lines) /\ ToSet(r) = {l} \cup ToSet(Tail(r))
      BY <1>2, <2>2, <3>1, HeadAndTail, Elements DEF Good
    <3>3. \A m \in Lines : AccountedFor(a, m) => AccountedFor(a, m)'
      BY <1>1, <1>6, <1>7, GrownAccount
    <3>4. AccountedFor(a, l) /\ expected'[l] > 0
      BY <1>2, <1>4, <2>2, <3>1 DEF Good
    <3>5. \A m \in ToSet(Head(f)) :
            m \in ToSet(Tail(r)) \/ (expected'[m] > 0 /\ AccountedFor(a, m)')
      <4> SUFFICES ASSUME NEW m \in ToSet(Head(f)), m \notin ToSet(Tail(r))
                   PROVE  expected'[m] > 0 /\ AccountedFor(a, m)'
        OBVIOUS
      <4>1. m = l \/ (expected[m] > 0 /\ AccountedFor(a, m))
        BY <1>2, <2>2, <3>2 DEF Good
      <4>2. m \in Lines
        BY <3>2
      <4>3. expected[m] > 0 => expected'[m] > 0
        BY <1>1, <4>2 DEF Grows, BookInv
      <4> QED BY <3>3, <3>4, <4>1, <4>2, <4>3
    <3> QED BY <1>2, <1>3, <1>7, <2>2, <3>2, <3>5 DEF Good
  <2> QED BY <2>1, <2>2
<1> QED BY <1>5, <1>7, <1>8, WriterStep, Zenon

LEMMA CheckExpectedIInv ==
  ASSUME IInv, NEW a \in Agents, CheckExpected(a)
  PROVE  IInv'
<1>1. job[a].at = "check" /\ UNCHANGED <<book, finished>> /\ BookInv
  BY DEF CheckExpected, At, IInv
<1>2. CASE expected[Head(job[a].rest)] > 0
  <2>1. Onward(a)
    BY <1>2 DEF CheckExpected
  <2>2. expected' \in [Lines -> Nat] /\ Grows /\ custody' = custody /\ cash' = cash
        /\ finished' = finished /\ expected'[Head(job[a].rest)] > 0
    BY <1>1, <1>2 DEF book, BookInv, Grows
  <2> QED BY <1>1, <2>1, <2>2, OnwardIInv
<1>3. CASE ~(expected[Head(job[a].rest)] > 0)
  <2>1. PICK f, r, i, d, w : /\ job[a] = JobAt("check", f, r, i, d, w)
                             /\ Good(a, "check", f, r, i, d)
    BY <1>1, OldJob DEF At
  <2>2. job' = [job EXCEPT ![a] = JobAt("fill", f, r, i, d, w)]
    <3>1. job' = [job EXCEPT ![a] = [JobAt("check", f, r, i, d, w) EXCEPT !.at = "fill"]]
      BY <1>3, <2>1, Zenon DEF CheckExpected, Go
    <3>2. [JobAt("check", f, r, i, d, w) EXCEPT !.at = "fill"] = JobAt("fill", f, r, i, d, w)
      BY DEF JobAt
    <3> QED BY <3>1, <3>2, Zenon
  <2>3. job'[a].read = job[a].read /\ custody' = custody /\ expected' = expected /\ Booked' = Booked
    BY <1>1, <2>1, <2>2 DEF JobAt, book, Booked, BookInv
  <2>4. \A k : AccountedFor(a, k) => AccountedFor(a, k)'
    BY <2>3, SameAccount
  <2>5. Good(a, "fill", f, r, i, d)'
    BY <2>1, <2>3, <2>4 DEF Good
  <2> QED BY <1>1, <2>2, <2>5, ReaderStep, Zenon
<1> QED BY <1>2, <1>3

LEMMA FillIInv ==
  ASSUME IInv, NEW a \in Agents, Fill(a)
  PROVE  IInv'
<1>1. job[a].at = "fill" /\ BookInv /\ Onward(a)
      /\ custody' = custody /\ cash' = cash /\ finished' = finished
  BY DEF Fill, At, IInv
<1>2. PICK l : l = Head(job[a].rest) /\ expected' = [expected EXCEPT ![l] = @ + 1]
  BY DEF Fill
<1>3. PICK f, r, i, d, w : job[a] = JobAt("fill", f, r, i, d, w) /\ Good(a, "fill", f, r, i, d)
  BY <1>1, OldJob DEF At
<1>4. job[a].files # <<>> => l \in Lines
  BY <1>2, <1>3, HeadAndTail DEF Good, JobAt
<1>5. expected' \in [Lines -> Nat] /\ Grows /\ (l \in Lines => expected'[l] > 0)
  <2>1. CASE l \in Lines
    BY <1>1, <1>2, <2>1 DEF BookInv, Grows
  <2>2. CASE l \notin Lines
    <3>1. expected' = expected
      BY <1>1, <1>2, <2>2 DEF BookInv
    <3> QED BY <1>1, <2>2, <3>1 DEF BookInv, Grows
  <2> QED BY <2>1, <2>2
<1> QED BY <1>1, <1>2, <1>4, <1>5, OnwardIInv

(* A file done with: the job at the next one.                               *)
LEMMA NextFileJob ==
  ASSUME IInv, NEW a \in Agents, ~At(a, "idle"), job[a].files # <<>>, NextFile(a)
  PROVE  \E p, f, r, i, d, w : /\ job' = [job EXCEPT ![a] = JobAt(p, f, r, i, d, w)]
                               /\ Good(a, p, f, r, i, d)'
<1>1. PICK x, f, r, i, d, w : job[a] = JobAt(x, f, r, i, d, w) /\ Good(a, x, f, r, i, d)
  BY OldJob
<1>2. job[a].files = f /\ job[a].later = w
  BY <1>1 DEF JobAt
<1>3. PICK g, s, n : g = Tail(f) /\ s = Head(Tail(f)) /\ n = NoIndex
  OBVIOUS
<1>4. f \in Seq(Seq(Lines)) /\ g \in Seq(Seq(Lines)) /\ (g # <<>> => s \in Seq(Lines) /\ s = Head(g))
  BY <1>1, <1>2, <1>3, HeadAndTail DEF Good
<1>5. /\ n = [refs |-> n.refs, notes |-> n.notes, nets |-> n.nets, prints |-> n.prints]
      /\ n.refs = {} /\ n.prints = {}
  BY <1>3 DEF NoIndex
<1>6. CASE g # <<>>
  <2>1. job' = [job EXCEPT ![a] = JobAt("readCustody", g, s, n, n, w)]
    <3>1. job' = [job EXCEPT ![a] = [JobAt(x, f, r, i, d, w) EXCEPT
                    !.at = "readCustody", !.files = g, !.rest = s, !.index = n, !.read = n]]
      BY <1>1, <1>2, <1>3, <1>6, Zenon DEF NextFile
    <3>2. [JobAt(x, f, r, i, d, w) EXCEPT !.at = "readCustody"] = JobAt("readCustody", f, r, i, d, w)
      BY DEF JobAt
    <3>3. [JobAt("readCustody", f, r, i, d, w) EXCEPT !.files = g] = JobAt("readCustody", g, r, i, d, w)
      BY DEF JobAt
    <3>4. [JobAt("readCustody", g, r, i, d, w) EXCEPT !.rest = s] = JobAt("readCustody", g, s, i, d, w)
      BY DEF JobAt
    <3>5. [JobAt("readCustody", g, s, i, d, w) EXCEPT !.index = n] = JobAt("readCustody", g, s, n, d, w)
      BY DEF JobAt
    <3>6. [JobAt("readCustody", g, s, n, d, w) EXCEPT !.read = n] = JobAt("readCustody", g, s, n, n, w)
      BY DEF JobAt
    <3>7. [JobAt(x, f, r, i, d, w) EXCEPT !.at = "readCustody", !.files = g, !.rest = s]
            = JobAt("readCustody", g, s, i, d, w)
      BY <3>2, <3>3, <3>4, Zenon
    <3>8. [JobAt("readCustody", g, s, i, d, w) EXCEPT !.index = n, !.read = n]
            = JobAt("readCustody", g, s, n, n, w)
      BY <3>5, <3>6, Zenon
    <3> QED BY <3>1, <3>7, <3>8, Zenon
  <2>2. Good(a, "readCustody", g, s, n, n)'
    BY <1>4, <1>5, <1>6 DEF Good
  <2> QED BY <2>1, <2>2, Zenon
<1>7. CASE g = <<>>
  <2>1. job' = [job EXCEPT ![a] = JobAt("backfill", <<>>, w, n, n, w)]
    <3>1. job' = [job EXCEPT ![a] = [JobAt(x, f, r, i, d, w) EXCEPT
                    !.at = "backfill", !.files = <<>>, !.rest = w, !.index = n, !.read = n]]
      BY <1>1, <1>2, <1>3, <1>7, Zenon DEF NextFile
    <3>2. [JobAt(x, f, r, i, d, w) EXCEPT !.at = "backfill"] = JobAt("backfill", f, r, i, d, w)
      BY DEF JobAt
    <3>3. [JobAt("backfill", f, r, i, d, w) EXCEPT !.files = <<>>] = JobAt("backfill", <<>>, r, i, d, w)
      BY DEF JobAt
    <3>4. [JobAt("backfill", <<>>, r, i, d, w) EXCEPT !.rest = w] = JobAt("backfill", <<>>, w, i, d, w)
      BY DEF JobAt
    <3>5. [JobAt("backfill", <<>>, w, i, d, w) EXCEPT !.index = n] = JobAt("backfill", <<>>, w, n, d, w)
      BY DEF JobAt
    <3>6. [JobAt("backfill", <<>>, w, n, d, w) EXCEPT !.read = n] = JobAt("backfill", <<>>, w, n, n, w)
      BY DEF JobAt
    <3>7. [JobAt(x, f, r, i, d, w) EXCEPT !.at = "backfill", !.files = <<>>, !.rest = w]
            = JobAt("backfill", <<>>, w, i, d, w)
      BY <3>2, <3>3, <3>4, Zenon
    <3>8. [JobAt("backfill", <<>>, w, i, d, w) EXCEPT !.index = n, !.read = n]
            = JobAt("backfill", <<>>, w, n, n, w)
      BY <3>5, <3>6, Zenon
    <3> QED BY <3>1, <3>7, <3>8, Zenon
  <2>2. Good(a, "backfill", <<>>, w, n, n)'
    BY DEF Good
  <2> QED BY <2>1, <2>2, Zenon
<1> QED BY <1>6, <1>7

LEMMA EndOfFileIInv ==
  ASSUME IInv, NEW a \in Agents, EndOfFile(a)
  PROVE  IInv'
<1>1. job[a].at = "look" /\ job[a].rest = <<>> /\ NextFile(a) /\ ~At(a, "idle") /\ UNCHANGED book
      /\ BookInv /\ FinishedIsExpected /\ DOMAIN job = Agents /\ JobInv(a)
  BY DEF EndOfFile, At, IInv, BookInv
<1>2. job[a].files # <<>> /\ Importing(a)
  BY <1>1 DEF JobInv, ShapeOf, Importing, At, Idle
<1>3. PICK p, f, r, i, d, w : /\ job' = [job EXCEPT ![a] = JobAt(p, f, r, i, d, w)]
                              /\ Good(a, p, f, r, i, d)'
  BY <1>1, <1>2, NextFileJob
<1>4. JobInv(a)'
  <2>1. job'[a] = JobAt(p, f, r, i, d, w)
    BY <1>1, <1>3, Zenon
  <2> QED BY <1>3, <2>1, NewJob, Zenon
<1>5. ToSet(File(a)) \subseteq Lines /\ \A l \in ToSet(File(a)) : expected[l] > 0
  <2>1. ToSet(job[a].rest) = {}
    BY <1>1 DEF ToSet
  <2>2. ToSet(File(a)) \subseteq Lines
    BY <1>1, <1>2, FileLines DEF JobInv
  <2> QED BY <1>1, <1>2, <2>1, <2>2 DEF JobInv, LinesOf
<1>6. finished' = finished \cup ToSet(File(a))
  BY DEF EndOfFile
<1>7. finished' \subseteq Lines /\ FinishedIsExpected'
  BY <1>1, <1>5, <1>6 DEF BookInv, FinishedIsExpected, book
<1>8. custody' \in [Lines -> Nat] /\ expected' \in [Lines -> Nat] /\ Grows /\ cash' = cash
  BY <1>1 DEF BookInv, book, Grows
<1> QED BY <1>3, <1>4, <1>7, <1>8, OneAgent, Zenon

LEMMA ThrowIInv ==
  ASSUME IInv, NEW a \in Agents, Throw(a)
  PROVE  IInv'
<1>1. ~At(a, "idle") /\ UNCHANGED <<book, finished>>
  BY DEF Throw
<1>2. CASE job[a].files # <<>>
  <2>1. NextFile(a)
    BY <1>2 DEF Throw
  <2>2. PICK p, f, r, i, d, w : /\ job' = [job EXCEPT ![a] = JobAt(p, f, r, i, d, w)]
                                /\ Good(a, p, f, r, i, d)'
    BY <1>1, <1>2, <2>1, NextFileJob
  <2> QED BY <1>1, <2>2, ReaderStep, Zenon
<1>3. CASE job[a].files = <<>>
  <2>1. job' = [job EXCEPT ![a] = Idle]
    BY <1>3 DEF Throw
  <2> QED BY <1>1, <2>1, IdleStep
<1> QED BY <1>2, <1>3

LEMMA BackfillIInv ==
  ASSUME IInv, NEW a \in Agents, Backfill(a)
  PROVE  IInv'
<1>1. job[a].at = "backfill" /\ UNCHANGED <<book, finished>>
  BY DEF Backfill, At
<1>2. CASE job[a].rest = <<>>
  <2>1. job' = [job EXCEPT ![a] = Idle]
    BY <1>2 DEF Backfill
  <2> QED BY <1>1, <2>1, IdleStep
<1>3. CASE job[a].rest # <<>>
  <2>1. PICK f, r, i, d, w : /\ job[a] = JobAt("backfill", f, r, i, d, w)
                             /\ Good(a, "backfill", f, r, i, d)
    BY <1>1, OldJob DEF At
  <2>2. job' = [job EXCEPT ![a] = JobAt("check", f, r, i, d, w)]
    <3>1. job' = [job EXCEPT ![a] = [JobAt("backfill", f, r, i, d, w) EXCEPT !.at = "check"]]
      BY <1>3, <2>1, Zenon DEF Backfill, Go
    <3>2. [JobAt("backfill", f, r, i, d, w) EXCEPT !.at = "check"] = JobAt("check", f, r, i, d, w)
      BY DEF JobAt
    <3> QED BY <3>1, <3>2, Zenon
  <2>3. Good(a, "check", f, r, i, d)'
    BY <2>1 DEF Good
  <2> QED BY <1>1, <2>2, <2>3, ReaderStep, Zenon
<1> QED BY <1>2, <1>3

LEMMA RestartIInv ==
  ASSUME IInv, Restart
  PROVE  IInv'
<1>1. BookInv' /\ FinishedIsExpected'
  BY DEF Restart, IInv, BookInv, FinishedIsExpected, book
<1>2. \A a \in Agents : JobInv(a)'
  BY DEF Restart, JobInv, ShapeOf, FilesOf, IndexOf, LinesOf, Importing, At, Idle
<1> QED BY <1>1, <1>2 DEF IInv

(* Nothing changes.                                                         *)
LEMMA StutterIInv ==
  ASSUME IInv, UNCHANGED vars
  PROVE  IInv'
<1>1. BookInv /\ BookInv' /\ Grows /\ FinishedIsExpected'
  BY DEF vars, IInv, BookInv, FinishedIsExpected, Grows
<1>2. \A a \in Agents : JobInv(a)'
  BY <1>1, Undisturbed DEF vars, IInv
<1> QED BY <1>1, <1>2 DEF IInv

LEMMA NextIInv ==
  ASSUME IInv, [Next]_vars
  PROVE  IInv'
<1>1. CASE UNCHANGED vars
  BY <1>1, StutterIInv
<1>2. CASE Restart
  BY <1>2, RestartIInv
<1>3. ASSUME NEW a \in Agents, NEW u \in Uploads, StartUpload(a, u) PROVE IInv'
  BY <1>3, StartUploadIInv
<1>4. ASSUME NEW a \in Agents, Throw(a) PROVE IInv'
  BY <1>4, ThrowIInv
<1>5. ASSUME NEW a \in Agents, Step(a) PROVE IInv'
  BY <1>5, ReadCustodyIInv, ReadCashIInv, LookIInv, BookIInv, ExpectIInv, CheckExpectedIInv,
     FillIInv, EndOfFileIInv, BackfillIInv DEF Step
<1> QED BY <1>1, <1>2, <1>3, <1>4, <1>5 DEF Next

-----------------------------------------------------------------------------
(* However uploads overlap, fail and restart: the strengthening holds.      *)
THEOREM ImportInvariant == Spec => []IInv
<1>1. Init => IInv
  BY InitIInv
<1>2. IInv /\ [Next]_vars => IInv'
  BY NextIInv
<1> QED BY <1>1, <1>2, PTL DEF Spec

(* A file imported to its end has a pending row for each of its lines, the  *)
(* skipped ones too (ensurePendingFinancialLegForImportLine).               *)
THEOREM ImportedFileIsExpected == Spec => []FinishedIsExpected
<1>1. IInv => FinishedIsExpected
  BY DEF IInv
<1> QED BY <1>1, ImportInvariant, PTL

(* Lines of one note do not shut each other out: at the end of a file, a    *)
(* line is in the book unless the index as it was built knew its note or    *)
(* cash, or another line has its print (lookupDuplicate,                    *)
(* registerLineInDedupIndex).                                               *)
THEOREM NewNotesAreBooked == Spec => []NewNoteIsBooked
<1>1. ASSUME IInv, NEW a \in Agents, At(a, "look"), job[a].rest = <<>>,
             NEW l \in ToSet(File(a))
      PROVE  AccountedFor(a, l)
  <2>1. JobInv(a) /\ Importing(a)
    BY <1>1 DEF IInv, JobInv, ShapeOf, Importing, At, Idle
  <2>2. l \notin ToSet(job[a].rest)
    BY <1>1 DEF ToSet
  <2> QED BY <2>1, <2>2 DEF JobInv, LinesOf
<1>2. IInv => NewNoteIsBooked
  BY <1>1 DEF NewNoteIsBooked
<1> QED BY <1>2, ImportInvariant, PTL
-----------------------------------------------------------------------------
(***************************************************************************)
(* One upload at a time: what a trade and its cash leave in the book.      *)
(***************************************************************************)

(* The index tells of a booked line: of the print of its trade or, for a    *)
(* fee of an earlier import, of the number of its note.                     *)
Told(i, b) == Line[b].print \in i.prints \/ (Line[b].fee /\ Line[b].note \in i.notes)

(* At one upload at a time, of an import at point p of files f: its index   *)
(* tells of each booked line but the one just booked, and of each line      *)
(* whose cash is expected though it is not booked; a line about to be       *)
(* booked is unknown to both, one about to be filled has no pending row.    *)
Lone(p, f, r, i, cu, ex) ==
  /\ p = "fill" /\ Head(r) \in Lines => ex[Head(r)] = 0
  /\ f # <<>> =>
       /\ f \in Seq(Seq(Lines \ Old)) /\ r \in Seq(Lines \ Old)
       /\ p = "readCash" => \A b \in Lines : cu[b] > 0 => Told(i, b)
       /\ p \in {"look", "book", "expect", "check", "fill"} =>
            /\ \A b \in Lines : cu[b] > 0 => Told(i, b) \/ (p = "expect" /\ b = Head(r))
            /\ \A l \in Lines \ Old : ex[l] > 0 /\ cu[l] = 0 => Duplicate(i, l)
       /\ p = "book" => cu[Head(r)] = 0 /\ ~Duplicate(i, Head(r))
       /\ p = "expect" => ex[Head(r)] = 0
       /\ p \in {"check", "fill"} => cu[Head(r)] > 0 \/ Duplicate(i, Head(r))

Once(cu, ex) ==
  /\ \A l \in Lines : cu[l] <= 1 /\ ex[l] <= 1
  /\ \A k, l \in Lines : cu[k] > 0 /\ cu[l] > 0 /\ Line[k].trade = Line[l].trade => k = l

LoneInv ==
  alone =>
    /\ \A a, b \in Agents : ~At(a, "idle") /\ ~At(b, "idle") => a = b
    /\ Once(custody, expected)
    /\ \A a \in Agents :
         ~At(a, "idle") => Lone(job[a].at, job[a].files, job[a].rest, job[a].index, custody, expected)

(* What an agent at work knows while no other is.                           *)
LEMMA LoneJob ==
  ASSUME IInv, LoneInv, alone, NEW a \in Agents, ~At(a, "idle")
  PROVE  /\ DOMAIN job = Agents /\ BookInv
         /\ \A b \in Agents : b # a => At(b, "idle")
         /\ Once(custody, expected)
         /\ \E f, r, i, d, w : /\ job[a] = JobAt(job[a].at, f, r, i, d, w)
                               /\ Good(a, job[a].at, f, r, i, d)
                               /\ Lone(job[a].at, f, r, i, custody, expected)
<1>1. DOMAIN job = Agents /\ BookInv
  BY DEF IInv, BookInv
<1>2. PICK f, r, i, d, w : /\ job[a] = JobAt(job[a].at, f, r, i, d, w)
                           /\ Good(a, job[a].at, f, r, i, d)
  BY OldJob
<1>3. job[a].files = f /\ job[a].rest = r /\ job[a].index = i
  BY <1>2 DEF JobAt
<1>4. Lone(job[a].at, job[a].files, job[a].rest, job[a].index, custody, expected)
  BY DEF LoneInv
<1>5. Lone(job[a].at, f, r, i, custody, expected)
  BY <1>3, <1>4
<1> QED BY <1>1, <1>2, <1>5 DEF LoneInv

(* A step of the one agent at work, with the job it makes.                  *)
LEMMA LoneStep ==
  ASSUME IInv, LoneInv, alone, NEW a \in Agents, \A b \in Agents : b # a => At(b, "idle"),
         NEW p, NEW f, NEW r, NEW i, NEW d, NEW w,
         job' = [job EXCEPT ![a] = JobAt(p, f, r, i, d, w)],
         Once(custody', expected'), Lone(p, f, r, i, custody', expected')
  PROVE  LoneInv'
<1>1. DOMAIN job = Agents
  BY DEF IInv, BookInv
<1>2. job'[a] = JobAt(p, f, r, i, d, w) /\ \A b \in Agents \ {a} : job'[b] = job[b]
  BY <1>1
<1>3. job'[a].at = p /\ job'[a].files = f /\ job'[a].rest = r /\ job'[a].index = i
  BY <1>2 DEF JobAt
<1>4. \A b \in Agents \ {a} : At(b, "idle")'
  BY <1>2 DEF At
<1>5. Lone(job'[a].at, job'[a].files, job'[a].rest, job'[a].index, custody', expected')
  BY <1>3
<1>6. \A b, c \in Agents : ~At(b, "idle")' /\ ~At(c, "idle")' => b = c
  BY <1>4
<1>7. \A b \in Agents : ~At(b, "idle")' =>
         Lone(job'[b].at, job'[b].files, job'[b].rest, job'[b].index, custody', expected')
  BY <1>4, <1>5
<1> QED BY <1>6, <1>7 DEF LoneInv

(* An agent that ends, while the book stays.                                *)
LEMMA LoneIdle ==
  ASSUME IInv, LoneInv, alone, NEW a \in Agents, UNCHANGED <<custody, expected>>,
         \A b \in Agents : b # a => At(b, "idle"), job' = [job EXCEPT ![a] = Idle]
  PROVE  LoneInv'
<1>1. DOMAIN job = Agents
  BY DEF IInv, BookInv
<1>2. \A b \in Agents : At(b, "idle")'
  BY <1>1 DEF At, Idle
<1> QED BY <1>2 DEF LoneInv

LEMMA StartUploadLone ==
  ASSUME IInv, LoneInv, alone', NEW a \in Agents, NEW u \in Uploads, StartUpload(a, u)
  PROVE  LoneInv'
<1> DEFINE w == IF u.month THEN FlattenSeq(u.files) ELSE <<>>
<1>1. /\ job' = [job EXCEPT ![a] = JobAt("readCustody", u.files, Head(u.files), NoIndex, NoIndex, w)]
      /\ custody' = custody /\ expected' = expected
  BY Zenon DEF StartUpload, JobAt, book
<1>2. alone /\ \A b \in Agents : At(b, "idle")
  BY DEF StartUpload
<1>3. u.files \in Seq(Seq(Lines \ Old)) /\ u.files # <<>>
  BY UploadAssumption
<1>4. Head(u.files) \in Seq(Lines \ Old)
  BY <1>3, HeadAndTail
<1>5. Lone("readCustody", u.files, Head(u.files), NoIndex, custody', expected')
  BY <1>3, <1>4 DEF Lone
<1>6. Once(custody', expected')
  BY <1>1, <1>2 DEF LoneInv
<1> HIDE DEF w
<1> QED BY <1>1, <1>2, <1>5, <1>6, LoneStep, Zenon

(* The index as it is read tells of all that is booked and of all the cash  *)
(* that is expected.                                                        *)
LEMMA ReadCustodyLone ==
  ASSUME IInv, LoneInv, alone, NEW a \in Agents, ReadCustody(a)
  PROVE  LoneInv'
<1>1. job[a].at = "readCustody" /\ ~At(a, "idle") /\ custody' = custody /\ expected' = expected
  BY DEF ReadCustody, At, book
<1>2. PICK f, r, i, d, w : /\ job[a] = JobAt("readCustody", f, r, i, d, w)
                           /\ Lone("readCustody", f, r, i, custody, expected)
  BY <1>1, LoneJob
<1>3. job' = [job EXCEPT ![a] = JobAt("readCash", f, r, CustodyIndex, d, w)]
  <2>1. job' = [job EXCEPT ![a] = [JobAt("readCustody", f, r, i, d, w) EXCEPT
                                     !.at = "readCash", !.index = CustodyIndex]]
    BY <1>2, Zenon DEF ReadCustody
  <2>2. [JobAt("readCustody", f, r, i, d, w) EXCEPT !.at = "readCash", !.index = CustodyIndex]
         = JobAt("readCash", f, r, CustodyIndex, d, w)
    <3>1. [JobAt("readCustody", f, r, i, d, w) EXCEPT !.at = "readCash"] = JobAt("readCash", f, r, i, d, w)
      BY DEF JobAt
    <3>2. [JobAt("readCash", f, r, i, d, w) EXCEPT !.index = CustodyIndex]
           = JobAt("readCash", f, r, CustodyIndex, d, w)
      BY DEF JobAt
    <3> QED BY <3>1, <3>2, Zenon
  <2> QED BY <2>1, <2>2, Zenon
<1>4. \A b \in Lines : custody[b] > 0 => Told(CustodyIndex, b)
  BY DEF Told, CustodyIndex, Booked
<1>5. Lone("readCash", f, r, CustodyIndex, custody', expected')
  BY <1>1, <1>2, <1>4 DEF Lone
<1>6. Once(custody', expected') /\ \A b \in Agents : b # a => At(b, "idle")
  BY <1>1, LoneJob
<1> QED BY <1>3, <1>5, <1>6, LoneStep, Zenon

LEMMA ReadCashLone ==
  ASSUME IInv, LoneInv, alone, NEW a \in Agents, ReadCash(a)
  PROVE  LoneInv'
<1>1. job[a].at = "readCash" /\ ~At(a, "idle") /\ custody' = custody /\ expected' = expected
  BY DEF ReadCash, At, book
<1>2. PICK f, r, i, d, w : /\ job[a] = JobAt("readCash", f, r, i, d, w)
                           /\ Good(a, "readCash", f, r, i, d)
                           /\ Lone("readCash", f, r, i, custody, expected)
  BY <1>1, LoneJob
<1>3. PICK k : k = [i EXCEPT !.nets = CashIndex]
  OBVIOUS
<1>4. f # <<>> => k.notes = i.notes /\ k.prints = i.prints /\ k.nets = CashIndex
  BY <1>2, <1>3 DEF Good
<1>5. job' = [job EXCEPT ![a] = JobAt("look", f, r, k, k, w)]
  <2>1. job[a].index = i
    BY <1>2 DEF JobAt
  <2>2. job' = [job EXCEPT ![a] = [JobAt("readCash", f, r, i, d, w) EXCEPT
                                     !.at = "look", !.index = k, !.read = k]]
    BY <1>2, <1>3, <2>1, Zenon DEF ReadCash
  <2>3. [JobAt("readCash", f, r, i, d, w) EXCEPT !.at = "look", !.index = k, !.read = k]
         = JobAt("look", f, r, k, k, w)
    <3>1. [JobAt("readCash", f, r, i, d, w) EXCEPT !.at = "look"] = JobAt("look", f, r, i, d, w)
      BY DEF JobAt
    <3>2. [JobAt("look", f, r, i, d, w) EXCEPT !.index = k] = JobAt("look", f, r, k, d, w)
      BY DEF JobAt
    <3>3. [JobAt("look", f, r, k, d, w) EXCEPT !.read = k] = JobAt("look", f, r, k, k, w)
      BY DEF JobAt
    <3> QED BY <3>1, <3>2, <3>3, Zenon
  <2> QED BY <2>2, <2>3, Zenon
<1>6. f # <<>> => \A b \in Lines : custody[b] > 0 => Told(k, b)
  BY <1>2, <1>4 DEF Lone, Told
<1>7. f # <<>> => \A l \in Lines \ Old : expected[l] > 0 => Duplicate(k, l)
  <2> SUFFICES ASSUME f # <<>>, NEW l \in Lines \ Old, expected[l] > 0 PROVE Duplicate(k, l)
    OBVIOUS
  <2>1. Line[l].net = Line[l].row /\ Line[l].row \in CashIndex
    BY RowAssumption DEF CashIndex, Paid
  <2> QED BY <1>4, <2>1 DEF Duplicate
<1>8. Lone("look", f, r, k, custody', expected')
  BY <1>1, <1>2, <1>6, <1>7 DEF Lone
<1>9. Once(custody', expected') /\ \A b \in Agents : b # a => At(b, "idle")
  BY <1>1, LoneJob
<1> QED BY <1>5, <1>8, <1>9, LoneStep, Zenon

LEMMA LookLone ==
  ASSUME IInv, LoneInv, alone, NEW a \in Agents, Look(a)
  PROVE  LoneInv'
<1>1. job[a].at = "look" /\ ~At(a, "idle") /\ job[a].rest # <<>>
      /\ custody' = custody /\ expected' = expected
  BY DEF Look, At, book
<1>2. PICK f, r, i, d, w : /\ job[a] = JobAt("look", f, r, i, d, w)
                           /\ Good(a, "look", f, r, i, d)
                           /\ Lone("look", f, r, i, custody, expected)
  BY <1>1, LoneJob
<1> DEFINE known == Known(Head(r)) \/ Duplicate(i, Head(r))
<1>3. PICK p : p = IF known THEN "check" ELSE "book"
  OBVIOUS
<1>4. job[a].rest = r /\ job[a].index = i
  BY <1>2 DEF JobAt
<1>5. job' = [job EXCEPT ![a] = JobAt(p, f, r, i, d, w)]
  <2>1. job' = [job EXCEPT ![a] = [JobAt("look", f, r, i, d, w) EXCEPT !.at = p]]
    BY <1>3, <1>2, <1>4, Zenon DEF Look, Go
  <2>2. [JobAt("look", f, r, i, d, w) EXCEPT !.at = p]
         = JobAt(p, f, r, i, d, w)
    BY DEF JobAt
  <2> QED BY <2>1, <2>2, Zenon
<1>6. /\ Once(custody', expected') /\ BookInv
      /\ \A b \in Agents : b # a => At(b, "idle")
  BY <1>1, LoneJob
<1>7. f # <<>> /\ r # <<>> /\ r \in Seq(Lines)
  BY <1>1, <1>2, <1>4 DEF Good
<1>8. PICK l \in Lines : l = Head(r)
  BY <1>7, HeadAndTail
<1>9. /\ known => custody[l] > 0 \/ Duplicate(i, l)
      /\ ~known => custody[l] = 0 /\ ~Duplicate(i, l)
  BY <1>6, <1>8 DEF Known, Booked, BookInv
<1>10. Lone(p, f, r, i, custody', expected')
  <2>1. CASE known
    BY <1>1, <1>2, <1>3, <1>7, <1>8, <1>9, <2>1 DEF Lone
  <2>2. CASE ~known
    BY <1>1, <1>2, <1>3, <1>7, <1>8, <1>9, <2>2 DEF Lone
  <2> QED BY <2>1, <2>2
<1> QED BY <1>5, <1>6, <1>10, LoneStep, Zenon

(* Whoever is told of a line takes the others of its trade for it.          *)
LEMMA ToldOfTrade ==
  ASSUME NEW i, NEW b \in Lines, NEW l \in Lines, Told(i, b), Line[b].trade = Line[l].trade
  PROVE  Duplicate(i, l)
BY TradeAssumption DEF Told, Duplicate

(* A line that neither the book nor the index knows is the first of its     *)
(* trade, and its cash is not expected yet.                                 *)
LEMMA BookLone ==
  ASSUME IInv, LoneInv, alone, NEW a \in Agents, Book(a)
  PROVE  LoneInv'
<1>1. job[a].at = "book" /\ ~At(a, "idle") /\ expected' = expected
  BY DEF Book, At
<1>2. PICK f, r, i, d, w : /\ job[a] = JobAt("book", f, r, i, d, w)
                           /\ Good(a, "book", f, r, i, d)
                           /\ Lone("book", f, r, i, custody, expected)
  BY <1>1, LoneJob
<1>3. job[a].rest = r
  BY <1>2 DEF JobAt
<1>4. job' = [job EXCEPT ![a] = JobAt("expect", f, r, i, d, w)]
  <2>1. job' = [job EXCEPT ![a] = [JobAt("book", f, r, i, d, w) EXCEPT !.at = "expect"]]
    BY <1>2, Zenon DEF Book, Go
  <2>2. [JobAt("book", f, r, i, d, w) EXCEPT !.at = "expect"]
         = JobAt("expect", f, r, i, d, w)
    BY DEF JobAt
  <2> QED BY <2>1, <2>2, Zenon
<1>5. /\ Once(custody, expected) /\ BookInv
      /\ \A b \in Agents : b # a => At(b, "idle")
  BY <1>1, LoneJob
<1>6. f # <<>> /\ r # <<>> /\ r \in Seq(Lines \ Old)
  BY <1>2 DEF Good, Lone
<1>7. PICK l \in Lines \ Old : l = Head(r)
  BY <1>6, HeadAndTail
<1>8. custody[l] = 0 /\ ~Duplicate(i, l) /\ expected[l] = 0
  BY <1>2, <1>5, <1>6, <1>7 DEF Lone, BookInv
<1>9. custody' = [custody EXCEPT ![l] = 1]
  BY <1>3, <1>7, <1>8 DEF Book
<1>10. /\ custody'[l] = 1 /\ \A k \in Lines : k # l => custody'[k] = custody[k]
  BY <1>5, <1>9 DEF BookInv
<1>11. \A b \in Lines : custody[b] > 0 => Line[b].trade # Line[l].trade
  BY <1>2, <1>6, <1>8, ToldOfTrade DEF Lone
<1>12. Once(custody', expected')
  BY <1>1, <1>5, <1>10, <1>11 DEF Once
<1>13. Lone("expect", f, r, i, custody', expected')
  BY <1>1, <1>2, <1>6, <1>7, <1>8, <1>10 DEF Lone
<1> QED BY <1>4, <1>5, <1>12, <1>13, LoneStep, Zenon

(* What is registered adds to what the index tells of.                      *)
LEMMA RegisteredTells ==
  ASSUME NEW i, i = [refs |-> i.refs, notes |-> i.notes, nets |-> i.nets, prints |-> i.prints],
         NEW l
  PROVE  /\ Told(Registered(i, l), l)
         /\ \A b : Told(i, b) => Told(Registered(i, l), b)
         /\ \A b : Duplicate(i, b) => Duplicate(Registered(i, l), b)
<1>1. PICK k : k = Registered(i, l)
  OBVIOUS
<1>2. PICK y : y = [i EXCEPT !.refs = i.refs \cup {l}]
  OBVIOUS
<1>3. y = [refs |-> i.refs \cup {l}, notes |-> i.notes, nets |-> i.nets, prints |-> i.prints]
  BY <1>2
<1>4. k = [y EXCEPT !.prints = i.prints \cup {Line[l].print}]
  BY <1>1, <1>2, Zenon DEF Registered
<1>5. /\ k.notes = i.notes /\ k.nets = i.nets /\ k.refs = i.refs \cup {l}
      /\ k.prints = i.prints \cup {Line[l].print}
  BY <1>3, <1>4
<1>6. Told(k, l) /\ \A b : Told(i, b) => Told(k, b)
  BY <1>5 DEF Told
<1>7. \A b : Duplicate(i, b) => Duplicate(k, b)
  BY <1>5 DEF Duplicate
<1> QED BY <1>1, <1>6, <1>7

LEMMA ExpectLone ==
  ASSUME IInv, LoneInv, alone, NEW a \in Agents, Expect(a)
  PROVE  LoneInv'
<1>1. job[a].at = "expect" /\ ~At(a, "idle") /\ custody' = custody
  BY DEF Expect, At
<1>2. PICK f, r, i, d, w : /\ job[a] = JobAt("expect", f, r, i, d, w)
                           /\ Good(a, "expect", f, r, i, d)
                           /\ Lone("expect", f, r, i, custody, expected)
  BY <1>1, LoneJob
<1>3. job[a].rest = r /\ job[a].index = i
  BY <1>2 DEF JobAt
<1>4. PICK k, s : k = Registered(i, Head(r)) /\ s = Tail(r)
  OBVIOUS
<1>5. job' = [job EXCEPT ![a] = JobAt("look", f, s, k, d, w)]
  <2>1. job' = [job EXCEPT ![a] = [JobAt("expect", f, r, i, d, w) EXCEPT
                                     !.at = "look", !.rest = s, !.index = k]]
    BY <1>2, <1>3, <1>4, Zenon DEF Expect
  <2>2. [JobAt("expect", f, r, i, d, w) EXCEPT !.at = "look", !.rest = s, !.index = k]
         = JobAt("look", f, s, k, d, w)
    <3>1. [JobAt("expect", f, r, i, d, w) EXCEPT !.at = "look"] = JobAt("look", f, r, i, d, w)
      BY DEF JobAt
    <3>2. [JobAt("look", f, r, i, d, w) EXCEPT !.rest = s] = JobAt("look", f, s, i, d, w)
      BY DEF JobAt
    <3>3. [JobAt("look", f, s, i, d, w) EXCEPT !.index = k] = JobAt("look", f, s, k, d, w)
      BY DEF JobAt
    <3> QED BY <3>1, <3>2, <3>3, Zenon
  <2> QED BY <2>1, <2>2, Zenon
<1>6. /\ Once(custody, expected) /\ BookInv
      /\ \A b \in Agents : b # a => At(b, "idle")
  BY <1>1, LoneJob
<1>7. f # <<>> /\ r # <<>> /\ r \in Seq(Lines \ Old)
  BY <1>2 DEF Good, Lone
<1>8. s \in Seq(Lines \ Old)
  BY <1>4, <1>7, HeadAndTail
<1>9. PICK l \in Lines \ Old : l = Head(r)
  BY <1>7, HeadAndTail
<1>10. expected[l] = 0 /\ custody[l] > 0
  BY <1>2, <1>7, <1>9 DEF Lone, Good
<1>11. expected' = [expected EXCEPT ![l] = 1]
  BY <1>3, <1>9, <1>10 DEF Expect
<1>12. expected'[l] = 1 /\ \A m \in Lines : m # l => expected'[m] = expected[m]
  BY <1>6, <1>11 DEF BookInv
<1>13. i = [refs |-> i.refs, notes |-> i.notes, nets |-> i.nets, prints |-> i.prints]
  BY <1>2, <1>7 DEF Good
<1>14. /\ Told(k, l) /\ \A b : Told(i, b) => Told(k, b)
       /\ \A b : Duplicate(i, b) => Duplicate(k, b)
  BY <1>4, <1>9, <1>13, RegisteredTells
<1>15. \A b \in Lines : custody'[b] > 0 => Told(k, b)
  BY <1>1, <1>2, <1>7, <1>9, <1>14 DEF Lone
<1>16. \A m \in Lines \ Old : expected'[m] > 0 /\ custody'[m] = 0 => Duplicate(k, m)
  BY <1>1, <1>2, <1>7, <1>10, <1>12, <1>14 DEF Lone
<1>17. Lone("look", f, s, k, custody', expected')
  BY <1>2, <1>7, <1>8, <1>15, <1>16 DEF Lone
<1>18. Once(custody', expected')
  BY <1>1, <1>6, <1>12 DEF Once
<1> QED BY <1>5, <1>6, <1>17, <1>18, LoneStep, Zenon

(* The job after a line that is known, whose cash is expected once at most. *)
LEMMA OnwardLone ==
  ASSUME IInv, LoneInv, alone, NEW a \in Agents, NEW x \in {"check", "fill"}, job[a].at = x,
         Onward(a), custody' = custody, Once(custody', expected'),
         \A l \in Lines : l # Head(job[a].rest) => expected'[l] = expected[l]
  PROVE  LoneInv'
<1>1. ~At(a, "idle")
  BY DEF At
<1>2. PICK f, r, i, d, w : /\ job[a] = JobAt(x, f, r, i, d, w)
                           /\ Good(a, x, f, r, i, d)
                           /\ Lone(x, f, r, i, custody, expected)
  BY <1>1, LoneJob
<1>3. PICK q, s : q = (IF f = <<>> THEN "backfill" ELSE "look") /\ s = Tail(r)
  OBVIOUS
<1>4. job[a].rest = r /\ job[a].files = f
  BY <1>2 DEF JobAt
<1>5. job' = [job EXCEPT ![a] = JobAt(q, f, s, i, d, w)]
  <2>1. job' = [job EXCEPT ![a] = [JobAt(x, f, r, i, d, w) EXCEPT !.rest = s, !.at = q]]
    BY <1>2, <1>3, <1>4, Zenon DEF Onward
  <2>2. [JobAt(x, f, r, i, d, w) EXCEPT !.rest = s, !.at = q]
         = JobAt(q, f, s, i, d, w)
    <3>1. [JobAt(x, f, r, i, d, w) EXCEPT !.rest = s] = JobAt(x, f, s, i, d, w)
      BY DEF JobAt
    <3>2. [JobAt(x, f, s, i, d, w) EXCEPT !.at = q] = JobAt(q, f, s, i, d, w)
      BY DEF JobAt
    <3> QED BY <3>1, <3>2, Zenon
  <2> QED BY <2>1, <2>2, Zenon
<1>6. BookInv /\ \A b \in Agents : b # a => At(b, "idle")
  BY <1>1, LoneJob
<1>7. Lone(q, f, s, i, custody', expected')
  <2>1. CASE f = <<>>
    BY <1>3, <2>1 DEF Lone
  <2>2. CASE f # <<>>
    <3>1. r # <<>> /\ r \in Seq(Lines \ Old) /\ f \in Seq(Seq(Lines \ Old))
      BY <1>2, <2>2 DEF Good, Lone
    <3>2. PICK l \in Lines \ Old : l = Head(r)
      BY <3>1, HeadAndTail
    <3>3. s \in Seq(Lines \ Old)
      BY <1>3, <3>1, HeadAndTail
    <3>4. custody[l] > 0 \/ Duplicate(i, l)
      BY <1>2, <2>2, <3>2 DEF Lone
    <3>5. \A m \in Lines \ Old : expected'[m] > 0 /\ custody'[m] = 0 => Duplicate(i, m)
      <4> SUFFICES ASSUME NEW m \in Lines \ Old, expected'[m] > 0, custody'[m] = 0
                   PROVE  Duplicate(i, m)
        OBVIOUS
      <4>1. CASE m = l
        BY <3>4, <4>1
      <4>2. CASE m # l
        <5>1. expected[m] > 0 /\ custody[m] = 0
          BY <1>4, <3>2, <4>2
        <5> QED BY <1>2, <2>2, <5>1 DEF Lone
      <4> QED BY <4>1, <4>2
    <3>6. \A b \in Lines : custody'[b] > 0 => Told(i, b)
      BY <1>2, <2>2 DEF Lone
    <3> QED BY <1>3, <2>2, <3>1, <3>3, <3>5, <3>6 DEF Lone
  <2> QED BY <2>1, <2>2
<1> QED BY <1>5, <1>6, <1>7, LoneStep, Zenon

LEMMA CheckExpectedLone ==
  ASSUME IInv, LoneInv, alone, NEW a \in Agents, CheckExpected(a)
  PROVE  LoneInv'
<1>1. job[a].at = "check" /\ ~At(a, "idle") /\ custody' = custody /\ expected' = expected
  BY DEF CheckExpected, At, book
<1>2. /\ Once(custody', expected') /\ BookInv
      /\ \A b \in Agents : b # a => At(b, "idle")
  BY <1>1, LoneJob
<1>3. CASE expected[Head(job[a].rest)] > 0
  <2>1. Onward(a)
    BY <1>3 DEF CheckExpected
  <2> QED BY <1>1, <1>2, <2>1, OnwardLone
<1>4. CASE ~(expected[Head(job[a].rest)] > 0)
  <2>1. PICK f, r, i, d, w : /\ job[a] = JobAt("check", f, r, i, d, w)
                             /\ Lone("check", f, r, i, custody, expected)
    BY <1>1, LoneJob
  <2>2. job[a].rest = r
    BY <2>1 DEF JobAt
  <2>3. job' = [job EXCEPT ![a] = JobAt("fill", f, r, i, d, w)]
    <3>1. job' = [job EXCEPT ![a] = [JobAt("check", f, r, i, d, w) EXCEPT !.at = "fill"]]
      BY <1>4, <2>1, Zenon DEF CheckExpected, Go
    <3>2. [JobAt("check", f, r, i, d, w) EXCEPT !.at = "fill"]
           = JobAt("fill", f, r, i, d, w)
      BY DEF JobAt
    <3> QED BY <3>1, <3>2, Zenon
  <2>4. Head(r) \in Lines => expected[Head(r)] = 0
    BY <1>2, <1>4, <2>2 DEF BookInv
  <2>5. Lone("fill", f, r, i, custody', expected')
    BY <1>1, <2>1, <2>4 DEF Lone
  <2> QED BY <1>2, <2>3, <2>5, LoneStep, Zenon
<1> QED BY <1>3, <1>4

LEMMA FillLone ==
  ASSUME IInv, LoneInv, alone, NEW a \in Agents, Fill(a)
  PROVE  LoneInv'
<1>1. job[a].at = "fill" /\ ~At(a, "idle") /\ Onward(a) /\ custody' = custody
  BY DEF Fill, At
<1>2. Once(custody, expected) /\ BookInv
  BY <1>1, LoneJob
<1>3. PICK l : l = Head(job[a].rest) /\ expected' = [expected EXCEPT ![l] = @ + 1]
  BY DEF Fill
<1>4. l \in Lines => expected[l] = 0
  BY <1>1, <1>3 DEF LoneInv, Lone
<1>5. \A m \in Lines : expected'[m] = IF m = l THEN 1 ELSE expected[m]
  BY <1>2, <1>3, <1>4 DEF BookInv
<1>6. Once(custody', expected')
  BY <1>1, <1>2, <1>5 DEF Once
<1> QED BY <1>1, <1>3, <1>5, <1>6, OnwardLone

(* The next file begins without an index, the backfill has none.            *)
LEMMA NextFileLone ==
  ASSUME IInv, LoneInv, alone, NEW a \in Agents, ~At(a, "idle"), job[a].files # <<>>,
         NextFile(a), custody' = custody, expected' = expected
  PROVE  LoneInv'
<1>1. PICK x, f, r, i, d, w : job[a] = JobAt(x, f, r, i, d, w) /\ Lone(x, f, r, i, custody, expected)
  BY LoneJob
<1>2. job[a].files = f /\ job[a].later = w
  BY <1>1 DEF JobAt
<1>3. PICK g, s, n : g = Tail(f) /\ s = Head(Tail(f)) /\ n = NoIndex
  OBVIOUS
<1>4. Once(custody', expected') /\ \A b \in Agents : b # a => At(b, "idle")
  BY LoneJob
<1>5. f \in Seq(Seq(Lines \ Old)) /\ f # <<>>
  BY <1>1, <1>2 DEF Lone
<1>6. g \in Seq(Seq(Lines \ Old)) /\ (g # <<>> => s \in Seq(Lines \ Old))
  BY <1>3, <1>5, HeadAndTail
<1>7. CASE g # <<>>
  <2>1. job' = [job EXCEPT ![a] = JobAt("readCustody", g, s, n, n, w)]
    <3>1. job' = [job EXCEPT ![a] = [JobAt(x, f, r, i, d, w) EXCEPT
                    !.at = "readCustody", !.files = g, !.rest = s, !.index = n, !.read = n]]
      BY <1>1, <1>2, <1>3, <1>7, Zenon DEF NextFile
    <3>2. [JobAt(x, f, r, i, d, w) EXCEPT !.at = "readCustody", !.files = g, !.rest = s]
           = JobAt("readCustody", g, s, i, d, w)
      <4>1. [JobAt(x, f, r, i, d, w) EXCEPT !.at = "readCustody"] = JobAt("readCustody", f, r, i, d, w)
        BY DEF JobAt
      <4>2. [JobAt("readCustody", f, r, i, d, w) EXCEPT !.files = g] = JobAt("readCustody", g, r, i, d, w)
        BY DEF JobAt
      <4>3. [JobAt("readCustody", g, r, i, d, w) EXCEPT !.rest = s] = JobAt("readCustody", g, s, i, d, w)
        BY DEF JobAt
      <4> QED BY <4>1, <4>2, <4>3, Zenon
    <3>3. [JobAt("readCustody", g, s, i, d, w) EXCEPT !.index = n, !.read = n]
           = JobAt("readCustody", g, s, n, n, w)
      <4>1. [JobAt("readCustody", g, s, i, d, w) EXCEPT !.index = n] = JobAt("readCustody", g, s, n, d, w)
        BY DEF JobAt
      <4>2. [JobAt("readCustody", g, s, n, d, w) EXCEPT !.read = n] = JobAt("readCustody", g, s, n, n, w)
        BY DEF JobAt
      <4> QED BY <4>1, <4>2, Zenon
    <3> QED BY <3>1, <3>2, <3>3, Zenon
  <2>2. Lone("readCustody", g, s, n, custody', expected')
    BY <1>6, <1>7 DEF Lone
  <2> QED BY <1>4, <2>1, <2>2, LoneStep, Zenon
<1>8. CASE g = <<>>
  <2>1. job' = [job EXCEPT ![a] = JobAt("backfill", <<>>, w, n, n, w)]
    <3>1. job' = [job EXCEPT ![a] = [JobAt(x, f, r, i, d, w) EXCEPT
                    !.at = "backfill", !.files = <<>>, !.rest = w, !.index = n, !.read = n]]
      BY <1>1, <1>2, <1>3, <1>8, Zenon DEF NextFile
    <3>2. [JobAt(x, f, r, i, d, w) EXCEPT !.at = "backfill", !.files = <<>>, !.rest = w]
           = JobAt("backfill", <<>>, w, i, d, w)
      <4>1. [JobAt(x, f, r, i, d, w) EXCEPT !.at = "backfill"] = JobAt("backfill", f, r, i, d, w)
        BY DEF JobAt
      <4>2. [JobAt("backfill", f, r, i, d, w) EXCEPT !.files = <<>>] = JobAt("backfill", <<>>, r, i, d, w)
        BY DEF JobAt
      <4>3. [JobAt("backfill", <<>>, r, i, d, w) EXCEPT !.rest = w] = JobAt("backfill", <<>>, w, i, d, w)
        BY DEF JobAt
      <4> QED BY <4>1, <4>2, <4>3, Zenon
    <3>3. [JobAt("backfill", <<>>, w, i, d, w) EXCEPT !.index = n, !.read = n]
           = JobAt("backfill", <<>>, w, n, n, w)
      <4>1. [JobAt("backfill", <<>>, w, i, d, w) EXCEPT !.index = n] = JobAt("backfill", <<>>, w, n, d, w)
        BY DEF JobAt
      <4>2. [JobAt("backfill", <<>>, w, n, d, w) EXCEPT !.read = n] = JobAt("backfill", <<>>, w, n, n, w)
        BY DEF JobAt
      <4> QED BY <4>1, <4>2, Zenon
    <3> QED BY <3>1, <3>2, <3>3, Zenon
  <2>2. Lone("backfill", <<>>, w, n, custody', expected')
    BY DEF Lone
  <2> QED BY <1>4, <2>1, <2>2, LoneStep, Zenon
<1> QED BY <1>7, <1>8

LEMMA EndLone ==
  ASSUME IInv, LoneInv, alone, NEW a \in Agents, EndOfFile(a) \/ Throw(a) \/ Backfill(a)
  PROVE  LoneInv'
<1>1. custody' = custody /\ expected' = expected /\ ~At(a, "idle")
  BY DEF EndOfFile, Throw, Backfill, book, At
<1>2. Once(custody', expected') /\ \A b \in Agents : b # a => At(b, "idle")
  BY <1>1, LoneJob
<1>3. CASE EndOfFile(a)
  <2>1. NextFile(a) /\ job[a].at = "look" /\ JobInv(a)
    BY <1>3 DEF EndOfFile, IInv, At
  <2>2. job[a].files # <<>>
    BY <2>1 DEF JobInv, ShapeOf, Idle
  <2> QED BY <1>1, <2>1, <2>2, NextFileLone
<1>4. CASE job' = [job EXCEPT ![a] = Idle]
  BY <1>1, <1>2, <1>4, LoneIdle
<1>5. CASE Throw(a)
  BY <1>1, <1>4, <1>5, NextFileLone DEF Throw
<1>6. CASE Backfill(a) /\ job[a].rest # <<>>
  <2>1. PICK f, r, i, d, w : /\ job[a] = JobAt("backfill", f, r, i, d, w)
                             /\ Good(a, "backfill", f, r, i, d)
    BY <1>1, <1>6, LoneJob DEF Backfill, At
  <2>2. job' = [job EXCEPT ![a] = JobAt("check", f, r, i, d, w)]
    <3>1. job' = [job EXCEPT ![a] = [JobAt("backfill", f, r, i, d, w) EXCEPT !.at = "check"]]
      BY <1>6, <2>1, Zenon DEF Backfill, Go
    <3>2. [JobAt("backfill", f, r, i, d, w) EXCEPT !.at = "check"]
           = JobAt("check", f, r, i, d, w)
      BY DEF JobAt
    <3> QED BY <3>1, <3>2, Zenon
  <2>3. Lone("check", f, r, i, custody', expected')
    BY <2>1 DEF Good, Lone
  <2> QED BY <1>2, <2>2, <2>3, LoneStep, Zenon
<1> QED BY <1>3, <1>4, <1>5, <1>6 DEF Backfill

LEMMA InitLone ==
  ASSUME Init
  PROVE  LoneInv
<1>1. \A a \in Agents : At(a, "idle")
  BY DEF Init, At, Idle
<1>2. Once(custody, expected)
  BY OldAssumption, HistoryAssumption DEF Init, Once
<1> QED BY <1>1, <1>2 DEF LoneInv

LEMMA NextLone ==
  ASSUME IInv, LoneInv, [Next]_vars
  PROVE  LoneInv'
<1>1. SUFFICES ASSUME alone' PROVE LoneInv'
  BY DEF LoneInv
<1>2. CASE UNCHANGED vars
  BY <1>2 DEF vars, LoneInv, At
<1>3. CASE Restart
  BY <1>3 DEF Restart, LoneInv, At, Idle, book
<1>4. ASSUME NEW a \in Agents, NEW u \in Uploads, StartUpload(a, u) PROVE LoneInv'
  BY <1>1, <1>4, StartUploadLone
<1>5. ASSUME NEW a \in Agents, Throw(a) PROVE LoneInv'
  <2>1. alone
    BY <1>1, <1>5 DEF Throw
  <2> QED BY <2>1, <1>5, EndLone
<1>6. ASSUME NEW a \in Agents, Step(a) PROVE LoneInv'
  <2>1. alone
    BY <1>1, <1>6 DEF Step, ReadCustody, ReadCash, Look, Book, Expect, CheckExpected, Fill,
                      EndOfFile, Backfill
  <2> QED BY <2>1, <1>6, ReadCustodyLone, ReadCashLone, LookLone, BookLone, ExpectLone,
             CheckExpectedLone, FillLone, EndLone DEF Step
<1> QED BY <1>2, <1>3, <1>4, <1>5, <1>6 DEF Next

(* While uploads do not overlap the strengthening for one upload holds.     *)
THEOREM LoneInvariant == Spec => []LoneInv
<1>1. Init => LoneInv
  BY InitLone
<1>2. IInv /\ LoneInv /\ [Next]_vars => LoneInv'
  BY NextLone
<1> QED BY <1>1, <1>2, ImportInvariant, PTL DEF Spec

(* Sent again, cut off, under another reference or known from the history:  *)
(* with one upload at a time a trade has one custody row (hasExistingByRef, *)
(* lookupDuplicate, registerLineInDedupIndex).                              *)
THEOREM TradesAreBookedOnce == Spec => []TradeBookedOnce
<1>1. IInv /\ LoneInv => TradeBookedOnce
  BY DEF IInv, BookInv, LoneInv, Once, TradeBookedOnce, Booked
<1> QED BY <1>1, LoneInvariant, ImportInvariant, PTL

(* With one upload at a time recordOperation, the skip of a known line and  *)
(* the backfill do not expect the cash of a line twice, though a line may   *)
(* be expected without being booked.                                        *)
THEOREM CashIsExpectedOnce == Spec => []CashExpectedOnce
<1>1. LoneInv => CashExpectedOnce
  BY DEF LoneInv, Once, CashExpectedOnce
<1> QED BY <1>1, LoneInvariant, PTL
=============================================================================
