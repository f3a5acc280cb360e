------------------------------ MODULE EventBook ------------------------------
(***************************************************************************)
(* What the registry of business events promises to the modules that use   *)
(* it: a book of headers in which every (source_ref, revision_no) pair is  *)
(* opened at most once, every later revision supersedes the one before it, *)
(* and whoever asks for the first revision of a reference is given the     *)
(* same header.  Every operation is one step here; BusinessEvents has the  *)
(* steps of the code, and is shown to implement this book.                 *)
(***************************************************************************)
EXTENDS Naturals

CONSTANTS
  EventIds,   (* ids that randomUUID() can draw                            *)
  Refs,       (* source_ref values: broker notes, invoices, orders         *)
  NoRef,      (* source_ref IS NULL                                        *)
  NoEvent     (* supersedes_event_id IS NULL                               *)

ASSUME NoRefAssumption   == NoRef \notin Refs
ASSUME NoEventAssumption == NoEvent \notin EventIds

VARIABLES
  events,     (* rows of business_events: the columns that never change    *)
  voided,     (* ids of the rows whose voided_at is not null               *)
  answers     (* what callers of ensureByRef have been given so far        *)

bookVars == <<events, voided, answers>>

Header == [id : EventIds, ref : Refs \cup {NoRef}, rev : Nat \ {0},
           supersedes : EventIds \cup {NoEvent}]

Answer == [ref : Refs, event : EventIds]

Ids == {e.id : e \in events}

BookTypeOK ==
  /\ events \subseteq Header
  /\ voided \subseteq EventIds
  /\ answers \subseteq Answer

\* UNIQUE (organization_id, source_module, source_ref, revision_no); SQL does
\* not compare NULLs, so headers without a reference never collide.
Taken(ref, rev) == ref # NoRef /\ \E e \in events : e.ref = ref /\ e.rev = rev

\* The key forgotten: what a migration that drops the UNIQUE would leave.
Insertable_NoUniqueKey(h) == h.id \notin Ids

Insertable(h) == h.id \notin Ids /\ ~Taken(h.ref, h.rev)

BookInit == events = {} /\ voided = {} /\ answers = {}

Commit(h) ==
  /\ Insertable(h)
  /\ events' = events \cup {h}
  /\ UNCHANGED <<voided, answers>>

Open(id, ref) ==
  Commit([id |-> id, ref |-> ref, rev |-> 1, supersedes |-> NoEvent])

Revise(id, prev) ==
  Commit([id |-> id, ref |-> prev.ref, rev |-> prev.rev + 1, supersedes |-> prev.id])

Tell(e) ==
  /\ e.ref # NoRef /\ e.rev = 1
  /\ answers' = answers \cup {[ref |-> e.ref, event |-> e.id]}
  /\ UNCHANGED <<events, voided>>

Annul(e) ==
  /\ voided' = voided \cup {e.id}
  /\ UNCHANGED <<events, answers>>

BookNext ==
  \/ \E id \in EventIds : \/ \E ref \in Refs \cup {NoRef} : Open(id, ref)
                          \/ \E prev \in events : Revise(id, prev)
  \/ \E e \in events : Tell(e) \/ Annul(e)

BookSpec == BookInit /\ [][BookNext]_bookVars

(***************************************************************************)
(* Parts of the promise that can be read off a state.                      *)
(***************************************************************************)

\* No two headers share a reference and a revision number, however many
\* callers create or amend at once (BusinessEventRegistry.create inserts
\* without looking; only the UNIQUE key stands in the way).
UniqueRevisions ==
  \A e, f \in events :
    e.ref = f.ref /\ e.rev = f.rev /\ e.ref # NoRef => e = f

\* Everybody who asked for the first revision of a reference holds the same
\* header: a note imported by several agents gathers its legs under one id.
EnsureAgreement ==
  \A a, b \in answers : a.ref = b.ref => a.event = b.event

\* Every revision after the first supersedes a committed header of the same
\* reference with the number right before its own: no gap, no dangling link.
RevisionChain ==
  \A e \in events :
    IF e.rev = 1 THEN e.supersedes = NoEvent
    ELSE \E prev \in events : /\ prev.id = e.supersedes
                              /\ prev.ref = e.ref
                              /\ e.rev = prev.rev + 1

\* A header that carries a reference is superseded at most once: two callers
\* who amend it at the same time cannot leave two rival corrections behind.
NoRivalRevisions ==
  \A e, f \in events :
    e.supersedes = f.supersedes /\ e.supersedes # NoEvent /\ e.ref # NoRef => e = f
=============================================================================
