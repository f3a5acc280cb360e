--------------------------- MODULE MonthSchedule ---------------------------
(***************************************************************************)
(* What "month by month" promises: the months of the calendar are decided  *)
(* one at a time and in order, a month is left behind only once it is kept *)
(* or skipped, and the run is closed when no month is left.  The promise   *)
(* is for a run that one caller at a time drives in one process; once that *)
(* is lost (orderly = FALSE) nothing is promised.                          *)
(***************************************************************************)
EXTENDS Naturals

CONSTANT Last   (* the months of the calendar are 1..Last *)

VARIABLES index, kept, skipped, closed, orderly
schedule == <<index, kept, skipped, closed, orderly>>

Months == 1..Last

Begin == index = 0 /\ kept = {} /\ skipped = {} /\ closed = FALSE /\ orderly = TRUE

\* A month that is imported again after a failed step is still kept.
Keep == /\ index < Last
        /\ kept' = kept \cup {index + 1}
        /\ UNCHANGED <<index, skipped, closed>>

\* A month that was not written: the run waits at it, or goes on without it.
Skip == /\ index < Last
        /\ skipped' = skipped \cup {index + 1}
        /\ index' \in {index, index + 1}
        /\ UNCHANGED <<kept, closed>>

Advance == /\ index + 1 \in kept
           /\ index' = index + 1
           /\ UNCHANGED <<kept, skipped, closed>>

Close == /\ index = Last
         /\ closed' = TRUE
         /\ UNCHANGED <<index, kept, skipped>>

Step == \/ orderly' /\ orderly /\ (Keep \/ Skip \/ Advance \/ Close)
        \/ ~orderly'

Schedule == Begin /\ [][Step]_schedule

\* What follows from the schedule: no month behind the index is undecided,
\* and a run that is closed has decided the whole calendar.
NothingLeftBehind ==
  orderly => /\ 1..index \subseteq kept \cup skipped
             /\ closed => Months \subseteq kept \cup skipped
=============================================================================
