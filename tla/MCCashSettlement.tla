------------------------- MODULE MCCashSettlement -------------------------
\* Three notes, two of them one cent apart, one of those in two legs.  A line
\* that is one cent off one of them, as far as it may be, and two off the
\* other, and a line for the other and the third together, which is also one
\* cent off the first and the third.
EXTENDS CashSettlement

Leg(e, c) == [event |-> e, cents |-> c]
Paid(c) == [cents |-> c, trade |-> 0]
MCLegs == [p |-> Leg(1, 2500), r |-> Leg(1, 500), q |-> Leg(2, 3001), s |-> Leg(3, -1000)]
MCOccurred == <<1, 1, 1>>
MCExtract == <<Paid(3002), Paid(2000)>>

\* Two notes of one amount, and a line for either.
TwinLegs == [p |-> Leg(1, 3000), q |-> Leg(2, 3000), s |-> Leg(3, -1000)]
TwinExtract == <<[cents |-> 3000, trade |-> 0]>>

\* A line with its trading day, 10.00 away from the note.
LooseLegs == [p |-> Leg(1, 30000)]
LooseExtract == <<[cents |-> 31000, trade |-> 1]>>

\* A debit as large as what three notes of both signs leave to receive, and
\* a second leg of the first of them, paid later.
MixedLegs == [p |-> Leg(1, 2000), x |-> Leg(1, 500), q |-> Leg(2, 1000), s |-> Leg(3, -1000)]
MixedExtract == <<Paid(-2000), Paid(500)>>

\* Two lines of one amount, one note.
TwinLines == <<[cents |-> 3000, trade |-> 0], [cents |-> 3000, trade |-> 0]>>
OneLeg == [p |-> Leg(1, 3000)]
=============================================================================
