-------------------------- MODULE MCPatrimonyDays --------------------------
\* A stock bought on the first day and sold on the next; only its quotes are
\* required, so a day is worth recording with its quote or without the stock.
EXTENDS PatrimonyDays

Leg(d, t, q) == [day |-> d, ticker |-> t, qty |-> q]
MCEntry == [buy |-> Leg(1, "stock", 1), sell |-> Leg(2, "stock", -1)]
=============================================================================
