--------------------------- MODULE MCPositionLife ---------------------------
EXTENDS PositionLife

\* A movement divides by 1, 2 or 3 units at most once, so with prices that are
\* multiples of 6^5 every average in a life of five movements comes out even.
Tick == 7776

Move1(kind, deltas, prices) == [kind : {kind}, delta : deltas, unit : {p * Tick : p \in prices}]

MCMovements ==
  Move1("opening_balance", {2}, {1})
  \cup Move1("acquisition", {1, 2, 3}, {1, 2})
  \cup Move1("disposition", {-1, -2, -4}, {1, 3})
  \cup Move1("bonus", {1}, {0})
  \cup Move1("cost_adjustment", {0}, {1})
  \cup Move1("revaluation", {0}, {2})
=============================================================================
