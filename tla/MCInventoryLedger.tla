------------------------- MODULE MCInventoryLedger -------------------------
EXTENDS InventoryLedger, TLC

\* Two days; a purchase, a dearer one, a sale of one unit and a sale of two,
\* which cross zero in some orders.
Trade1(kind, delta, unit) == [date : {1, 2}, kind : {kind}, delta : {delta}, unit : {unit}]

MCMovements ==
  Trade1("acquisition", 1, 360) \cup Trade1("acquisition", 1, 720)
  \cup Trade1("disposition", -1, 720) \cup Trade1("disposition", -2, 360)

\* Three days, so that three movements can follow each other.
MCDaily ==
  [date : 1..3, kind : {"acquisition"}, delta : {1}, unit : {360, 720}]
  \cup [date : 1..3, kind : {"disposition"}, delta : {-1, -2}, unit : {360}]

Symmetry == Permutations(Agents)
=============================================================================
