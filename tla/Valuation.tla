----------------------------- MODULE Valuation -----------------------------
(***************************************************************************)
(* How a movement changes the valuation of a position:                     *)
(* WeightedAverageValuation.applyMovement, and what                        *)
(* ThreePricesValuation.applyMovement does to the same four numbers (the   *)
(* other two of its prices are never stored and no caller passes the       *)
(* premiums that would make them differ).  Amounts are whole cents; a      *)
(* division that does not come out even is outside the model, and TLC      *)
(* stops if one is met.                                                    *)
(***************************************************************************)
EXTENDS Integers

CONSTANT Movements   (* [kind, delta, unit] that may reach a position      *)

Zero == [quantity |-> 0, pm |-> 0, cost |-> 0, current |-> 0]

Magnitude(n) == IF n < 0 THEN -n ELSE n

Over(n, d) ==
  LET num == IF d < 0 THEN -n ELSE n
  IN CASE num % Magnitude(d) = 0 -> num \div Magnitude(d)

Trades == {"opening_balance", "acquisition", "disposition"}

\* A revaluation moves no quantity (recordOperation), nor does a cost
\* adjustment (MovementType); prices paid are not negative.
ASSUME MovementAssumption ==
  \A m \in Movements :
    /\ m.delta \in Int /\ m.unit \in Int
    /\ m.kind \in Trades => m.unit >= 0
    /\ m.kind \in {"revaluation", "cost_adjustment"} => m.delta = 0

Revalue(p, m) ==
  LET q == p.quantity + m.delta
  IN [p EXCEPT !.quantity = q, !.pm = m.unit, !.current = q * m.unit]

\* Cost absorbed without quantity; nothing to absorb it on a short or empty
\* position.
AbsorbCost(p, m) ==
  IF p.quantity <= 0 THEN p
  ELSE [p EXCEPT !.cost = @ + m.unit,
                 !.pm = Over(p.cost + m.unit, p.quantity),
                 !.current = p.cost + m.unit]

Close(p) == Zero

\* The old lot is over; a new one opens on the other side of zero.
Cross(p, q, m) ==
  [quantity |-> q, pm |-> m.unit, cost |-> q * m.unit, current |-> q * m.unit]

\* The capital left in the lot, which then makes each remaining unit dearer.
Shrink_KeepsCapital(p, q) ==
  [p EXCEPT !.quantity = q, !.pm = Over(p.cost, q), !.current = p.cost]

\* Towards zero: the price stays, the cost shrinks in proportion.
Shrink(p, q) ==
  [p EXCEPT !.quantity = q, !.cost = Over(p.cost * q, p.quantity), !.current = q * p.pm]

\* The price of the last purchase taken for the price of the lot.
Grow_LastPrice(p, q, m) ==
  [quantity |-> q, pm |-> m.unit, cost |-> p.cost + m.delta * m.unit, current |-> q * m.unit]

\* Away from zero: the weighted average.
Grow(p, q, m) ==
  LET added == m.delta * m.unit
      pm == Magnitude(Over(p.quantity * p.pm + added, q))
  IN [quantity |-> q, pm |-> pm, cost |-> p.cost + added, current |-> q * pm]

\* A crossing treated as a sale: what a strategy without case (2) would do.
Trade_NoCrossing(p, m) ==
  LET q == p.quantity + m.delta
  IN IF q = 0 THEN Close(p)
     ELSE IF Magnitude(q) < Magnitude(p.quantity) THEN Shrink(p, q)
     ELSE Grow(p, q, m)

\* The order of the tests is the order of the early returns.
Trade(p, m) ==
  LET q == p.quantity + m.delta
  IN IF q = 0 THEN Close(p)
     ELSE IF p.quantity * q < 0 THEN Cross(p, q, m)
     ELSE IF Magnitude(q) < Magnitude(p.quantity) THEN Shrink(p, q)
     ELSE Grow(p, q, m)

Apply(p, m) ==
  CASE m.kind = "revaluation"     -> Revalue(p, m)
    [] m.kind = "cost_adjustment" -> AbsorbCost(p, m)
    [] m.kind \in Trades          -> Trade(p, m)
    [] OTHER                      -> [p EXCEPT !.quantity = @ + m.delta]  \* split, bonus
=============================================================================
