------------------------- MODULE Positions_proofs -------------------------
(***************************************************************************)
(* A position: for any movements, quantities and prices, what the          *)
(* valuation rule keeps over its life; for any rows, what the replay of    *)
(* them computes, and what recordMovement and the rebuild leave in the     *)
(* snapshot.                                                               *)
(***************************************************************************)
EXTENDS PositionLife, InventoryLedger, FiniteSetTheorems, WellFoundedInduction, TLAPS

(***************************************************************************)
(* One movement.                                                           *)
(***************************************************************************)

Pos(q, pm, c, v) == [quantity |-> q, pm |-> pm, cost |-> c, current |-> v]

(* A position has its four numbers, of which the quantity is whole.         *)
Form(p) == p = Pos(p.quantity, p.pm, p.cost, p.current) /\ p.quantity \in Int

Traded(q, pm, c, m) ==
  LET n == q + m.delta
      added == m.delta * m.unit
      average == Magnitude(Over(q * pm + added, n))
  IN IF n = 0 THEN Pos(0, 0, 0, 0)
     ELSE IF q * n < 0 THEN Pos(n, m.unit, n * m.unit, n * m.unit)
     ELSE IF Magnitude(n) < Magnitude(q) THEN Pos(n, pm, Over(c * n, q), n * pm)
     ELSE Pos(n, average, c + added, n * average)

(* The four early returns of applyMovement, number by number.               *)
LEMMA TradeResult ==
  ASSUME NEW q, NEW pm, NEW c, NEW v, NEW m
  PROVE  Trade(Pos(q, pm, c, v), m) = Traded(q, pm, c, m)
<1> DEFINE n == q + m.delta
           p == Pos(q, pm, c, v)
<1>1. p.quantity = q /\ p.pm = pm /\ p.cost = c
  BY DEF Pos
<1>2. Shrink(p, n) = Pos(n, pm, Over(c * n, q), n * pm)
  <2>1. [Pos(q, pm, c, v) EXCEPT !.quantity = n] = Pos(n, pm, c, v)
    BY DEF Pos
  <2>2. [Pos(n, pm, c, v) EXCEPT !.cost = Over(c * n, q)] = Pos(n, pm, Over(c * n, q), v)
    BY DEF Pos
  <2>3. [Pos(n, pm, Over(c * n, q), v) EXCEPT !.current = n * pm] = Pos(n, pm, Over(c * n, q), n * pm)
    BY DEF Pos
  <2> QED BY <1>1, <2>1, <2>2, <2>3, Zenon DEF Shrink
<1>3. Grow(p, n, m) = Pos(n, Magnitude(Over(q * pm + m.delta * m.unit, n)), c + m.delta * m.unit,
                          n * Magnitude(Over(q * pm + m.delta * m.unit, n)))
  BY <1>1 DEF Grow, Pos
<1>4. Cross(p, n, m) = Pos(n, m.unit, n * m.unit, n * m.unit) /\ Close(p) = Pos(0, 0, 0, 0)
  BY DEF Cross, Close, Zero, Pos
<1> QED BY <1>1, <1>2, <1>3, <1>4, Zenon DEF Trade, Traded

(* What each kind of movement makes of the four numbers.                    *)
LEMMA ApplyResult ==
  ASSUME NEW p, Form(p), NEW m
  PROVE  /\ m.kind = "revaluation" =>
              Apply(p, m) = Pos(p.quantity + m.delta, m.unit, p.cost, (p.quantity + m.delta) * m.unit)
         /\ m.kind = "cost_adjustment" =>
              Apply(p, m) = IF p.quantity <= 0 THEN p
                            ELSE Pos(p.quantity, Over(p.cost + m.unit, p.quantity), p.cost + m.unit,
                                     p.cost + m.unit)
         /\ m.kind \in Trades => Apply(p, m) = Traded(p.quantity, p.pm, p.cost, m)
         /\ m.kind \notin Trades \cup {"revaluation", "cost_adjustment"} =>
              Apply(p, m) = Pos(p.quantity + m.delta, p.pm, p.cost, p.current)
<1>1. PICK q, pm, c, v : p = Pos(q, pm, c, v)
  BY DEF Form
<1>2. p.quantity = q /\ p.pm = pm /\ p.cost = c /\ p.current = v
  BY <1>1 DEF Pos
<1>3. CASE m.kind = "revaluation"
  <2>1. Apply(p, m) = Revalue(p, m)
    BY <1>3, Zenon DEF Apply, Trades
  <2>2. Revalue(p, m) = Pos(q + m.delta, m.unit, c, (q + m.delta) * m.unit)
    <3>1. [Pos(q, pm, c, v) EXCEPT !.quantity = q + m.delta] = Pos(q + m.delta, pm, c, v)
      BY DEF Pos
    <3>2. [Pos(q + m.delta, pm, c, v) EXCEPT !.pm = m.unit] = Pos(q + m.delta, m.unit, c, v)
      BY DEF Pos
    <3>3. [Pos(q + m.delta, m.unit, c, v) EXCEPT !.current = (q + m.delta) * m.unit]
            = Pos(q + m.delta, m.unit, c, (q + m.delta) * m.unit)
      BY DEF Pos
    <3> QED BY <1>1, <1>2, <3>1, <3>2, <3>3, Zenon DEF Revalue
  <2> QED BY <1>2, <1>3, <2>1, <2>2 DEF Trades
<1>4. CASE m.kind = "cost_adjustment"
  <2>1. Apply(p, m) = AbsorbCost(p, m)
    BY <1>4, Zenon DEF Apply, Trades
  <2>2. ASSUME q > 0 PROVE AbsorbCost(p, m) = Pos(q, Over(c + m.unit, q), c + m.unit, c + m.unit)
    <3>0. ~(q <= 0)
      BY <1>2, <2>2 DEF Form
    <3>1. [Pos(q, pm, c, v) EXCEPT !.cost = c + m.unit] = Pos(q, pm, c + m.unit, v)
      BY DEF Pos
    <3>2. [Pos(q, pm, c + m.unit, v) EXCEPT !.pm = Over(c + m.unit, q)]
            = Pos(q, Over(c + m.unit, q), c + m.unit, v)
      BY DEF Pos
    <3>3. [Pos(q, Over(c + m.unit, q), c + m.unit, v) EXCEPT !.current = c + m.unit]
            = Pos(q, Over(c + m.unit, q), c + m.unit, c + m.unit)
      BY DEF Pos
    <3> QED BY <1>1, <1>2, <3>0, <3>1, <3>2, <3>3, Zenon DEF AbsorbCost
  <2>3. q <= 0 => AbsorbCost(p, m) = p
    BY <1>2 DEF AbsorbCost
  <2>4. q \in Int
    BY <1>2 DEF Form
  <2> QED BY <1>2, <1>4, <2>1, <2>2, <2>3, <2>4 DEF Trades
<1>5. CASE m.kind \in Trades
  <2>1. Apply(p, m) = Trade(p, m)
    BY <1>5 DEF Apply, Trades
  <2> QED BY <1>1, <1>2, <1>5, <2>1, TradeResult DEF Trades
<1>6. CASE m.kind \notin Trades \cup {"revaluation", "cost_adjustment"}
  <2>1. Apply(p, m) = [p EXCEPT !.quantity = @ + m.delta]
    BY <1>6 DEF Apply
  <2>2. [p EXCEPT !.quantity = @ + m.delta] = Pos(q + m.delta, pm, c, v)
    BY <1>1, <1>2 DEF Pos
  <2> QED BY <1>2, <1>6, <2>1, <2>2
<1> QED BY <1>3, <1>4, <1>5, <1>6

(* The quantity moves by the movement's, and stays whole.                   *)
LEMMA QuantityMoves ==
  ASSUME NEW p, Form(p), NEW m \in Movements
  PROVE  Form(Apply(p, m)) /\ Apply(p, m).quantity = p.quantity + m.delta
<1>1. m.delta \in Int /\ (m.kind \in {"revaluation", "cost_adjustment"} => m.delta = 0)
  BY MovementAssumption
<1>2. \A q, pm, c, v : Pos(q, pm, c, v).quantity = q /\ (q \in Int => Form(Pos(q, pm, c, v)))
  BY DEF Form, Pos
<1>3. p.quantity \in Int /\ p.quantity + m.delta \in Int
  BY <1>1 DEF Form
<1>4. CASE m.kind = "revaluation"
  BY <1>2, <1>3, <1>4, ApplyResult
<1>5. CASE m.kind = "cost_adjustment"
  BY <1>1, <1>2, <1>3, <1>5, ApplyResult
<1>6. CASE m.kind \in Trades
  <2>1. Apply(p, m) = Traded(p.quantity, p.pm, p.cost, m)
    BY <1>6, ApplyResult
  <2> QED BY <1>2, <1>3, <2>1 DEF Traded
<1>7. CASE m.kind \notin Trades \cup {"revaluation", "cost_adjustment"}
  BY <1>2, <1>3, <1>7, ApplyResult
<1> QED BY <1>4, <1>5, <1>6, <1>7

-----------------------------------------------------------------------------
(* One movement towards zero keeps the price.                               *)
LEMMA TowardsZeroKeepsPrice ==
  ASSUME NEW p, Form(p), NEW m \in Movements, TowardsZero(p, Apply(p, m))
  PROVE  Apply(p, m).pm = p.pm
<1> DEFINE q == p.quantity
           n == q + m.delta
<1>1. m.delta \in Int /\ q \in Int /\ n \in Int /\ (m.kind = "revaluation" => n = q)
  BY MovementAssumption DEF Form
<1>2. \A a, b, c, d : Pos(a, b, c, d).quantity = a /\ Pos(a, b, c, d).pm = b
  BY DEF Pos
<1>3. q * Apply(p, m).quantity > 0 /\ Magnitude(Apply(p, m).quantity) < Magnitude(q)
  BY DEF TowardsZero, SameSide
<1>4. m.kind # "revaluation"
  BY <1>1, <1>2, <1>3, ApplyResult DEF Magnitude
<1>5. CASE m.kind = "cost_adjustment"
  <2>1. Apply(p, m).quantity = q
    BY <1>2, <1>5, ApplyResult
  <2> QED BY <1>1, <1>3, <2>1 DEF Magnitude
<1>6. CASE m.kind \in Trades
  <2>1. Apply(p, m) = Traded(q, p.pm, p.cost, m)
    BY <1>6, ApplyResult
  <2>2. n # 0
    BY <1>1, <1>2, <1>3, <2>1 DEF Traded
  <2>3. Apply(p, m).quantity = n
    BY <1>2, <2>1, <2>2 DEF Traded
  <2>4. ~(q * n < 0) /\ Magnitude(n) < Magnitude(q)
    BY <1>1, <1>3, <2>3
  <2>5. Apply(p, m) = Pos(n, p.pm, Over(p.cost * n, q), n * p.pm)
    BY <2>1, <2>2, <2>4 DEF Traded
  <2> QED BY <1>2, <2>5
<1>7. CASE m.kind \notin Trades \cup {"revaluation", "cost_adjustment"}
  BY <1>2, <1>7, ApplyResult
<1> QED BY <1>4, <1>5, <1>6, <1>7

(* REGRA UNIVERSAL DOS PMs, of every life of a position: a movement that    *)
(* brings it towards zero leaves its price alone (applyMovement).           *)
THEOREM PriceStays == LifeSpec => PriceStaysTowardsZero
<1>1. LifeInit => Form(position)
  BY DEF LifeInit, Form, Zero, Pos
<1>2. Form(position) /\ [Move \/ Retired]_life => Form(position)'
  <2> SUFFICES ASSUME Form(position), [Move \/ Retired]_life PROVE Form(position)'
    OBVIOUS
  <2>1. CASE Move
    BY <2>1, QuantityMoves DEF Move
  <2>2. CASE UNCHANGED life
    BY <2>2 DEF life
  <2> QED BY <2>1, <2>2 DEF Retired
<1>3. Form(position) /\ [Move \/ Retired]_life
        => [TowardsZero(position, position') => position'.pm = position.pm]_life
  <2> SUFFICES ASSUME Form(position), Move \/ Retired, TowardsZero(position, position')
               PROVE  position'.pm = position.pm
    OBVIOUS
  <2>1. CASE Move
    BY <2>1, TowardsZeroKeepsPrice DEF Move
  <2>2. CASE Retired
    BY <2>2 DEF Retired, life
  <2> QED BY <2>1, <2>2
<1> QED BY <1>1, <1>2, <1>3, PTL DEF LifeSpec, PriceStaysTowardsZero
-----------------------------------------------------------------------------
(***************************************************************************)
(* Where divisions come out even: the price and the cost of a lot.         *)
(***************************************************************************)

ComesOut(n, d) == (IF d < 0 THEN -n ELSE n) % Magnitude(d) = 0

(* The divisions applyMovement makes of a position and a movement.          *)
Even(p, m) ==
  LET q == p.quantity + m.delta IN
  /\ m.kind = "cost_adjustment" /\ p.quantity > 0 => ComesOut(p.cost + m.unit, p.quantity)
  /\ m.kind \in Trades /\ q # 0 /\ ~(p.quantity * q < 0) =>
       IF Magnitude(q) < Magnitude(p.quantity) THEN ComesOut(p.cost * q, p.quantity)
       ELSE ComesOut(p.quantity * p.pm + m.delta * m.unit, q)

(* Of each movement that may come next.                                     *)
Exact ==
  moves < MaxMoves =>
    \A m \in Movements : Magnitude(position.quantity + m.delta) <= MaxQuantity => Even(position, m)

Numbers(p) == p.quantity \in Int /\ p.pm \in Int /\ p.cost \in Int /\ p.current \in Int

(* The price lies between two prices paid into the lot.                     *)
Between(pm, l) ==
  \E lo, hi \in l : /\ \A u \in l : lo <= u /\ u <= hi
                    /\ lo <= pm /\ pm <= hi

(* What a lot of trades is worth.                                           *)
Fair(p, l) ==
  /\ p.cost = p.quantity * p.pm
  /\ IF p.quantity = 0 THEN p.pm = 0 ELSE Between(p.pm, l)

LifeInv ==
  /\ Form(position) /\ Numbers(position)
  /\ Magnitude(position.quantity) <= MaxQuantity
  /\ lot \subseteq Nat /\ plain \in BOOLEAN /\ moves \in 0..MaxMoves
  /\ plain => Fair(position, lot)

LEMMA OverExact ==
  ASSUME NEW n \in Int, NEW d \in Int, d # 0, ComesOut(n, d)
  PROVE  Over(n, d) \in Int /\ Over(n, d) * d = n
<1> DEFINE num == IF d < 0 THEN -n ELSE n
           b == Magnitude(d)
<1>1. num \in Int /\ b \in Int /\ b > 0 /\ num % b = 0
  BY DEF Magnitude, ComesOut
<1>2. Over(n, d) = num \div b
  BY <1>1 DEF Over
<1>3. num \div b \in Int /\ num = b * (num \div b)
  <2> HIDE DEF num, b
  <2> QED BY <1>1
<1>4. PICK k \in Int : k = Over(n, d) /\ num = b * k
  BY <1>2, <1>3
<1>5. CASE d < 0
  <2>1. -n = (-d) * k
    BY <1>4, <1>5 DEF Magnitude
  <2> QED BY <1>4, <2>1
<1>6. CASE ~(d < 0)
  BY <1>4, <1>6 DEF Magnitude
<1> QED BY <1>5, <1>6

LEMMA ProductSign ==
  ASSUME NEW a \in Int, NEW b \in Int
  PROVE  /\ a >= 0 /\ b >= 0 => a * b >= 0
         /\ a * b >= 0 /\ b > 0 => a >= 0
         /\ a * b > 0 <=> (a > 0 /\ b > 0) \/ (a < 0 /\ b < 0)
         /\ a * b < 0 <=> (a > 0 /\ b < 0) \/ (a < 0 /\ b > 0)
OBVIOUS

(* A weighted average lies between what it is made of.                      *)
LEMMA Average ==
  ASSUME NEW q \in Int, NEW d \in Int, NEW pm \in Int, NEW u \in Int,
         NEW lo \in Int, NEW hi \in Int, NEW k \in Int,
         q >= 0, d >= 0, q + d > 0, k * (q + d) = q * pm + d * u,
         q = 0 \/ (lo <= pm /\ pm <= hi), lo <= u, u <= hi
  PROVE  lo <= k /\ k <= hi
<1>1. q * (pm - lo) >= 0 /\ q * (hi - pm) >= 0
  <2>1. CASE q = 0
    BY <2>1
  <2>2. CASE q # 0
    BY <2>2, ProductSign
  <2> QED BY <2>1, <2>2
<1>2. d * (u - lo) >= 0 /\ d * (hi - u) >= 0
  BY ProductSign
<1>3. (k - lo) * (q + d) = q * (pm - lo) + d * (u - lo)
  OBVIOUS
<1>4. (hi - k) * (q + d) = q * (hi - pm) + d * (hi - u)
  OBVIOUS
<1>5. (k - lo) * (q + d) >= 0 /\ (hi - k) * (q + d) >= 0
  BY <1>1, <1>2, <1>3, <1>4
<1>6. k - lo >= 0 /\ hi - k >= 0
  BY <1>5, ProductSign
<1> QED BY <1>6

(* A lot of q at v, on either side of zero, grows by d at u: what is paid   *)
(* lies between lo and hi, and k is the average of the whole.               *)
Weighed(q, d, v, u, lo, hi, k) ==
  /\ q + d # 0 /\ ~(q * (q + d) < 0) /\ ~(Magnitude(q + d) < Magnitude(q))
  /\ k * (q + d) = q * v + d * u
  /\ q = 0 \/ (lo <= v /\ v <= hi)
  /\ lo <= u /\ u <= hi

LEMMA GrowingAverage ==
  ASSUME NEW q \in Int, NEW d \in Int, NEW v \in Int, NEW u \in Int,
         NEW lo \in Int, NEW hi \in Int, NEW k \in Int, Weighed(q, d, v, u, lo, hi, k)
  PROVE  lo <= k /\ k <= hi
<1>1. (q >= 0 /\ d >= 0 /\ q + d > 0) \/ (q <= 0 /\ d <= 0 /\ q + d < 0)
  BY ProductSign DEF Magnitude, Weighed
<1>2. CASE q >= 0 /\ d >= 0 /\ q + d > 0
  BY <1>2, Average DEF Weighed
<1>3. CASE q <= 0 /\ d <= 0 /\ q + d < 0
  <2>1. k * ((-q) + (-d)) = (-q) * v + (-d) * u
    BY DEF Weighed
  <2> QED BY <1>3, <2>1, Average DEF Weighed
<1> QED BY <1>1, <1>2, <1>3

(* A movement whose divisions come out even leaves whole numbers.           *)
LEMMA WholeNumbers ==
  ASSUME NEW p, Form(p), Numbers(p), NEW m \in Movements, Even(p, m)
  PROVE  Numbers(Apply(p, m))
<1> DEFINE q == p.quantity
           n == q + m.delta
<1>1. /\ m.delta \in Int /\ m.unit \in Int /\ q \in Int /\ n \in Int
      /\ p.pm \in Int /\ p.cost \in Int /\ p.current \in Int
  BY MovementAssumption DEF Numbers
<1>2. \A a, b, c, d \in Int : Numbers(Pos(a, b, c, d))
  BY DEF Numbers, Pos
<1>3. CASE m.kind = "revaluation"
  BY <1>1, <1>2, <1>3, ApplyResult
<1>4. CASE m.kind = "cost_adjustment"
  <2>1. CASE q <= 0
    BY <1>4, <2>1, ApplyResult
  <2>2. CASE q > 0
    <3>1. Over(p.cost + m.unit, q) \in Int
      BY <1>1, <1>4, <2>2, OverExact DEF Even
    <3>2. Apply(p, m) = Pos(q, Over(p.cost + m.unit, q), p.cost + m.unit, p.cost + m.unit)
      BY <1>1, <1>4, <2>2, ApplyResult
    <3> QED BY <1>1, <1>2, <3>1, <3>2
  <2> QED BY <1>1, <2>1, <2>2
<1>5. CASE m.kind \in Trades
  <2>1. Apply(p, m) = Traded(q, p.pm, p.cost, m)
    BY <1>5, ApplyResult
  <2>2. CASE n = 0 \/ q * n < 0
    BY <1>1, <1>2, <2>1, <2>2 DEF Traded
  <2>3. CASE n # 0 /\ ~(q * n < 0) /\ Magnitude(n) < Magnitude(q)
    <3>0. q # 0 /\ p.cost * n \in Int
      BY <1>1, <2>3 DEF Magnitude
    <3>1. ComesOut(p.cost * n, q)
      BY <1>5, <2>3, Zenon DEF Even
    <3>2. Over(p.cost * n, q) \in Int
      BY <1>1, <3>0, <3>1, OverExact
    <3>3. Apply(p, m) = Pos(n, p.pm, Over(p.cost * n, q), n * p.pm)
      BY <2>1, <2>3 DEF Traded
    <3> QED BY <1>1, <1>2, <3>2, <3>3
  <2>4. CASE n # 0 /\ ~(q * n < 0) /\ ~(Magnitude(n) < Magnitude(q))
    <3> DEFINE s == q * p.pm + m.delta * m.unit
    <3>1. s \in Int /\ ComesOut(s, n)
      BY <1>1, <1>5, <2>4 DEF Even
    <3>2. Over(s, n) \in Int
      BY <1>1, <2>4, <3>1, OverExact
    <3>3. PICK k \in Int : k = Magnitude(Over(s, n))
      BY <3>2 DEF Magnitude
    <3>4. Apply(p, m) = Pos(n, k, p.cost + m.delta * m.unit, n * k)
      BY <2>1, <2>4, <3>3 DEF Traded
    <3> QED BY <1>1, <1>2, <3>3, <3>4
  <2> QED BY <2>2, <2>3, <2>4
<1>6. CASE m.kind \notin Trades \cup {"revaluation", "cost_adjustment"}
  BY <1>1, <1>2, <1>6, ApplyResult
<1> QED BY <1>3, <1>4, <1>5, <1>6

(* The lot closes or another opens.                                         *)
LEMMA OpeningIsFair ==
  ASSUME NEW p, Form(p), Numbers(p), NEW m \in Movements, m.kind \in Trades,
         p.quantity # 0 /\ p.quantity * (p.quantity + m.delta) <= 0
  PROVE  Fair(Apply(p, m), IF Apply(p, m).quantity = 0 THEN {} ELSE {m.unit})
<1> DEFINE n == p.quantity + m.delta
<1>1. m.delta \in Int /\ m.unit \in Int /\ p.quantity \in Int /\ n \in Int
  BY MovementAssumption DEF Numbers
<1>2. Apply(p, m) = Traded(p.quantity, p.pm, p.cost, m)
  BY ApplyResult
<1>3. CASE n = 0
  <2>1. Apply(p, m) = Pos(0, 0, 0, 0)
    BY <1>2, <1>3 DEF Traded
  <2> QED BY <2>1 DEF Fair, Pos
<1>4. CASE n # 0
  <2>1. p.quantity * n < 0
    BY <1>1, <1>4, ProductSign
  <2>2. PICK c : Apply(p, m) = Pos(n, m.unit, n * m.unit, c)
    BY <1>2, <1>4, <2>1 DEF Traded
  <2>3. /\ Apply(p, m).quantity = n /\ Apply(p, m).pm = m.unit /\ Apply(p, m).cost = n * m.unit
    BY <2>2 DEF Pos
  <2>4. Between(m.unit, {m.unit})
    BY <1>1 DEF Between
  <2> QED BY <1>4, <2>3, <2>4 DEF Fair
<1> QED BY <1>3, <1>4

LEMMA NoZeroDivisors ==
  ASSUME NEW a \in Int, NEW b \in Int, a * b = 0, b # 0 PROVE a = 0
<1> SUFFICES ASSUME a # 0 PROVE FALSE
  OBVIOUS
<1> QED BY ProductSign

(* The lot shrinks.                                                         *)
LEMMA ShrinkingIsFair ==
  ASSUME NEW p, Form(p), Numbers(p), NEW m \in Movements, m.kind \in Trades, Even(p, m),
         NEW l, Fair(p, l), p.quantity * (p.quantity + m.delta) > 0,
         Magnitude(p.quantity + m.delta) < Magnitude(p.quantity)
  PROVE  Fair(Apply(p, m), l)
<1> DEFINE q == p.quantity
           n == q + m.delta
<1>1. m.delta \in Int /\ q \in Int /\ n \in Int /\ p.pm \in Int /\ p.cost \in Int
  BY MovementAssumption DEF Numbers
<1>2. n # 0 /\ q # 0 /\ ~(q * n < 0)
  BY <1>1, ProductSign
<1>3. p.cost * n \in Int /\ ComesOut(p.cost * n, q)
  BY <1>1, <1>2 DEF Even
<1>4. PICK x \in Int : x = Over(p.cost * n, q) /\ x * q = p.cost * n
  BY <1>1, <1>2, <1>3, OverExact
<1>5. x * q = (q * p.pm) * n
  BY <1>4 DEF Fair
<1>6. x = n * p.pm
  <2>1. PICK y \in Int : y = x - n * p.pm
    BY <1>1
  <2>2. y * q = 0
    BY <1>1, <1>5, <2>1
  <2>3. y = 0
    BY <1>1, <1>2, <2>2, NoZeroDivisors
  <2> QED BY <1>1, <2>1, <2>3
<1>7. Apply(p, m) = Pos(n, p.pm, x, n * p.pm)
  <2>1. Apply(p, m) = Traded(q, p.pm, p.cost, m)
    BY ApplyResult
  <2> QED BY <1>2, <1>4, <2>1 DEF Traded
<1>8. Apply(p, m).quantity = n /\ Apply(p, m).pm = p.pm /\ Apply(p, m).cost = n * p.pm
  BY <1>6, <1>7 DEF Pos
<1> QED BY <1>2, <1>8 DEF Fair

(* The lot grows, or opens from nothing.                                    *)
LEMMA GrowingIsFair ==
  ASSUME NEW p, Form(p), Numbers(p), NEW m \in Movements, m.kind \in Trades, Even(p, m),
         NEW l, l \subseteq Nat, Fair(p, l), p.quantity + m.delta # 0,
         p.quantity = 0 \/ p.quantity * (p.quantity + m.delta) > 0,
         ~(Magnitude(p.quantity + m.delta) < Magnitude(p.quantity))
  PROVE  Fair(Apply(p, m), IF p.quantity = 0 THEN {m.unit} ELSE l \cup {m.unit})
<1> DEFINE q == p.quantity
           n == q + m.delta
           s == q * p.pm + m.delta * m.unit
           after == IF q = 0 THEN {m.unit} ELSE l \cup {m.unit}
<1>0. after \subseteq Nat /\ m.unit \in after
  <2>1. m.unit \in Nat
    BY MovementAssumption
  <2>2. CASE q = 0
    BY <2>1, <2>2
  <2>3. CASE q # 0
    BY <2>1, <2>3
  <2> QED BY <2>2, <2>3
<1>1. /\ m.delta \in Int /\ m.unit \in Int /\ m.unit >= 0
      /\ q \in Int /\ n \in Int /\ p.pm \in Int /\ p.cost \in Int /\ s \in Int
  BY MovementAssumption DEF Numbers
<1>2. ~(q * n < 0)
  BY <1>1, ProductSign
<1>3. PICK k \in Int : k = Over(s, n) /\ k * n = s
  <2>1. ComesOut(s, n)
    BY <1>2 DEF Even
  <2> QED BY <1>1, <2>1, OverExact
<1>4. PICK lo, hi \in after : /\ \A u \in after : lo <= u /\ u <= hi
                              /\ q = 0 \/ (lo <= p.pm /\ p.pm <= hi)
  <2>1. CASE q = 0
    BY <1>1, <2>1
  <2>2. CASE q # 0
    <3>1. PICK a, b \in l : /\ \A u \in l : a <= u /\ u <= b
                            /\ a <= p.pm /\ p.pm <= b
      BY <2>2 DEF Fair, Between
    <3>2. PICK c \in after : c <= a /\ c <= m.unit /\ c \in {a, m.unit}
      BY <1>1, <2>2, <3>1
    <3>3. PICK d \in after : d >= b /\ d >= m.unit /\ d \in {b, m.unit}
      BY <1>1, <2>2, <3>1
    <3>4. \A u \in after : c <= u /\ u <= d
      <4>1. ASSUME NEW u \in after PROVE c <= u /\ u <= d
        <5>1. a \in Int /\ b \in Int /\ c \in Int /\ d \in Int /\ u \in Int
          <6>1. a \in Nat /\ b \in Nat
            BY <3>1
          <6>2. c \in Nat /\ d \in Nat /\ u \in Nat
            BY <1>0, <3>2, <3>3, <4>1, Zenon
          <6> QED BY <6>1, <6>2
        <5>2. u = m.unit \/ (a <= u /\ u <= b)
          BY <2>2, <3>1, <4>1
        <5> QED BY <1>1, <3>2, <3>3, <5>1, <5>2
      <4> QED BY <4>1
    <3>5. c <= p.pm /\ p.pm <= d
      BY <1>1, <3>1, <3>2, <3>3
    <3> QED BY <3>4, <3>5
  <2> QED BY <2>1, <2>2
<1>5. lo \in Nat /\ hi \in Nat /\ lo <= m.unit /\ m.unit <= hi
  <2> HIDE DEF after
  <2> QED BY <1>0, <1>4
<1>6. lo <= k /\ k <= hi
  <2>1. Weighed(q, m.delta, p.pm, m.unit, lo, hi, k)
    BY <1>2, <1>3, <1>4, <1>5 DEF Weighed
  <2>2. lo \in Int /\ hi \in Int
    BY <1>5
  <2> QED BY <1>1, <1>3, <2>1, <2>2, GrowingAverage
<1>7. Magnitude(k) = k
  BY <1>3, <1>5, <1>6 DEF Magnitude
<1>8. p.cost + m.delta * m.unit = n * k
  <2>1. p.cost = q * p.pm
    BY DEF Fair
  <2> QED BY <1>1, <1>3, <2>1
<1>9. PICK c : Apply(p, m) = Pos(n, k, n * k, c)
  <2>1. Apply(p, m) = Traded(q, p.pm, p.cost, m)
    BY ApplyResult
  <2> QED BY <1>2, <1>3, <1>7, <1>8, <2>1 DEF Traded
<1>10. Apply(p, m).quantity = n /\ Apply(p, m).pm = k /\ Apply(p, m).cost = n * k
  BY <1>9 DEF Pos
<1>11. Between(k, after)
  BY <1>4, <1>6 DEF Between
<1> QED BY <1>10, <1>11 DEF Fair

LEMMA MoveLife ==
  ASSUME LifeInv, Exact, Move
  PROVE  LifeInv'
<1>1. PICK m \in Movements : /\ Magnitude(position.quantity + m.delta) <= MaxQuantity
                             /\ position' = Apply(position, m)
                             /\ Remember(m)
  BY DEF Move
<1> DEFINE p == position
           q == p.quantity
           n == q + m.delta
<1>2. Form(p) /\ Numbers(p) /\ lot \subseteq Nat /\ plain \in BOOLEAN /\ moves \in 0..MaxMoves
  BY DEF LifeInv
<1>3. Even(p, m)
  BY <1>1 DEF Exact, Move
<1>4. /\ m.delta \in Int /\ m.unit \in Int /\ (m.kind \in Trades => m.unit \in Nat)
      /\ q \in Int /\ n \in Int
  BY <1>2, MovementAssumption DEF Numbers
<1>5. Form(position') /\ Numbers(position')
  BY <1>1, <1>2, <1>3, QuantityMoves, WholeNumbers
<1>6. position'.quantity = n
  BY <1>1, <1>2, QuantityMoves
<1>7. Magnitude(position'.quantity) <= MaxQuantity /\ moves' \in 0..MaxMoves
  BY <1>1, <1>2, <1>6, LifeAssumption DEF Move
<1> DEFINE opens == m.kind \in Trades /\ ~SameSide(position, position')
<1>8. /\ opens /\ n = 0 => lot' = {}
      /\ opens /\ n # 0 => lot' = {m.unit}
      /\ m.kind \in Trades /\ ~opens /\ ~TowardsZero(position, position') => lot' = lot \cup {m.unit}
      /\ ~opens /\ (m.kind \in Trades => TowardsZero(position, position')) => lot' = lot
  <2>1. lot' = CASE opens /\ position'.quantity = 0 -> {}
                 [] opens /\ position'.quantity # 0 -> {m.unit}
                 [] m.kind \in Trades /\ ~opens /\ ~TowardsZero(position, position') ->
                      lot \cup {m.unit}
                 [] OTHER -> lot
    BY <1>1 DEF Remember
  <2> QED BY <1>6, <2>1, Zenon
<1>9. plain' = IF opens THEN q # 0 \/ plain ELSE plain /\ m.kind \in Trades
  BY <1>1 DEF Remember
<1>10. lot' \subseteq Nat
  BY <1>2, <1>4, <1>8
<1>11. plain' \in BOOLEAN
  BY <1>2, <1>9
<1>12. ASSUME plain' PROVE Fair(position', lot')
  <2>1. m.kind \in Trades
    BY <1>9, <1>12
  <2>2. SameSide(position, position') <=> q * n > 0
    BY <1>6 DEF SameSide
  <2>3. TowardsZero(position, position') <=> q * n > 0 /\ Magnitude(n) < Magnitude(q)
    BY <1>6, <2>2 DEF TowardsZero
  <2>4. CASE q # 0 /\ ~(q * n > 0)
    <3>1. lot' = IF n = 0 THEN {} ELSE {m.unit}
      BY <1>8, <2>1, <2>2, <2>4
    <3>2. q * n <= 0
      BY <1>4, <2>4
    <3> QED BY <1>1, <1>2, <1>6, <2>1, <2>4, <3>1, <3>2, OpeningIsFair
  <2>5. CASE q * n > 0 /\ Magnitude(n) < Magnitude(q)
    <3>1. lot' = lot /\ plain
      BY <1>8, <1>9, <1>12, <2>2, <2>3, <2>5
    <3>2. Fair(p, lot)
      BY <3>1 DEF LifeInv
    <3> QED BY <1>1, <1>2, <1>3, <2>1, <2>5, <3>1, <3>2, ShrinkingIsFair
  <2>6. CASE q * n > 0 /\ ~(Magnitude(n) < Magnitude(q))
    <3>1. lot' = lot \cup {m.unit} /\ plain
      BY <1>8, <1>9, <1>12, <2>1, <2>2, <2>3, <2>6
    <3>2. Fair(p, lot) /\ q # 0 /\ n # 0
      BY <1>4, <2>6, <3>1, ProductSign DEF LifeInv
    <3> QED BY <1>1, <1>2, <1>3, <2>1, <2>6, <3>1, <3>2, GrowingIsFair
  <2>7. CASE q = 0 /\ n # 0
    <3>1. ~(q * n > 0) /\ ~(Magnitude(n) < Magnitude(q))
      BY <1>4, <2>7, ProductSign DEF Magnitude
    <3>2. lot' = {m.unit} /\ plain
      BY <1>8, <1>9, <1>12, <2>1, <2>2, <2>7, <3>1
    <3>3. Fair(p, lot)
      BY <3>2 DEF LifeInv
    <3> QED BY <1>1, <1>2, <1>3, <2>1, <2>7, <3>1, <3>2, <3>3, GrowingIsFair
  <2>8. CASE q = 0 /\ n = 0
    <3>1. position' = Pos(0, 0, 0, 0)
      BY <1>1, <1>2, <2>1, <2>8, ApplyResult DEF Traded
    <3> QED BY <3>1 DEF Fair, Pos
  <2> QED BY <2>4, <2>5, <2>6, <2>7, <2>8
<1> QED BY <1>5, <1>7, <1>10, <1>11, <1>12 DEF LifeInv

(* Whatever movements come, in any number: the strengthening holds.         *)
THEOREM LifeInvariant == LifeSpec /\ []Exact => []LifeInv
<1>1. LifeInit => LifeInv
  BY LifeAssumption DEF LifeInit, LifeInv, Form, Numbers, Fair, Zero, Pos, Magnitude
<1>2. LifeInv /\ Exact /\ [Move \/ Retired]_life => LifeInv'
  <2> SUFFICES ASSUME LifeInv, Exact, [Move \/ Retired]_life PROVE LifeInv'
    OBVIOUS
  <2>1. CASE Move
    BY <2>1, MoveLife
  <2>2. CASE UNCHANGED life
    BY <2>2 DEF life, LifeInv
  <2> QED BY <2>1, <2>2 DEF Retired
<1> QED BY <1>1, <1>2, PTL DEF LifeSpec

(* The position keeps its type where the divisions come out even.           *)
THEOREM LifeTypeCorrect == LifeSpec /\ []Exact => []LifeTypeOK
<1>1. LifeInv => LifeTypeOK
  <2> SUFFICES ASSUME LifeInv PROVE LifeTypeOK
    OBVIOUS
  <2>1. position.quantity \in -MaxQuantity..MaxQuantity
    BY LifeAssumption DEF LifeInv, Numbers, Magnitude
  <2> QED BY <2>1 DEF LifeInv, Form, Numbers, Pos, LifeTypeOK
<1> QED BY <1>1, LifeInvariant, PTL

(* The average price of a lot of trades lies between the lowest and the     *)
(* highest price paid into it, on both sides of zero (applyMovement, growth *)
(* and crossing).                                                           *)
THEOREM PriceIsWithinLot == LifeSpec /\ []Exact => []PriceWithinLot
<1>1. LifeInv => PriceWithinLot
  <2> SUFFICES ASSUME LifeInv, plain, position.quantity # 0
               PROVE  position.pm \in Min(lot)..Max(lot)
    BY DEF PriceWithinLot, LifeInv, Fair
  <2>1. PICK lo, hi \in lot : /\ \A u \in lot : lo <= u /\ u <= hi
                              /\ lo <= position.pm /\ position.pm <= hi
    BY DEF LifeInv, Fair, Between
  <2>2. lot \subseteq Nat /\ position.pm \in Int
    BY DEF LifeInv, Numbers
  <2>3. Min(lot) = lo
    <3>1. \E x \in lot : \A y \in lot : x <= y
      BY <2>1
    <3>2. PICK x : x = Min(lot)
      OBVIOUS
    <3>3. x \in lot /\ \A y \in lot : x <= y
      BY <3>1, <3>2, Zenon DEF Min
    <3> QED BY <2>1, <2>2, <3>2, <3>3
  <2>4. Max(lot) = hi
    <3>1. \E x \in lot : \A y \in lot : x >= y
      BY <2>1, <2>2
    <3>2. PICK x : x = Max(lot)
      OBVIOUS
    <3>3. x \in lot /\ \A y \in lot : x >= y
      BY <3>1, <3>2, Zenon DEF Max
    <3> QED BY <2>1, <2>2, <3>2, <3>3
  <2> QED BY <2>1, <2>2, <2>3, <2>4
<1> QED BY <1>1, LifeInvariant, PTL

(* The stored cost of a lot of trades is its quantity at the average price, *)
(* on both sides of zero.                                                   *)
THEOREM CostFollowsPrice == LifeSpec /\ []Exact => []CostIsQuantityAtPrice
<1>1. LifeInv => CostIsQuantityAtPrice
  BY DEF LifeInv, Fair, CostIsQuantityAtPrice
<1> QED BY <1>1, LifeInvariant, PTL
-----------------------------------------------------------------------------
(***************************************************************************)
(* The replay.                                                             *)
(***************************************************************************)

(* Induction over the subsets of a finite set.                              *)
LEMMA SubsetInduction ==
  ASSUME NEW S, IsFiniteSet(S), NEW F,
         \A T \in SUBSET S : (\A U \in SUBSET T : U # T => U \in F) => T \in F
  PROVE  \A T \in SUBSET S : T \in F
<1> DEFINE C == {T \in SUBSET S : T \notin F}
<1>0. C \subseteq FiniteSubsetsOf(S)
  BY FS_FiniteSubsetsOfFinite
<1>1. ASSUME C # {} PROVE FALSE
  <2>1. PICK T \in C : \A U \in C : <<U, T>> \notin StrictSubsetOrdering(S)
    <3> HIDE DEF C
    <3> QED BY <1>0, <1>1, WFMin, FS_StrictSubsetOrderingWellFounded
  <2>2. \A U \in SUBSET T : U # T => U \in F
    BY <2>1 DEF StrictSubsetOrdering
  <2> QED BY <2>1, <2>2
<1> QED BY <1>1

(* Rows of a table: each has an id of its own.                              *)
Rows(S) ==
  /\ IsFiniteSet(S)
  /\ \A e \in S : e.id \in Nat /\ e.move \in Movements
  /\ \A e, f \in S : e.id = f.id => e = f

LEMMA FewerRows == ASSUME NEW S, Rows(S), NEW T \in SUBSET S PROVE Rows(T)
BY FS_Subset DEF Rows

(* Before is a strict order of the rows of a table.                         *)
LEMMA BeforeOrders ==
  ASSUME NEW S, Rows(S)
  PROVE  /\ \A e, f \in S : ~(Before(e, f) /\ Before(f, e))
         /\ \A e, f \in S : e # f => Before(e, f) \/ Before(f, e)
         /\ \A e, f, g \in S : Before(e, f) /\ Before(f, g) => Before(e, g)
<1>1. \A e \in S : e.id \in Int /\ e.move.date \in Int
  BY DateAssumption DEF Rows
<1>2. \A e, f \in S : e.id = f.id => e = f
  BY DEF Rows
<1>3. \A e, f \in S : ~(Before(e, f) /\ Before(f, e))
  BY <1>1 DEF Before
<1>4. \A e, f \in S : e # f => Before(e, f) \/ Before(f, e)
  BY <1>1, <1>2 DEF Before
<1>5. \A e, f, g \in S : Before(e, f) /\ Before(f, g) => Before(e, g)
  BY <1>1 DEF Before
<1> QED BY <1>3, <1>4, <1>5

(* Some row is the last.                                                    *)
LEMMA LatestRow ==
  ASSUME NEW S, Rows(S), S # {}
  PROVE  Latest(S) \in S /\ \A f \in S \ {Latest(S)} : Before(f, Latest(S))
<1> DEFINE F == {T \in SUBSET S : T # {} => \E e \in T : \A f \in T \ {e} : Before(f, e)}
<1>1. ASSUME NEW T \in SUBSET S, \A U \in SUBSET T : U # T => U \in F PROVE T \in F
  <2> SUFFICES ASSUME T # {} PROVE \E e \in T : \A f \in T \ {e} : Before(f, e)
    OBVIOUS
  <2>1. PICK z \in T : TRUE
    OBVIOUS
  <2>2. CASE T = {z}
    BY <2>2
  <2>3. CASE T # {z}
    <3>1. T \ {z} \in F /\ T \ {z} # {}
      BY <1>1, <2>1, <2>3
    <3>2. PICK e \in T \ {z} : \A f \in (T \ {z}) \ {e} : Before(f, e)
      BY <3>1
    <3>3. CASE Before(z, e)
      BY <3>2, <3>3
    <3>4. CASE Before(e, z)
      <4>1. \A f \in T \ {z} : Before(f, z)
        BY <2>1, <3>2, <3>4, BeforeOrders
      <4> QED BY <2>1, <4>1
    <3> QED BY <2>1, <3>2, <3>3, <3>4, BeforeOrders
  <2> QED BY <2>2, <2>3
<1>2. S \in F
  <2> HIDE DEF F
  <2>1. IsFiniteSet(S)
    BY DEF Rows
  <2> QED BY <1>1, <2>1, SubsetInduction
<1>3. \E e \in S : \A f \in S \ {e} : Before(f, e)
  BY <1>2
<1> QED BY <1>3, Zenon DEF Latest

LEMMA LatestIs ==
  ASSUME NEW S, Rows(S), NEW e \in S, \A f \in S \ {e} : Before(f, e)
  PROVE  Latest(S) = e
BY LatestRow, BeforeOrders

(* The function of all sets of rows that Replay is read off.                *)
Unfolds(S, f) ==
  f = [s \in SUBSET S |-> IF s = {} THEN Zero ELSE Apply(f[s \ {Latest(s)}], Latest(s).move)]

LEMMA ReplayUnfolds ==
  ASSUME NEW S, NEW g, Unfolds(S, g) PROVE \E f : Unfolds(S, f) /\ Replay(S) = f[S]
BY DEF Unfolds, Replay, MapThenFoldSet

(* There is only one such function.                                         *)
LEMMA UnfoldsOnce ==
  ASSUME NEW S, Rows(S), NEW f, Unfolds(S, f), NEW T \in SUBSET S, NEW g, Unfolds(T, g)
  PROVE  f[T] = g[T]
<1> DEFINE F == {s \in SUBSET T : f[s] = g[s]}
<1>1. ASSUME NEW s \in SUBSET T, \A u \in SUBSET s : u # s => u \in F PROVE s \in F
  <2>1. /\ f[s] = IF s = {} THEN Zero ELSE Apply(f[s \ {Latest(s)}], Latest(s).move)
        /\ g[s] = IF s = {} THEN Zero ELSE Apply(g[s \ {Latest(s)}], Latest(s).move)
    BY DEF Unfolds
  <2>2. CASE s = {}
    BY <2>1, <2>2
  <2>3. CASE s # {}
    <3>1. Latest(s) \in s
      BY <2>3, FewerRows, LatestRow
    <3>2. s \ {Latest(s)} \in F
      BY <1>1, <3>1
    <3> QED BY <2>1, <2>3, <3>2
  <2> QED BY <2>2, <2>3
<1>2. IsFiniteSet(T)
  BY FS_Subset DEF Rows
<1>3. T \in F
  <2> HIDE DEF F
  <2> QED BY <1>1, <1>2, SubsetInduction
<1> QED BY <1>3

(* And there is one.                                                        *)
LEMMA UnfoldsExists == ASSUME NEW S, Rows(S) PROVE \E f : Unfolds(S, f)
<1> DEFINE F == {T \in SUBSET S : \E f : Unfolds(T, f)}
<1>1. ASSUME NEW T \in SUBSET S, \A U \in SUBSET T : U # T => U \in F PROVE T \in F
  <2> DEFINE g == [s \in SUBSET T |-> IF s = {} THEN Zero
                                      ELSE Apply(Replay(s \ {Latest(s)}), Latest(s).move)]
  <2>1. ASSUME NEW s \in SUBSET T, s # {} PROVE g[s \ {Latest(s)}] = Replay(s \ {Latest(s)})
    <3> DEFINE u == s \ {Latest(s)}
               v == u \ {Latest(u)}
    <3>1. Rows(s) /\ Rows(T) /\ Latest(s) \in s
      BY <2>1, FewerRows, LatestRow
    <3>2. u \in SUBSET T /\ u # T /\ Rows(u) /\ u \in F
      BY <1>1, <3>1, FewerRows
    <3>3. PICK f : Unfolds(u, f) /\ Replay(u) = f[u]
      BY <3>2, ReplayUnfolds
    <3>4. CASE u = {}
      BY <3>2, <3>3, <3>4 DEF Unfolds
    <3>5. CASE u # {}
      <4>1. Latest(u) \in u
        BY <3>2, <3>5, LatestRow
      <4>2. v \in SUBSET T /\ v # T /\ v \in SUBSET u /\ v \in F
        BY <1>1, <3>2, <4>1
      <4>3. PICK h : Unfolds(v, h) /\ Replay(v) = h[v]
        BY <4>2, ReplayUnfolds
      <4>4. f[v] = h[v]
        BY <3>2, <3>3, <4>2, <4>3, UnfoldsOnce
      <4>5. f[u] = Apply(f[v], Latest(u).move)
        BY <3>3, <3>5 DEF Unfolds
      <4>6. g[u] = Apply(Replay(v), Latest(u).move)
        BY <3>2, <3>5
      <4> QED BY <3>3, <4>3, <4>4, <4>5, <4>6
    <3> QED BY <3>4, <3>5
  <2>2. Unfolds(T, g)
    <3>1. g = [s \in SUBSET T |-> IF s = {} THEN Zero
                                  ELSE Apply(g[s \ {Latest(s)}], Latest(s).move)]
      <4> SUFFICES ASSUME NEW s \in SUBSET T, s # {}
                   PROVE  Apply(Replay(s \ {Latest(s)}), Latest(s).move)
                            = Apply(g[s \ {Latest(s)}], Latest(s).move)
        OBVIOUS
      <4> QED BY <2>1
    <3> QED BY <3>1 DEF Unfolds
  <2> QED BY <2>2
<1>2. S \in F
  <2> HIDE DEF F
  <2>1. IsFiniteSet(S)
    BY DEF Rows
  <2> QED BY <1>1, <2>1, SubsetInduction
<1> QED BY <1>2

(* A replay is the last movement applied to the replay of the rows before.  *)
LEMMA ReplayStep ==
  ASSUME NEW S, Rows(S)
  PROVE  Replay(S) = IF S = {} THEN Zero
                     ELSE Apply(Replay(S \ {Latest(S)}), Latest(S).move)
<1>1. PICK f : Unfolds(S, f) /\ Replay(S) = f[S]
  BY UnfoldsExists, ReplayUnfolds
<1>2. f[S] = IF S = {} THEN Zero ELSE Apply(f[S \ {Latest(S)}], Latest(S).move)
  BY <1>1 DEF Unfolds
<1> DEFINE T == S \ {Latest(S)}
<1>3. PICK g : Unfolds(T, g) /\ Replay(T) = g[T]
  BY FewerRows, UnfoldsExists, ReplayUnfolds
<1>4. f[T] = g[T]
  BY <1>1, <1>3, UnfoldsOnce
<1> QED BY <1>1, <1>2, <1>3, <1>4

(* A row later than all others adds its movement to their replay: what      *)
(* recordMovement writes is then what a rebuild would find.                 *)
LEMMA ReplayAppends ==
  ASSUME NEW S, NEW e, Rows(S \cup {e}), e \notin S, \A f \in S : Before(f, e)
  PROVE  Replay(S \cup {e}) = Apply(Replay(S), e.move)
<1>1. Latest(S \cup {e}) = e
  BY LatestIs
<1>2. (S \cup {e}) \ {e} = S
  OBVIOUS
<1> QED BY <1>1, <1>2, ReplayStep
-----------------------------------------------------------------------------
(***************************************************************************)
(* The quantity of a replay.                                               *)
(***************************************************************************)

LEMMA ReplayForm == ASSUME NEW S, Rows(S) PROVE Form(Replay(S))
<1> DEFINE F == {T \in SUBSET S : Form(Replay(T))}
<1>1. ASSUME NEW T \in SUBSET S, \A U \in SUBSET T : U # T => U \in F PROVE T \in F
  <2>1. Rows(T)
    BY FewerRows
  <2>2. CASE T = {}
    <3>1. Replay(T) = Zero
      BY <2>1, <2>2, ReplayStep
    <3> QED BY <3>1 DEF Form, Pos, Zero
  <2>3. CASE T # {}
    <3>1. Latest(T) \in T /\ Latest(T).move \in Movements
      BY <2>1, <2>3, LatestRow DEF Rows
    <3>2. T \ {Latest(T)} \in F
      BY <1>1, <3>1
    <3>3. Replay(T) = Apply(Replay(T \ {Latest(T)}), Latest(T).move)
      BY <2>1, <2>3, ReplayStep
    <3> QED BY <3>1, <3>2, <3>3, QuantityMoves
  <2> QED BY <2>2, <2>3
<1>2. S \in F
  <2> HIDE DEF F
  <2>1. IsFiniteSet(S)
    BY DEF Rows
  <2> QED BY <1>1, <2>1, SubsetInduction
<1> QED BY <1>2

(* Wherever in the order a row comes, it adds its movement to the quantity. *)
LEMMA QuantityAdds ==
  ASSUME NEW S, NEW e, Rows(S \cup {e}), e \notin S
  PROVE  Replay(S \cup {e}).quantity = Replay(S).quantity + e.move.delta
<1> DEFINE F == {T \in SUBSET S : Replay(T \cup {e}).quantity = Replay(T).quantity + e.move.delta}
<1>1. ASSUME NEW T \in SUBSET S, \A U \in SUBSET T : U # T => U \in F PROVE T \in F
  <2> DEFINE V == T \cup {e}
             l == Latest(V)
  <2>1. Rows(V) /\ Rows(T) /\ l \in V /\ \A f \in V \ {l} : Before(f, l)
    <3>1. Rows(V) /\ Rows(T)
      BY FewerRows
    <3> QED BY <3>1, LatestRow
  <2>2. l.move \in Movements /\ l.move.delta \in Int /\ e.move.delta \in Int
    BY <2>1, MovementAssumption DEF Rows
  <2>3. Replay(V) = Apply(Replay(V \ {l}), l.move)
    BY <2>1, ReplayStep
  <2>4. Form(Replay(V \ {l})) /\ Rows(V \ {l})
    BY <2>1, FewerRows, ReplayForm
  <2>5. Replay(V).quantity = Replay(V \ {l}).quantity + l.move.delta
    BY <2>2, <2>3, <2>4, QuantityMoves
  <2>6. CASE l = e
    <3>1. V \ {l} = T
      BY <2>6
    <3> QED BY <2>5, <2>6, <3>1
  <2>7. CASE l # e
    <3>1. l \in T /\ V \ {l} = (T \ {l}) \cup {e}
      BY <2>1, <2>7
    <3>2. T \ {l} \in F /\ Rows(T \ {l})
      BY <1>1, <2>1, <3>1, FewerRows
    <3>3. Latest(T) = l
      BY <2>1, <3>1, LatestIs
    <3>4. Replay(T) = Apply(Replay(T \ {l}), l.move)
      BY <2>1, <3>1, <3>3, ReplayStep
    <3>5. Form(Replay(T \ {l}))
      BY <3>2, ReplayForm
    <3>6. Replay(T).quantity = Replay(T \ {l}).quantity + l.move.delta
      BY <2>2, <3>4, <3>5, QuantityMoves
    <3>7. Replay(V \ {l}).quantity = Replay(T \ {l}).quantity + e.move.delta
      BY <3>1, <3>2
    <3>8. Replay(T \ {l}).quantity \in Int
      BY <3>5 DEF Form
    <3> QED BY <2>2, <2>5, <3>6, <3>7, <3>8
  <2> QED BY <2>6, <2>7
<1>2. S \in F
  <2> HIDE DEF F
  <2>1. IsFiniteSet(S)
    BY FewerRows DEF Rows
  <2> QED BY <1>1, <2>1, SubsetInduction
<1> QED BY <1>2
-----------------------------------------------------------------------------
(***************************************************************************)
(* Requests.                                                               *)
(***************************************************************************)

(* One request at a time works on the item.                                 *)
Alone == \A a, b \in Agents : a = b

(* The rows of the item fit into one answer of findWhere.                   *)
Fits == IsFiniteSet(EntryIds) /\ Cardinality(EntryIds) <= ReadLimit

(* No movement leaves the quantity alone.                                   *)
Moving == \A m \in Movements : m.delta # 0

Row(id, m, s) == [id |-> id, move |-> m, seq |-> s]

BookOk(E, D) ==
  /\ IsFiniteSet(E)
  /\ \A e \in E : \E id \in EntryIds, m \in Movements : \E s : e = Row(id, m, s)
  /\ \A e, f \in E : e.id = f.id => e = f
  /\ \A id \in D : \E e \in E : e.id = id

Recording(at, m, p) == [at |-> at, move |-> m, before |-> p]
Storing(p) == [at |-> "store", after |-> p]
At(point) == [at |-> point]

TaskOk(t) ==
  \/ t \in {At("idle"), At("rebuild"), At("rebuilt")}
  \/ \E p : t = Storing(p)
  \/ \E m \in Movements : \E p : t \in {Recording("insert", m, p), Recording("persist", m, p)}

Forms ==
  /\ BookOk(entries, deleted)
  /\ DOMAIN task = Agents /\ \A a \in Agents : TaskOk(task[a])
  /\ tidy \in BOOLEAN /\ grown \in BOOLEAN

(* Snapshot i has the numbers of position p.                                *)
Holds(i, p) == i.quantity = p.quantity /\ i.cost = p.cost /\ i.current = p.current

(* A rebuild of the rows L at work, and one that has just returned.         *)
RebuildOk(t, L, i) ==
  /\ t.at = "store" => t.after = Replay(L)
  /\ t.at = "rebuilt" => Holds(i, Replay(L))

(* Rows came in by date: the snapshot is their replay, save for the one     *)
(* that was just inserted.                                                  *)
TidyOk(t, L, i) ==
  /\ t.at \in {"idle", "insert"} => Holds(i, Replay(L))
  /\ t.at = "insert" => t.before = Replay(L) /\ \A e \in L : e.move.date < t.move.date
  /\ t.at = "persist" => Apply(t.before, t.move) = Replay(L)

Shows(status, L) == status = "active" <=> L = {} \/ Replay(L).quantity # 0

(* Rows were only added, in any order: the status is that of their          *)
(* quantity, save for the one that was just inserted.                       *)
GrownOk(t, L, i) ==
  /\ t.at \in {"idle", "insert", "persist"}
  /\ t.at \in {"idle", "insert"} => i.quantity = Replay(L).quantity /\ Shows(i.status, L)
  /\ t.at = "insert" => t.before = Replay(L)
  /\ t.at = "persist" => \E e \in L : /\ e.move = t.move
                                      /\ t.before = Replay(L \ {e}) /\ Shows(i.status, L \ {e})

StateOk(t, L, i, o, g) ==
  /\ RebuildOk(t, L, i)
  /\ o => TidyOk(t, L, i)
  /\ g /\ Moving => GrownOk(t, L, i)

LedgerInv == Forms /\ \A a \in Agents : StateOk(task[a], Live, item, tidy, grown)

LEMMA TaskFields ==
  /\ \A x : At(x).at = x
  /\ \A p : Storing(p).at = "store" /\ Storing(p).after = p
  /\ \A x, m, p : /\ Recording(x, m, p).at = x
                  /\ Recording(x, m, p).move = m /\ Recording(x, m, p).before = p
BY DEF At, Storing, Recording

LEMMA BookRows ==
  ASSUME NEW E, NEW D, BookOk(E, D) PROVE Rows({e \in E : e.id \notin D})
<1> DEFINE L == {e \in E : e.id \notin D}
<1>1. L \in SUBSET E /\ IsFiniteSet(E)
  BY DEF BookOk
<1>2. IsFiniteSet(L)
  BY <1>1, FS_Subset
<1>3. \A e \in E : e.id \in Nat /\ e.move \in Movements
  BY EntryAssumption DEF BookOk, Row
<1>4. \A e, f \in E : e.id = f.id => e = f
  BY DEF BookOk
<1> QED BY <1>1, <1>2, <1>3, <1>4 DEF Rows

LEMMA LiveRows == ASSUME Forms PROVE Rows(Live)
BY BookRows DEF Forms, Live

(* findWhere then returns every row that is alive.                          *)
LEMMA ReadsAll == ASSUME Fits, Forms PROVE \A rows \in Readable : rows = Live
<1> DEFINE f == [e \in Live |-> e.id]
<1>1. \A e \in Live : e.id \in EntryIds
  BY DEF Forms, BookOk, Row, Live
<1>2. \A e, g \in Live : e.id = g.id => e = g
  BY DEF Forms, BookOk, Live
<1>3. f \in Injection(Live, EntryIds)
  BY <1>1, <1>2 DEF Injection, IsInjective
<1>4. IsFiniteSet(Live) /\ Cardinality(Live) <= Cardinality(EntryIds)
  <2> HIDE DEF f
  <2> QED BY <1>3, FS_Injection DEF Fits
<1>5. Cardinality(Live) \in Nat /\ Cardinality(EntryIds) \in Nat /\ ReadLimit \in Nat
  BY <1>4, FS_CardinalityType, LimitAssumption DEF Fits
<1>6. ~(ReadLimit < Cardinality(Live))
  BY <1>4, <1>5 DEF Fits
<1>7. ASSUME NEW rows \in Readable PROVE rows = Live
  <2>1. rows \in SUBSET Live /\ Cardinality(rows) = Cardinality(Live)
    BY <1>4, <1>5, <1>6 DEF Readable, Fits
  <2> QED BY <1>4, <2>1, FS_Subset
<1> QED BY <1>7

(* What one request does is what happens to the item.                       *)
LEMMA OneRequest ==
  ASSUME Alone, LedgerInv, NEW a \in Agents, NEW t, Set(a, t), TaskOk(t),
         BookOk(entries, deleted)', tidy' \in BOOLEAN, grown' \in BOOLEAN,
         StateOk(t, Live', item', tidy', grown')
  PROVE  LedgerInv'
<1>1. DOMAIN task' = Agents /\ task'[a] = t
  BY DEF Set, LedgerInv, Forms
<1>2. \A b \in Agents : task'[b] = t
  BY <1>1 DEF Alone
<1> QED BY <1>1, <1>2 DEF LedgerInv, Forms

LEMMA SameLive == (UNCHANGED <<entries, deleted>>) => Live' = Live
BY DEF Live

LEMMA LoadLedgerLedger ==
  ASSUME Alone, Fits, LedgerInv, NEW a \in Agents, LoadLedger(a) PROVE LedgerInv'
<1>1. PICK m \in Movements, rows \in Readable :
         /\ Set(a, [at |-> "insert", move |-> m, before |-> Replay(rows)])
         /\ tidy' = (tidy /\ \A e \in Live : e.move.date < m.date)
  BY DEF LoadLedger
<1> DEFINE t == Recording("insert", m, Replay(Live))
<1>2. Set(a, t)
  BY <1>1, ReadsAll DEF LedgerInv, Recording
<1>3. task[a].at = "idle" /\ UNCHANGED <<entries, deleted, item, grown>> /\ Live' = Live
  BY SameLive DEF LoadLedger, IsAt
<1>4. StateOk(task[a], Live, item, tidy, grown) /\ Forms
  BY DEF LedgerInv
<1>5. t.at = "insert" /\ t.before = Replay(Live) /\ t.move = m /\ TaskOk(t)
  BY DEF Recording, TaskOk
<1> HIDE DEF t
<1>6. RebuildOk(t, Live, item)
  BY <1>5 DEF RebuildOk
<1>7. tidy' => TidyOk(t, Live, item)
  BY <1>1, <1>3, <1>4, <1>5 DEF TidyOk, StateOk
<1>8. grown /\ Moving => GrownOk(t, Live, item)
  BY <1>3, <1>4, <1>5 DEF GrownOk, StateOk
<1>9. StateOk(t, Live', item', tidy', grown')
  BY <1>3, <1>6, <1>7, <1>8 DEF StateOk
<1>10. BookOk(entries, deleted)' /\ tidy' \in BOOLEAN /\ grown' \in BOOLEAN
  BY <1>1, <1>3, <1>4 DEF Forms
<1> QED BY <1>2, <1>5, <1>9, <1>10, OneRequest

LEMMA InsertEntryLedger ==
  ASSUME Alone, Fits, LedgerInv, NEW a \in Agents, InsertEntry(a) PROVE LedgerInv'
<1>1. task[a].at = "insert" /\ TaskOk(task[a]) /\ Forms
  BY DEF InsertEntry, IsAt, LedgerInv, Forms
<1>2. PICK m, p : m \in Movements /\ task[a] = Recording("insert", m, p)
  BY <1>1, TaskFields DEF TaskOk
<1>3. PICK id \in EntryIds : /\ id \notin {e.id : e \in entries}
                             /\ entries' = entries \cup {[id |-> id, move |-> task[a].move,
                                                          seq |-> Cardinality(entries)]}
  BY DEF InsertEntry
<1> DEFINE r == Row(id, m, Cardinality(entries))
           t == Recording("persist", m, p)
<1>4. entries' = entries \cup {r} /\ r.id = id /\ r.move = m
  BY <1>2, <1>3 DEF Row, Recording
<1>5. Set(a, t)
  <2>1. [Recording("insert", m, p) EXCEPT !.at = "persist"] = t
    BY DEF Recording
  <2> QED BY <1>2, <2>1 DEF InsertEntry
<1>6. UNCHANGED <<deleted, item, tidy, grown>>
  BY DEF InsertEntry
<1>7. /\ t.at = "persist" /\ t.move = m /\ t.before = p /\ TaskOk(t)
      /\ task[a].move = m /\ task[a].before = p
  <2>1. TaskOk(t)
    BY <1>2 DEF TaskOk
  <2> QED BY <1>2, <2>1, TaskFields
<1>8. BookOk(entries', deleted')
  <2>1. IsFiniteSet(entries')
    BY <1>1, <1>4, FS_AddElement DEF Forms, BookOk
  <2>2. \A e \in entries' : \E i \in EntryIds, k \in Movements : \E s : e = Row(i, k, s)
    <3>1. \E s : r = Row(id, m, s)
      OBVIOUS
    <3>2. \A e \in entries : \E i \in EntryIds, k \in Movements : \E s : e = Row(i, k, s)
      BY <1>1 DEF Forms, BookOk
    <3> HIDE DEF r
    <3> QED BY <1>2, <1>3, <1>4, <3>1, <3>2
  <2>3. \A e, f \in entries' : e.id = f.id => e = f
    BY <1>1, <1>3, <1>4 DEF Forms, BookOk
  <2>4. \A i \in deleted' : \E e \in entries' : e.id = i
    BY <1>1, <1>4, <1>6 DEF Forms, BookOk
  <2> QED BY <2>1, <2>2, <2>3, <2>4 DEF BookOk
<1>9. r \notin Live /\ Live' = Live \cup {r} /\ Live' \ {r} = Live
  <2>1. \A e \in entries : e.id # id
    BY <1>3
  <2>2. id \notin deleted
    BY <1>1, <2>1 DEF Forms, BookOk
  <2> HIDE DEF r
  <2>3. Live' = Live \cup {r}
    BY <1>4, <1>6, <2>2 DEF Live
  <2>4. r \notin Live
    BY <1>4, <2>1 DEF Live
  <2> QED BY <2>3, <2>4
<1>11. Rows(Live \cup {r}) /\ Rows(Live)
  <2>1. Rows(Live')
    BY <1>8, BookRows DEF Live
  <2> QED BY <1>1, <1>9, <2>1, LiveRows
<1>12. StateOk(task[a], Live, item, tidy, grown)
  BY DEF LedgerInv
<1>13. RebuildOk(t, Live', item)
  BY <1>7 DEF RebuildOk
<1>14. tidy => TidyOk(t, Live', item)
  <2> SUFFICES ASSUME tidy PROVE TidyOk(t, Live', item)
    OBVIOUS
  <2>1. p = Replay(Live) /\ \A e \in Live : e.move.date < m.date
    BY <1>1, <1>7, <1>12 DEF StateOk, TidyOk
  <2>2. \A e \in Live : Before(e, r)
    BY <1>4, <2>1 DEF Before
  <2>3. Replay(Live') = Apply(Replay(Live), m)
    BY <1>4, <1>9, <1>11, <2>2, ReplayAppends
  <2> HIDE DEF t
  <2> QED BY <1>7, <2>1, <2>3 DEF TidyOk
<1>15. grown /\ Moving => GrownOk(t, Live', item)
  <2> SUFFICES ASSUME grown, Moving PROVE GrownOk(t, Live', item)
    OBVIOUS
  <2>1. p = Replay(Live) /\ Shows(item.status, Live)
    BY <1>1, <1>7, <1>12 DEF StateOk, GrownOk
  <2>2. r \in Live' /\ r.move = m /\ p = Replay(Live' \ {r}) /\ Shows(item.status, Live' \ {r})
    BY <1>4, <1>9, <2>1
  <2> HIDE DEF t, r
  <2> QED BY <1>7, <2>2 DEF GrownOk
<1>16. StateOk(t, Live', item', tidy', grown')
  BY <1>6, <1>13, <1>14, <1>15 DEF StateOk
<1> QED BY <1>1, <1>5, <1>6, <1>7, <1>8, <1>16, OneRequest DEF Forms

LEMMA UpdateSnapshotLedger ==
  ASSUME Alone, Fits, LedgerInv, NEW a \in Agents, UpdateSnapshot(a) PROVE LedgerInv'
<1>1. task[a].at = "persist" /\ TaskOk(task[a]) /\ Forms
  BY DEF UpdateSnapshot, IsAt, LedgerInv, Forms
<1>2. PICK m, p : m \in Movements /\ task[a] = Recording("persist", m, p)
  BY <1>1, TaskFields DEF TaskOk
<1> DEFINE next == Apply(p, m)
<1>3. task[a].move = m /\ task[a].before = p
  BY <1>2 DEF Recording
<1>4. item' = Written(next, StatusAfter(p, next)) /\ Set(a, At("idle"))
  BY <1>3 DEF UpdateSnapshot, At, Idle
<1>5. UNCHANGED <<entries, deleted, tidy, grown>> /\ Live' = Live
  BY SameLive DEF UpdateSnapshot
<1>6. Holds(item', next) /\ item'.quantity = next.quantity /\ item'.status = StatusAfter(p, next)
  BY <1>4 DEF Holds, Written
<1>7. StateOk(task[a], Live, item, tidy, grown)
  BY DEF LedgerInv
<1>8. At("idle").at = "idle" /\ TaskOk(At("idle"))
  BY DEF At, TaskOk
<1>9. RebuildOk(At("idle"), Live, item')
  BY <1>8 DEF RebuildOk
<1>10. tidy => TidyOk(At("idle"), Live, item')
  <2> SUFFICES ASSUME tidy PROVE TidyOk(At("idle"), Live, item')
    OBVIOUS
  <2>1. next = Replay(Live)
    BY <1>1, <1>3, <1>7 DEF StateOk, TidyOk
  <2> QED BY <1>6, <1>8, <2>1 DEF TidyOk
<1>11. grown /\ Moving => GrownOk(At("idle"), Live, item')
  <2> SUFFICES ASSUME grown, Moving PROVE GrownOk(At("idle"), Live, item')
    OBVIOUS
  <2>1. PICK e \in Live : /\ e.move = m /\ p = Replay(Live \ {e})
                          /\ Shows(item.status, Live \ {e})
    BY <1>1, <1>3, <1>7 DEF StateOk, GrownOk
  <2> DEFINE L == Live \ {e}
  <2>2. Rows(Live) /\ Rows(L) /\ L \cup {e} = Live
    BY <1>1, <2>1, LiveRows, FewerRows
  <2>3. Form(p) /\ m.delta \in Int /\ m.delta # 0
    BY <1>2, <2>1, <2>2, ReplayForm, MovementAssumption DEF Moving
  <2>4. Replay(Live).quantity = p.quantity + m.delta
    BY <2>1, <2>2, QuantityAdds
  <2>5. next.quantity = p.quantity + m.delta /\ p.quantity \in Int
    BY <1>2, <2>3, QuantityMoves DEF Form
  <2>6. item.status = "active" <=> L = {} \/ p.quantity # 0
    BY <2>1 DEF Shows
  <2>7. StatusAfter(p, next) = "active" <=> next.quantity # 0
    <3>1. CASE next.quantity = 0
      <4>1. p.quantity # 0
        BY <2>3, <2>5, <3>1
      <4> QED BY <3>1, <4>1 DEF StatusAfter
    <3>2. CASE next.quantity # 0 /\ p.quantity = 0
      BY <3>2 DEF StatusAfter
    <3>3. CASE next.quantity # 0 /\ p.quantity # 0
      BY <2>6, <3>3 DEF StatusAfter
    <3> QED BY <3>1, <3>2, <3>3
  <2>8. Shows(item'.status, Live)
    BY <1>6, <2>1, <2>4, <2>5, <2>7 DEF Shows
  <2> QED BY <1>6, <1>8, <2>4, <2>5, <2>8 DEF GrownOk
<1>12. StateOk(At("idle"), Live', item', tidy', grown')
  BY <1>5, <1>9, <1>10, <1>11 DEF StateOk
<1> QED BY <1>1, <1>4, <1>5, <1>8, <1>12, OneRequest DEF Forms

LEMMA VoidLegLedger ==
  ASSUME Alone, Fits, LedgerInv, NEW a \in Agents, VoidLeg(a) PROVE LedgerInv'
<1>1. PICK e \in Live : deleted' = deleted \cup {e.id}
  BY DEF VoidLeg
<1>2. Set(a, At("rebuild")) /\ grown' = FALSE /\ UNCHANGED <<entries, item, tidy>>
  BY DEF VoidLeg, At
<1>3. Forms
  BY DEF LedgerInv
<1>4. BookOk(entries, deleted)'
  BY <1>1, <1>2, <1>3 DEF Forms, BookOk, Live
<1>5. At("rebuild").at = "rebuild" /\ TaskOk(At("rebuild"))
  BY DEF At, TaskOk
<1>6. StateOk(At("rebuild"), Live', item', tidy', grown')
  BY <1>2, <1>5 DEF StateOk, RebuildOk, TidyOk
<1> QED BY <1>2, <1>3, <1>4, <1>5, <1>6, OneRequest DEF Forms

LEMMA DropLegLedger ==
  ASSUME Alone, Fits, LedgerInv, NEW a \in Agents, DropLeg(a) PROVE LedgerInv'
<1>1. PICK e \in Live : deleted' = deleted \cup {e.id}
  BY DEF DropLeg
<1>2. /\ task[a].at = "idle" /\ tidy' = FALSE /\ grown' = FALSE
      /\ UNCHANGED <<entries, item, task>>
  BY DEF DropLeg, IsAt
<1>3. Forms
  BY DEF LedgerInv
<1>4. BookOk(entries, deleted)'
  BY <1>1, <1>2, <1>3 DEF Forms, BookOk, Live
<1>5. StateOk(task[a], Live', item', tidy', grown')
  BY <1>2 DEF StateOk, RebuildOk
<1>6. \A b \in Agents : b = a
  BY DEF Alone
<1> QED BY <1>2, <1>3, <1>4, <1>5, <1>6 DEF LedgerInv, Forms

LEMMA RepairEntryLedger ==
  ASSUME Alone, Fits, LedgerInv, NEW a \in Agents, RepairEntry(a) PROVE LedgerInv'
<1>1. PICK e \in Live, m \in Movements : entries' = (entries \ {e}) \cup {[e EXCEPT !.move = m]}
  BY DEF RepairEntry
<1>2. Set(a, At("rebuild")) /\ grown' = FALSE /\ UNCHANGED <<deleted, item, tidy>>
  BY DEF RepairEntry, At
<1>3. Forms /\ e \in entries
  BY DEF LedgerInv, Live
<1>4. PICK id, k, s : id \in EntryIds /\ k \in Movements /\ e = Row(id, k, s)
  BY <1>3 DEF Forms, BookOk
<1>5. [e EXCEPT !.move = m] = Row(id, m, s)
  BY <1>4 DEF Row
<1>6. Row(id, m, s).id = e.id
  BY <1>4 DEF Row
<1>7. BookOk(entries, deleted)'
  <2> DEFINE r == Row(id, m, s)
  <2>1. \E t : r = Row(id, m, t)
    OBVIOUS
  <2> HIDE DEF r
  <2>2. entries' = (entries \ {e}) \cup {r} /\ r.id = e.id
    BY <1>1, <1>5, <1>6 DEF r
  <2>3. IsFiniteSet(entries')
    BY <1>3, <2>2, FS_RemoveElement, FS_AddElement DEF Forms, BookOk
  <2>4. \A f \in entries' : \E i \in EntryIds, q \in Movements : \E t : f = Row(i, q, t)
    <3>1. \A f \in entries : \E i \in EntryIds, q \in Movements : \E t : f = Row(i, q, t)
      BY <1>3 DEF Forms, BookOk
    <3> QED BY <1>4, <2>1, <2>2, <3>1
  <2>5. \A f, g \in entries' : f.id = g.id => f = g
    BY <1>3, <2>2 DEF Forms, BookOk
  <2>6. \A i \in deleted : \E f \in entries' : f.id = i
    BY <1>3, <2>2 DEF Forms, BookOk
  <2> QED BY <1>2, <2>3, <2>4, <2>5, <2>6 DEF BookOk
<1>8. At("rebuild").at = "rebuild" /\ TaskOk(At("rebuild"))
  BY DEF At, TaskOk
<1>9. StateOk(At("rebuild"), Live', item', tidy', grown')
  BY <1>2, <1>8 DEF StateOk, RebuildOk, TidyOk
<1> QED BY <1>2, <1>3, <1>7, <1>8, <1>9, OneRequest DEF Forms

LEMMA RebuildLedger ==
  ASSUME Alone, Fits, LedgerInv, NEW a \in Agents, Rebuild(a) PROVE LedgerInv'
<1>1. PICK rows \in Readable : Set(a, Storing(Replay(rows)))
  BY DEF Rebuild, Storing
<1>2. /\ task[a].at = "rebuild" /\ UNCHANGED <<entries, deleted, item, tidy, grown>>
      /\ Live' = Live
  BY SameLive DEF Rebuild, IsAt
<1>3. Forms /\ StateOk(task[a], Live, item, tidy, grown)
  BY DEF LedgerInv
<1> DEFINE t == Storing(Replay(Live))
<1>4. Set(a, t)
  BY <1>1, <1>3, ReadsAll
<1>5. t.at = "store" /\ t.after = Replay(Live) /\ TaskOk(t)
  BY TaskFields DEF TaskOk
<1> HIDE DEF t
<1>6. StateOk(t, Live', item', tidy', grown')
  BY <1>2, <1>3, <1>5 DEF StateOk, RebuildOk, TidyOk, GrownOk
<1> QED BY <1>2, <1>3, <1>4, <1>5, <1>6, OneRequest DEF Forms

LEMMA StoreRebuiltLedger ==
  ASSUME Alone, Fits, LedgerInv, NEW a \in Agents, StoreRebuilt(a) PROVE LedgerInv'
<1>1. /\ task[a].at = "store" /\ UNCHANGED <<entries, deleted, grown>> /\ Live' = Live
      /\ item' = Written(task[a].after, item.status) /\ Set(a, At("rebuilt"))
  BY SameLive DEF StoreRebuilt, IsAt, At
<1>2. tidy' \in BOOLEAN
  BY DEF StoreRebuilt
<1>3. Forms /\ StateOk(task[a], Live, item, tidy, grown)
  BY DEF LedgerInv
<1>4. At("rebuilt").at = "rebuilt" /\ TaskOk(At("rebuilt"))
  BY DEF At, TaskOk
<1>5. Holds(item', Replay(Live))
  BY <1>1, <1>3 DEF StateOk, RebuildOk, Holds, Written
<1>6. StateOk(At("rebuilt"), Live', item', tidy', grown')
  BY <1>1, <1>3, <1>4, <1>5 DEF StateOk, RebuildOk, TidyOk, GrownOk
<1> QED BY <1>1, <1>2, <1>3, <1>4, <1>6, OneRequest DEF Forms

LEMMA RespondLedger ==
  ASSUME Alone, Fits, LedgerInv, NEW a \in Agents, Respond(a) PROVE LedgerInv'
<1>1. /\ task[a].at = "rebuilt" /\ UNCHANGED <<entries, deleted, item, tidy, grown>>
      /\ Live' = Live /\ Set(a, At("idle"))
  BY SameLive DEF Respond, IsAt, At, Idle
<1>2. Forms /\ StateOk(task[a], Live, item, tidy, grown)
  BY DEF LedgerInv
<1>3. At("idle").at = "idle" /\ TaskOk(At("idle"))
  BY DEF At, TaskOk
<1>4. StateOk(At("idle"), Live', item', tidy', grown')
  BY <1>1, <1>2, <1>3 DEF StateOk, RebuildOk, TidyOk, GrownOk
<1> QED BY <1>1, <1>2, <1>3, <1>4, OneRequest DEF Forms

LEMMA CrashLedger ==
  ASSUME Alone, Fits, LedgerInv, NEW a \in Agents, Crash(a) PROVE LedgerInv'
<1>1. /\ tidy' = (tidy /\ task[a].at = "insert") /\ grown' = FALSE /\ Set(a, At("idle"))
      /\ UNCHANGED <<entries, deleted, item>> /\ Live' = Live
  BY SameLive DEF Crash, IsAt, At, Idle
<1>2. Forms /\ StateOk(task[a], Live, item, tidy, grown)
  BY DEF LedgerInv
<1>3. At("idle").at = "idle" /\ TaskOk(At("idle"))
  BY DEF At, TaskOk
<1>4. StateOk(At("idle"), Live', item', tidy', grown')
  BY <1>1, <1>2, <1>3 DEF StateOk, RebuildOk, TidyOk
<1> QED BY <1>1, <1>2, <1>3, <1>4, OneRequest DEF Forms

(* The item is new: no rows, and active.                                    *)
LEMMA InitLedger == Init => LedgerInv
<1> SUFFICES ASSUME Init PROVE LedgerInv
  OBVIOUS
<1>1. /\ entries = {} /\ deleted = {} /\ Live = {} /\ tidy = TRUE /\ grown = TRUE
      /\ item = [quantity |-> 0, cost |-> 0, current |-> 0, status |-> "active"]
      /\ task = [a \in Agents |-> At("idle")]
  BY DEF Init, Live, At, Idle
<1>2. Replay({}) = Zero
  BY ReplayStep, FS_EmptySet DEF Rows
<1>3. At("idle").at = "idle" /\ TaskOk(At("idle"))
  BY DEF At, TaskOk
<1>4. Forms
  BY <1>1, <1>3, FS_EmptySet DEF Forms, BookOk
<1>5. Holds(item, Replay({})) /\ item.status = "active"
  BY <1>1, <1>2 DEF Holds, Zero
<1>6. StateOk(At("idle"), Live, item, tidy, grown)
  BY <1>1, <1>3, <1>5 DEF StateOk, RebuildOk, TidyOk, GrownOk, Holds, Shows
<1> QED BY <1>1, <1>4, <1>6 DEF LedgerInv

LEMMA NextLedger == ASSUME Alone, Fits, LedgerInv, [Next]_vars PROVE LedgerInv'
<1>1. ASSUME NEW a \in Agents,
             \/ LoadLedger(a) \/ InsertEntry(a) \/ UpdateSnapshot(a)
             \/ VoidLeg(a) \/ DropLeg(a) \/ RepairEntry(a) \/ Rebuild(a) \/ StoreRebuilt(a)
             \/ Respond(a) \/ Crash(a)
      PROVE  LedgerInv'
  BY <1>1, LoadLedgerLedger, InsertEntryLedger, UpdateSnapshotLedger, VoidLegLedger, DropLegLedger,
     RepairEntryLedger, RebuildLedger, StoreRebuiltLedger, RespondLedger, CrashLedger
<1>2. CASE UNCHANGED vars
  BY <1>2, SameLive DEF vars, LedgerInv, Forms
<1> QED BY <1>1, <1>2 DEF Next, Quiet

(* The strengthening holds for any rows, movements and stops.               *)
THEOREM LedgerInvariant == ASSUME Alone, Fits PROVE Spec => []LedgerInv
<1>1. LedgerInv /\ [Next]_vars => LedgerInv'
  BY NextLedger
<1> QED BY <1>1, InitLedger, PTL DEF Spec

(* rebuildAndPersist repairs: whatever happened to the item before, the     *)
(* snapshot it returns is the replay of the rows that are alive.            *)
THEOREM RebuildsRepair == ASSUME Alone, Fits PROVE Spec => []RebuildRepairs
<1>1. LedgerInv => RebuildRepairs
  BY DEF LedgerInv, StateOk, RebuildOk, RebuildRepairs, IsAt, Agrees, Holds
<1> QED BY <1>1, LedgerInvariant, PTL

(* recordMovement applies its movement last: as long as rows come in by     *)
(* date, and again from the first rebuild on, the snapshot is the replay of *)
(* the rows that are alive, in quantity and in value.                       *)
THEOREM SnapshotIsReplay ==
  ASSUME Alone, Fits, Agents # {} PROVE Spec => []SnapshotFollowsLedger
<1>1. LedgerInv => SnapshotFollowsLedger
  BY DEF LedgerInv, StateOk, TidyOk, SnapshotFollowsLedger, AllIdle, IsAt, Agrees, Holds
<1> QED BY <1>1, LedgerInvariant, PTL

(* recordMovement compares the replay before and after: in whatever order   *)
(* rows come in, the status says whether something is held.                 *)
THEOREM StatusIsTracked ==
  ASSUME Alone, Fits, Moving, Agents # {} PROVE Spec => []StatusTracksMovements
<1>1. LedgerInv => StatusTracksMovements
  BY DEF LedgerInv, StateOk, GrownOk, Shows, StatusTracksMovements, StatusTracksQuantity, AllIdle, IsAt
<1> QED BY <1>1, LedgerInvariant, PTL
=============================================================================
