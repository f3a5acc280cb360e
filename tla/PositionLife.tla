---------------------------- MODULE PositionLife ----------------------------
(***************************************************************************)
(* One position under every sequence of movements a portfolio can feed it: *)
(* what the valuation rule promises over a life of the position, not for   *)
(* one movement.  "lot" remembers the prices traded since it last was      *)
(* empty or changed side, "plain" that nothing but trades reached it.      *)
(***************************************************************************)
EXTENDS Valuation, FiniteSetsExt

CONSTANTS
  MaxQuantity,  (* bound: largest position, long or short                  *)
  MaxMoves      (* bound: movements in the life of the position            *)

ASSUME LifeAssumption == MaxQuantity \in Nat /\ MaxMoves \in Nat

VARIABLES position, lot, plain, moves

life == <<position, lot, plain, moves>>

LifeTypeOK ==
  /\ position \in [quantity : -MaxQuantity..MaxQuantity, pm : Int, cost : Int, current : Int]
  /\ lot \subseteq Nat
  /\ plain \in BOOLEAN
  /\ moves \in 0..MaxMoves

LifeInit == position = Zero /\ lot = {} /\ plain = TRUE /\ moves = 0

SameSide(p, q) == p.quantity * q.quantity > 0

TowardsZero(p, q) == SameSide(p, q) /\ Magnitude(q.quantity) < Magnitude(p.quantity)

\* What is remembered of the life of the position; the program keeps none of it.
Remember(m) ==
  LET opens == m.kind \in Trades /\ ~SameSide(position, position')
  IN /\ lot' = CASE opens /\ position'.quantity = 0 -> {}
                  [] opens /\ position'.quantity # 0 -> {m.unit}
                  [] m.kind \in Trades /\ ~opens /\ ~TowardsZero(position, position') ->
                       lot \cup {m.unit}
                  [] OTHER                           -> lot
     /\ plain' = IF opens THEN position.quantity # 0 \/ plain
                 ELSE plain /\ m.kind \in Trades

Move ==
  /\ moves < MaxMoves
  /\ \E m \in Movements :
       /\ Magnitude(position.quantity + m.delta) <= MaxQuantity
       /\ position' = Apply(position, m)
       /\ Remember(m)
  /\ moves' = moves + 1

Retired == moves = MaxMoves /\ UNCHANGED life

LifeSpec == LifeInit /\ [][Move \/ Retired]_life

\* The average price of a lot that only trades have reached lies between the
\* lowest and the highest price paid into it, through any mixture of buying,
\* selling, shorting and crossing zero; a position that is empty has none.
PriceWithinLot ==
  plain => IF position.quantity = 0 THEN position.pm = 0
           ELSE position.pm \in Min(lot)..Max(lot)

\* The stored cost of such a lot is the quantity at the average price, on both
\* sides of zero; the comment in ThreePricesValuation asks it of every movement
\* that keeps the price.
CostIsQuantityAtPrice == plain => position.cost = position.quantity * position.pm

\* REGRA UNIVERSAL DOS PMs: a movement that brings the position towards zero
\* never moves the price, whatever the position went through before.
PriceStaysTowardsZero ==
  [][ TowardsZero(position, position') => position'.pm = position.pm ]_life
=============================================================================
