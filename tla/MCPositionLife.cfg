SPECIFICATION LifeSpec
CONSTANTS
  Movements <- MCMovements
  MaxQuantity = 3
  MaxMoves = 5
INVARIANTS PriceWithinLot CostIsQuantityAtPrice
PROPERTY PriceStaysTowardsZero
