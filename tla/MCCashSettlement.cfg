SPECIFICATION Spec
CONSTANTS
  Legs <- MCLegs
  Occurred <- MCOccurred
  Extract <- MCExtract
  Agents = {i1, i2}
  MaxCrashes = 1
INVARIANTS NoExpectationLost CashCountedOnce PreviewForetells
PROPERTIES SettledLineStays ImportEnds
CHECK_DEADLOCK FALSE
