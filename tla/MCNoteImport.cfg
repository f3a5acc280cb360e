SPECIFICATION Spec
CONSTANTS
  Line <- MCLine
  Old <- MCOld
  Uploads <- MCUploads
  Agents = {a1, a2}
  MaxUploads = 3
  MaxStops = 1
SYMMETRY AgentSymmetry
INVARIANTS TradeBookedOnce CashExpectedOnce FinishedIsExpected NewNoteIsBooked
CHECK_DEADLOCK FALSE
