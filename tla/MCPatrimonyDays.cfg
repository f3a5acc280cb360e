SPECIFICATION Spec
CONSTANTS
  Today = 2
  Closed = {}
  Entry <- MCEntry
  Exact = {"stock"}
  Opening = 0
  MaxAgents = 2
  MaxJobs = 3
  MaxTroubles = 1
INVARIANTS RowsFollowLedger CheckedRowAddsUp RebuildRepairs NobodyWaitsForNothing
CHECK_DEADLOCK FALSE
