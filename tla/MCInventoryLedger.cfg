SPECIFICATION Spec
CONSTANTS
  Agents = {a1}
  EntryIds = {1, 2, 3}
  Movements <- MCDaily
  ReadLimit = 500
  InDateOrder = "any"
  MayDo = {"record", "void", "drop", "repair"}
  MaxCrashes = 1
INVARIANTS SnapshotFollowsLedger RebuildRepairs StatusTracksMovements
