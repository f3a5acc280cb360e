SPECIFICATION Spec
CONSTANTS
  trade = trade
  deferred = deferred
  dividend = dividend
  n1 = n1
  Agents = {a1}
  Lines = {trade, deferred, dividend}
  Refs = {n1}
  NoRef = NoRef
  EventIds = {e1, e2, e3}
  NoEvent = NoEvent
  LegIds = {l1, l2, l3, l4, l5, l6}
  NoLeg = NoLeg
  Deferred = {deferred}
  CashOnly = {dividend}
  SourceRef <- MCSourceRef
  MaxAborts = 1
  MayAbort = {"import"}
SYMMETRY Symmetry
INVARIANTS
  OneLegPerSlot
  ReturnedIsComplete
  SweepIsComplete
