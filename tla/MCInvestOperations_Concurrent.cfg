SPECIFICATION Spec
CONSTANTS
  trade = trade
  deferred = deferred
  dividend = dividend
  n1 = n1
  Agents = {a1, a2}
  Lines = {deferred}
  Refs = {n1}
  NoRef = NoRef
  EventIds = {e1, e2}
  NoEvent = NoEvent
  LegIds = {l1, l2, l3, l4}
  NoLeg = NoLeg
  Deferred = {deferred}
  CashOnly = {}
  SourceRef <- MCSourceRef
  MaxAborts = 1
  MayAbort = {"import", "void", "amend"}
SYMMETRY Symmetry
INVARIANTS
  GatheredUnderNote
  LinksMatch
