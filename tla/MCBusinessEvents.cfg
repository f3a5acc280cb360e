SPECIFICATION Spec
CONSTANTS
  Callers = {c1, c2}
  Refs = {r1, r2}
  NoRef = NoRef
  EventIds = {e1, e2, e3}
  NoEvent = NoEvent
SYMMETRY Symmetry
INVARIANTS
  TypeOK
  UniqueRevisions
  EnsureAgreement
  RevisionChain
  NoRivalRevisions
PROPERTIES
  ImplementsBook
