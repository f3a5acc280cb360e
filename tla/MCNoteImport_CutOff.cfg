SPECIFICATION Spec
CONSTANTS
  Line <- MCLine
  Old <- MCOld
  Uploads <- MCUploads
  Agents = {a1}
  MaxUploads = 3
  MaxStops = 1
CHECK_DEADLOCK FALSE
INVARIANTS CutOffNoteIsCompleted
