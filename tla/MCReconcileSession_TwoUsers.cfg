SPECIFICATION Spec
CONSTANTS
  Agents = {a1, a2}
  Sessions = {s1}
  LastDay = 1
  noted = noted
  entered = entered
  stray = stray
  FileLines = {noted, entered}
  BookLines = {stray}
  DayOf <- MCDayOf
  LookAlikes <- MCLookAlikes
  Flaws <- MCNoFlaws
  DatesAsText = TRUE
  MaxAnswers = 4
  MaxEdits = 0
  MaxFailures = 1
  MaxRestarts = 1
SYMMETRY Symmetry
INVARIANT FinishedChangesAreLogged
 
