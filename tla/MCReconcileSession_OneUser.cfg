SPECIFICATION Spec
CONSTANTS
  Agents = {a1}
  Sessions = {s1}
  LastDay = 2
  noted = noted
  entered = entered
  stray = stray
  FileLines = {noted}
  BookLines = {}
  DayOf <- MCDayOf
  LookAlikes <- MCLookAlikes
  Flaws <- MCFlaws
  DatesAsText = TRUE
  MaxAnswers = 4
  MaxEdits = 1
  MaxFailures = 1
  MaxRestarts = 1
PROPERTY ClosedStaysClosed
PROPERTY CloseFollowsMaterialise
