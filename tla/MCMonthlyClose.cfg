SPECIFICATION Spec
CONSTANTS
  Last = 2
  Users = {ana}
  Loop = server
  Slack = 1
  Flaws = {}
  MaxTroubles = 1
INVARIANTS DoneMeansWritten DoneMeansDrawn BookEndsAtLastKept LoopLeavesVerdict
PROPERTIES FollowsSchedule LoopSettles
CHECK_DEADLOCK FALSE
