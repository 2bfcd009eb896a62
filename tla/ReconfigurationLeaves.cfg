CONSTANTS
  s1 = s1
  s2 = s2
  s3 = s3
  s4 = s4
  s5 = s5
  Process = {s1, s2, s3}
  Start <- CompleteChanges
  MaxSequences = 1
  MayCrash = {s1}
  SlowTimers = {}
  MaxWrites = 0
SPECIFICATION FairSpec
INVARIANT LeaveIsSafe
PROPERTY ReconfigurationEnds
CHECK_DEADLOCK FALSE
