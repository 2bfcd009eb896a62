CONSTANTS
  s1 = s1
  s2 = s2
  s3 = s3
  s4 = s4
  s5 = s5
  Process = {s1, s2, s3}
  Start <- LeavesWhileJoining
  MaxSequences = 1
  MayCrash = {}
  SlowTimers = {}
  MaxWrites = 0
SPECIFICATION Spec
INVARIANT LockedOnlyOnce
CHECK_DEADLOCK FALSE
