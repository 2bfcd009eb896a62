CONSTANTS
  s1 = s1
  s2 = s2
  s3 = s3
  s4 = s4
  s5 = s5
  Process = {s1, s2, s3, s4, s5}
  Start <- TwoLeave
  MaxSequences = 1
  MayCrash = {}
  SlowTimers = {s3}
  MaxWrites = 1
SPECIFICATION Spec
INVARIANT NoLostWrite
CONSTRAINT SlowLinks
CHECK_DEADLOCK FALSE
