CONSTANTS
  s1 = s1
  s2 = s2
  s3 = s3
  s4 = s4
  s5 = s5
  Process = {s1, s2, s3, s4}
  Start <- ChangesWithWrites
  MaxSequences = 1
  MayCrash = {}
  SlowTimers = {s2}
  MaxWrites = 1
SPECIFICATION Spec
INVARIANTS TypeOK NoLostWrite OneServingView UnlockIsPaired AcceptedUpdatesSurvive
CHECK_DEADLOCK FALSE
