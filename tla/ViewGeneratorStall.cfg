CONSTANTS
  s1 = s1
  s2 = s2
  s3 = s3
  Process = {s1, s2, s3}
  Start <- S1AloneAccepted
  MaxBroadcasts = 9
SPECIFICATION FairSpec
PROPERTY RecvIsApplied
CHECK_DEADLOCK FALSE
