CONSTANTS
  s1 = s1
  s2 = s2
  s3 = s3
  Process = {s1, s2, s3}
  Start <- SmallViews
  MaxBroadcasts = 9
SPECIFICATION Spec
INVARIANTS MembersCacheCoherent QuorumsIntersect ProposalsAreChains SameUpdatesAreInstalled
PROPERTY GeneratesNested
CHECK_DEADLOCK FALSE
