CONSTANTS
  s1 = s1
  s2 = s2
  s3 = s3
  Process = {s1, s2, s3}
  AssociatedView <- Three
  Address <- InOrder
  Learner = {s2, s3}
  Unreliable = {s3}
  NoValue = NoValue
  MaxProposals = 2
SPECIFICATION FairSpec
INVARIANTS TypeOK DecidedIsAccepted
PROPERTIES DecidesOnce EverybodyLearns
CHECK_DEADLOCK FALSE
