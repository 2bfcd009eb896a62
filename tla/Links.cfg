CONSTANTS
  p1 = p1
  p2 = p2
  c1 = c1
  c2 = c2
  Process = {p1, p2}
  Caller = {c1, c2}
  NoProcess = NoProcess
  MayCrash = {p1}
  destinationView <- Destinations
  MaxCrashes = 1
  ChanCap = 1
SPECIFICATION FairSpec
INVARIANTS TypeOK FaultyLinksAreWatched
PROPERTIES BroadcastsEnd FaultyLinksAreRepaired
CHECK_DEADLOCK FALSE
