CONSTANTS
  s1 = s1
  s2 = s2
  s3 = s3
  s4 = s4
  s5 = s5
  Process = {s1, s2, s3, s4, s5}
  Client = {w, r}
  Writer = {w}
  Value = {a}
  NoValue = NoValue
  Up = {s2, s3, s4, s5}
  Unreliable = {s1, s2, s4}
  NewestView <- NewView
  currentView <- S2Behind
  InitialView <- ClientsInOldViews
  MaxOps <- OpsBound
  MaxWriterOps = 1
  MaxReaderOps = 2
SPECIFICATION FairSpec
INVARIANTS TypeOK FailsOnlyWithoutMajority ReadsAreFresh
PROPERTIES Atomic OperationsEnd
CHECK_DEADLOCK FALSE
