CONSTANTS
  s1 = s1
  s2 = s2
  s3 = s3
  s4 = s4
  s5 = s5
  Process = {s1, s2, s3}
  Client = {w, r}
  Writer = {w}
  Value = {a, b}
  NoValue = NoValue
  Up = {s1, s2, s3}
  Unreliable = {s2, s3}
  NewestView <- FirstView
  currentView <- AllInFirstView
  InitialView <- ClientsInFirstView
  MaxOps <- OpsBound
  MaxWriterOps = 2
  MaxReaderOps = 1
SPECIFICATION Spec
INVARIANTS ReturnedIsHeld TimestampsAreUnique
SYMMETRY UnreliableSymmetry
CHECK_DEADLOCK FALSE
