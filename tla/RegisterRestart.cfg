CONSTANTS
  Process = {s1, s2, s3}
  Client = {w, r}
  Writer = {w}
  Value = {a}
  NoValue = NoValue
  Up = {s1, s2, s3}
  Unreliable = {}
  NewestView <- FirstView
  currentView <- AllInFirstView
  InitialView <- ClientsInFirstView
  MaxClientOps = 1
  MaxRestarts = 1
  MaxOps <- OpsBound
SPECIFICATION RestartSpec
INVARIANTS ReadsAreFresh
SYMMETRY ServersAndValues
CHECK_DEADLOCK FALSE
