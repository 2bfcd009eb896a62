CONSTANTS
  Process = {s1, s2}
  Client = {w1, w2}
  Writer = {w1, w2}
  Value = {a, b}
  NoValue = NoValue
  NoRead = NoRead
  Up = {s1, s2}
  Unreliable = {}
  NewestView <- FirstView
  currentView <- AllInFirstView
  InitialView <- ClientsInFirstView
  MaxClientOps = 2
  MaxOps <- OpsBound
SPECIFICATION ObserverSpec
PROPERTIES SettledReadsAgree
SYMMETRY ServersAndValues
CHECK_DEADLOCK FALSE
