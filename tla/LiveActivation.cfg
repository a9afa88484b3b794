SPECIFICATION FairSpec
CONSTANTS
  s1 = s1  s2 = s2
  e1 = e1  e2 = e2  e3 = e3  e4 = e4
  c1 = c1  c2 = c2  c3 = c3
  v1 = v1  v2 = v2  b1 = b1  b2 = b2
  Store = {s1, s2}
  Admin = {a1, a2}
  Experiment = {e1, e2, e3, e4}
  Candidate = {c1, c2, c3}
  Evidence = {v1, v2}
  Boosts = {b1, b2}
  Inputs <- MCInputs
  Config <- MCConfig
  Stock = Stock
  None = None
  MaxEvents = 4
INVARIANTS LinearHistory OnlyAcceptedWinnersLive
PROPERTIES RequestsEnd ImplementsLiveState
