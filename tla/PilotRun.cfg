SPECIFICATION Spec
CONSTANTS
  a = a  b = b  hero = hero  detail = detail
  Runners = {a, b}
  Cases = {hero, detail}
  None = None
  MaxFaults = 2
  MaxEdits = 2
CHECK_DEADLOCK FALSE
SYMMETRY Interchangeable
INVARIANTS AttemptedOnce RunTellsItsCases ReviewStays
