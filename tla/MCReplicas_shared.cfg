SPECIFICATION Spec
CONSTANTS
  Keys = {"team"}
  Ceiling <- CeilingFive
  Ids = {r1, r2, r3}
  Procs = {p1, p2}
  Amounts = {2, 3}
  Costs <- CostsMixed
  Losses = TRUE
  Crashes = TRUE
  MaxTries = 2
  None = None
SYMMETRY Symmetry
CHECK_DEADLOCK FALSE
INVARIANTS TypeOK CeilingHolds HeldExact
PROPERTIES ImplementsBudget
