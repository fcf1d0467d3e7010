SPECIFICATION Spec
CONSTANTS
  Keys = {"demo"}
  Ceiling <- CeilingThree
  Instances = {p1, p2}
  Redis = Redis
  Configured = TRUE
  Ids = {r1, r2}
  Amounts = {2}
  Costs = {0, 1}
  Resets = {q1}
  MaxTries = 1
  MaxWaived = 0
  None = None
SYMMETRY Symmetry
CHECK_DEADLOCK FALSE
INVARIANTS HealthTells
