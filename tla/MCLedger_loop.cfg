SPECIFICATION Spec
CONSTANTS
  Keys = {"team"}
  Ceiling <- CeilingTight
  Ids = {r1, r2, r3}
  Threads = {t1, w1}
  Sweepers = {t1}
  Resetters = {w1}
  EventLoop = TRUE
  StoreFails = TRUE
  Amounts <- AmountsSame
  Actuals <- ActualsOne
  None = None
INVARIANTS CeilingWithinExcess HeldBounded OneFinisher OnlyOvertakenForgotten
PROPERTIES ImplementsBudgetWhileExact
SYMMETRY Symmetry
