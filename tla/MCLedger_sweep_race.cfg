SPECIFICATION Spec
CONSTANTS
  Keys = {"team"}
  Ceiling <- CeilingOne
  Ids = {r1, r2, r3}
  Threads = {t1, t2}
  Sweepers = {t1}
  Resetters = {}
  EventLoop = FALSE
  StoreFails = FALSE
  Amounts <- AmountsWhole
  Actuals <- ActualsWhole
  None = None
INVARIANTS CeilingHolds
