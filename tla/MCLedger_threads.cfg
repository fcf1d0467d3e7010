SPECIFICATION Spec
CONSTANTS
  Keys = {"team", "typo"}
  Ceiling <- CeilingOne
  Ids = {r1, r2, r3}
  Threads = {t1, t2}
  Sweepers = {}
  Resetters = {}
  EventLoop = FALSE
  StoreFails = TRUE
  Amounts <- AmountsSigned
  Actuals <- ActualsMixed
  None = None
INVARIANTS TypeOK CeilingHolds HeldExact OneFinisher RealSpendBound
PROPERTIES DenialJustified ImplementsBudget
SYMMETRY Symmetry
