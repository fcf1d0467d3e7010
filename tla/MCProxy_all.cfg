SPECIFICATION Spec
CONSTANTS
  Keys <- KeysOne
  Ceiling <- CeilingOne
  Requests = {r1, r2}
  Offers <- OffersMixed
  Costs <- CostsMixed
  MaxChunks = 2
  Faults <- AllFaults
  None = None
CHECK_DEADLOCK FALSE
INVARIANTS
  TypeOK
  CeilingHolds
  HeldExact
  InFlightBacked
  ServedIsCharged
  NoOrphans
PROPERTIES
  EndsOnce ImplementsBudget
  EndsOrAwaitsClient
