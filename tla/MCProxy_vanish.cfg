SPECIFICATION Spec
CONSTANTS
  Keys <- KeysOne
  Ceiling <- CeilingOne
  Requests = {r1, r2}
  Offers <- OffersMixed
  Costs <- CostsMixed
  MaxChunks = 1
  Faults = {"unstarted"}
  None = None
CHECK_DEADLOCK FALSE
INVARIANTS
  DisconnectFrees
