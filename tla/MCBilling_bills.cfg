SPECIFICATION Spec
CONSTANTS
  Price <- PriceTable
  Ceiling = 12
  Requests = {r1, r2, r3}
  Payloads <- PayloadsMixed
  DefaultMax = 2
  Prompts = {1, 2}
  Outputs = {1, 3}
  Counts <- CountsMixed
  None = None
SYMMETRY Symmetry
CHECK_DEADLOCK FALSE
INVARIANTS TypeOK BillsFit ChargedAsBilled
