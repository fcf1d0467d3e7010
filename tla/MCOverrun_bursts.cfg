SPECIFICATION Spec
CONSTANTS
  N = 5
  Ceiling = 7
  Cost = 2
  Cheap = 1
  Dear = 4
  Hop = 1
  Call = 3
  MaxLate = 1
CHECK_DEADLOCK FALSE
INVARIANTS RaceFailsOpen PostHocBound NothingShows EnforcedExact
