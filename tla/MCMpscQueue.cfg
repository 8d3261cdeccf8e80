CONSTANTS
  Capacity = 2
  Producers = {p1, p2}
  Events = {e1, e2}
  Raw = Raw
  WordSize = 16
  MaxPush = 5
SYMMETRY Symmetry
SPECIFICATION Spec
INVARIANTS SlotIsExclusive ClaimOrder UnracedRefusalIsFull
CHECK_DEADLOCK FALSE
