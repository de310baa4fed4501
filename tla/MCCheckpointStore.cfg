SPECIFICATION Spec
CONSTANTS
  p1 = p1
  p2 = p2
  Processes = {p1, p2}
  MaxSaves = 3
INVARIANTS
  NeverTornAnywhere
PROPERTIES
  SlotIsReplacedWhole
CHECK_DEADLOCK FALSE
