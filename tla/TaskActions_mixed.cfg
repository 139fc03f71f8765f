SPECIFICATION Spec
CONSTANTS
  plain = plain
  captured = captured
  occurrence = occurrence
  h1 = h1
  h2 = h2
  none = none
  Tasks = {captured, occurrence}
  Occurrences = {occurrence}
  Captured = {captured}
  HasEffects = {captured, occurrence}
  Rejectable = {occurrence}
  Handlers = {h1, h2}
  Free = none
  Offered <- AllRequests
  MaxLog = 2
  MaxOutcomes = 1
  MaxVersion = 3
  MaxFaults = 0
SYMMETRY SlotSymmetry
INVARIANTS TypeOK
 
CHECK_DEADLOCK FALSE
