SPECIFICATION Spec
CONSTANTS
  plain = plain
  captured = captured
  occurrence = occurrence
  h1 = h1
  h2 = h2
  none = none
  Tasks = {plain}
  Occurrences = {}
  Captured = {}
  HasEffects = {plain}
  Rejectable = {}
  Handlers = {h1}
  Free = none
  Offered <- AllRequests
  MaxLog = 3
  MaxOutcomes = 1
  MaxVersion = 4
  MaxFaults = 0
INVARIANTS CompletionHasItsEffects
CHECK_DEADLOCK FALSE
