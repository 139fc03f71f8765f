SPECIFICATION Spec
CONSTANTS
  plain = plain
  captured = captured
  occurrence = occurrence
  h1 = h1
  h2 = h2
  none = none
  Tasks = {occurrence}
  Occurrences = {occurrence}
  Captured = {}
  HasEffects = {occurrence}
  Rejectable = {}
  Handlers = {h1, h2}
  Free = none
  Offered <- AllRequests
  MaxLog = 3
  MaxOutcomes = 1
  MaxVersion = 5
  MaxFaults = 1
SYMMETRY SlotSymmetry
INVARIANTS EffectsAtMostOnce EffectsInv DecisionInv
PROPERTIES DecisionsAreTrue OnlyUndoLeavesCompleted
CHECK_DEADLOCK FALSE
