SPECIFICATION RoutineSpec
CONSTANTS
  old = old
  new = new
  day = day
  h1 = h1
  h2 = h2
  none = none
  nobody = nobody
  Tasks = {old, new}
  Occurrences = {old, new}
  Captured = {}
  HasEffects = {}
  Rejectable = {}
  Handlers = {h1}
  Free = none
  Offered = {"complete", "skip", "note"}
  MaxLog = 2
  MaxOutcomes = 9
  MaxVersion = 30
  MaxFaults = 0
  Dates = {day}
  DateOf <- OneDate
  PlacedStatic = {}
  Nobody = nobody
  MaxPasses = 3
  MaxPassFaults = 1
  MaxOverridden = 2
INVARIANTS PassInv OneOccurrencePerDate
PROPERTIES ImplementsTaskActions
CHECK_DEADLOCK FALSE
