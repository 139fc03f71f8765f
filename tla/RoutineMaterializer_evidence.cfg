SPECIFICATION FairRoutineSpec
CONSTANTS
  old = old
  new = new
  day = day
  h1 = h1
  h2 = h2
  none = none
  nobody = nobody
  Tasks = {old, new}
  Occurrences = {old, new}
  Captured = {}
  HasEffects = {}
  Rejectable = {}
  Handlers = {h1}
  Free = none
  Offered = {"note"}
  MaxLog = 3
  MaxOutcomes = 9
  MaxVersion = 30
  MaxFaults = 0
  Dates = {day}
  DateOf <- OneDate
  PlacedStatic = {}
  Nobody = nobody
  MaxPasses = 2
  MaxPassFaults = 0
  MaxOverridden = 2
PROPERTIES EvidenceProtects
CHECK_DEADLOCK FALSE
