SPECIFICATION FairRoutineSpec
CONSTANTS
  old = old
  new = new
  day = day
  h1 = h1
  h2 = h2
  none = none
  nobody = nobody
  Tasks = {old}
  Occurrences = {old}
  Captured = {}
  HasEffects = {old}
  Rejectable = {}
  Handlers = {h1, h2}
  Free = none
  Offered = {"complete", "reopen", "skip"}
  MaxLog = 2
  MaxOutcomes = 9
  MaxVersion = 30
  MaxFaults = 1
  Dates = {day}
  DateOf <- OneDate
  PlacedStatic = {}
  Nobody = nobody
  MaxPasses = 2
  MaxPassFaults = 0
  MaxOverridden = 0
PROPERTIES  Answered
CHECK_DEADLOCK FALSE
