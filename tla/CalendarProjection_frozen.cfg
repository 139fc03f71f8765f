SPECIFICATION Spec
CONSTANTS
  work = work
  meeting = meeting
  early = early
  late = late
  none = none
  Works = {work}
  Meetings = {}
  Authored = {none}
  Windows = {early, late}
  Length <- SameLength
  Horizon = {early, late}
  Lookback = {}
  Nothing = none
  MaxStored = 1
  MaxOutside = 3
PROPERTIES CompletedIsFrozen
CHECK_DEADLOCK FALSE
