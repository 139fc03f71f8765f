SPECIFICATION Spec
CONSTANTS
  work = work
  meeting = meeting
  early = early
  late = late
  none = none
  Works = {}
  Meetings = {meeting}
  Authored = {none}
  Windows = {early, late}
  Length <- SameLength
  Horizon = {early, late}
  Lookback = {}
  Nothing = none
  MaxStored = 1
  MaxOutside = 1
PROPERTIES MoveNeedsDrag
CHECK_DEADLOCK FALSE
