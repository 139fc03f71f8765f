SPECIFICATION Spec
CONSTANTS
  work = work
  meeting = meeting
  early = early
  late = late
  none = none
  Works = {}
  Meetings = {meeting}
  Authored = {none}
  Windows = {early, late}
  Length <- OtherLength
  Horizon = {early, late}
  Lookback = {}
  Nothing = none
  MaxStored = 1
  MaxOutside = 4
INVARIANTS TypeOK
PROPERTIES MeetingsAreSafe
CHECK_DEADLOCK FALSE
