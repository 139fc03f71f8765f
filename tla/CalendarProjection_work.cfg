SPECIFICATION Spec
CONSTANTS
  work = work
  meeting = meeting
  early = early
  late = late
  none = none
  Works = {work}
  Meetings = {}
  Authored = {none, early}
  Windows = {early, late}
  Length <- OtherLength
  Horizon = {early}
  Lookback = {late}
  Nothing = none
  MaxStored = 1
  MaxOutside = 4
INVARIANTS BeliefExact
PROPERTIES  AppliedAsPreviewed
CHECK_DEADLOCK FALSE
