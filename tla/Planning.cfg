SPECIFICATION PlanningSpec
CONSTANTS
  task = task
  occurrence = occurrence
  h1 = h1
  h2 = h2
  c1 = c1
  c2 = c2
  Tasks = {task, occurrence}
  Occurrences = {occurrence}
  Handlers = {h1, h2}
  Slots = 2
  MaxPlans = 3
  Requests <- AllCases
  Minute = 2
  HorizonLength = 4
  LeastRepair = 2
  Listed = {1, 2}
  Lengths = {1, 3}
  MaxCalendars = 1
  MaxActs = 2
  Origins <- Given
  Proposals <- Written
  Clients = {c1, c2}
  MaxTasks = 7
  MaxEdits = 3
  Horizon = 1
SYMMETRY Symmetry
INVARIANTS
  WindowsAreKept
  WorkFollowsPrerequisites
  OccurrencesFitTogether
  PreferredIsWorthMore
  RepairKeepsFrozen
  OneFormOfTheWork
PROPERTIES
  KeepsTheLedger
  
  
  
  
  NothingIsErased
CHECK_DEADLOCK FALSE
