SPECIFICATION ServicesSpec
CONSTANTS
  h1 = h1
  h2 = h2
  free = free
  none = none
  always = always
  fuelled = fuelled
  fuel = fuel
  Handlers = {h1, h2}
  Free = free
  Producers = {"precondition", "review", "vocabulary", "clarify"}
  Trees = {always, fuelled}
  NoTree = none
  Facts = {fuel}
  Needs <- TreeNeeds
  Seed = 1
  Ceiling = 2
  QueueLimit = 2
  MaxRequests = 4
  MaxDays = 1
  ubu = ubu
  a1 = a1
  a2 = a2
  i1 = i1
  i2 = i2
  s1 = s1
  s2 = s2
  r1 = r1
  r2 = r2
  r3 = r3
  Managed = {ubu}
  Approvers = {a1, a2}
  MaxPreviews = 2
  MaxApprovals = 2
  MaxTouches = 1
  Snapshots <- Files
  Native <- Mine
  Importers = {i1, i2}
  MaxRuns = 3
  MaxUserActs = 2
  MaxEdits = 1
  Seeders = {s1, s2}
  Issues = {1, 2}
  Settings = {"work_style", "attention_preference"}
  MaxSeeds = 2
  MaxImports = 1
  MaxEffects = 2
  Requests = {r1, r2, r3}
  MaxStarts = 3
  MaxFaults = 1
SYMMETRY Symmetry
INVARIANTS
  QueueInv
  ReportedIsDone
  
  OrderIsKept
  SeedsApartAreOne
  NoCircularWait
PROPERTIES
  AdmittedAsReviewed
  
  ExportsAreLegitimate
  ConflictsHaveAnAuthor
  MainlineWins
CHECK_DEADLOCK FALSE
