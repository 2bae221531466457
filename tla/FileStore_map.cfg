SPECIFICATION Spec
CONSTANTS
  a = a  b = b  x = x  y = y
  None = None
  Task = {a, b}
  Val = {x, y}
  TornTails = {}
  ClockSteps = FALSE
  CompactAfter = 3
  SizeLimit = 3
  MaxLog = 4
  MaxDeletes = 2
  MaxFailures = 1
  MaxCrashes = 1
SYMMETRY Names
CHECK_DEADLOCK FALSE
INVARIANTS TypeOK CacheIsOnDisk CountersExact
PROPERTIES ImplementsTaskStore
