SPECIFICATION Spec
CONSTANTS
  a = a  b = b  x = x  y = y
  None = None
  Task = {a, b}
  Val = {x, y}
  TornTails = {"junk"}
  ClockSteps = FALSE
  CompactAfter = 3
  SizeLimit = 3
  MaxLog = 4
  MaxDeletes = 2
  MaxFailures = 0
  MaxCrashes = 1
SYMMETRY Names
CHECK_DEADLOCK FALSE
INVARIANTS CacheIsOnDisk
