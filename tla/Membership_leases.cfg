SPECIFICATION Spec
CONSTANTS
  d1 = d1  d2 = d2  s1 = s1
  None = None
  Daemon = {d1, d2}
  Shard = {s1}
  Lease = 1
  Margin = 1
  MaxSkew = 1
  MaxTime = 5
  MaxVersion = 4
  MaxCrashes = 1
SYMMETRY Daemons
CHECK_DEADLOCK FALSE
INVARIANTS TypeOK BelievedIsRecorded ExclusiveLease VersionTells
PROPERTIES NoEarlyTakeover
