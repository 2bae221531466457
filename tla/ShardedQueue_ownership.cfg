SPECIFICATION Spec
CONSTANTS
  d1 = d1  d2 = d2
  None = None
  Daemon = {d1, d2}
  Shard = {0, 1}
  Lease = 0
  Margin = 0
  MaxSkew = 1
  MaxTime = 1
  MaxVersion = 3
  MaxCrashes = 1
  First = 0
  Requested <- BothShards
  MaxLines = 1
  MaxFaults = 1
SYMMETRY Daemons
CHECK_DEADLOCK FALSE
INVARIANTS TypeOK NoStrayEngine MapIsServed MapIsBelieved NoPanic ReadsCurrent ClaimsServed BootsDontRace NoRecordLost
PROPERTIES ImplementsMembership
