SPECIFICATION Spec
CONSTANTS
  c1 = c1  c2 = c2  slow = slow  fast = fast
  None = None
  Caller = {c1, c2}
  Group = {slow, fast}
  Limit <- SmallLimits
  Window = 2
  MaxTime = 4
  MaxCalls = 4
  MaxLost = 1
SYMMETRY Callers
CHECK_DEADLOCK FALSE
INVARIANTS TypeOK AtMostTwicePerWindow GrantsCounted
